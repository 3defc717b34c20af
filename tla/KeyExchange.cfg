SPECIFICATION Spec
CONSTANTS
  Byte = 4
  Fields <- MCFields
  Params <- MCParams
  Library <- MCLibrary
  Foreign <- MCForeign
  SecretNumbers = {0, 2, 3, 5}
  PartyNumbers = {2, 3}
  PartyPoints = {1, 8, 10}
  Forms = {"raw", "uncompressed", "compressed"}
  MaxDamage = 1
INVARIANTS TypeOK ReadBack DamageTold KeysOnCurve SecretShared
