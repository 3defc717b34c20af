--------------------------- MODULE MCKeyExchange ---------------------------
(* An instance of KeyExchange for TLC: two curves of the library, one with *)
(* a cofactor, one Edwards curve, and Curve objects of another program: a  *)
(* copy of a curve of the library without cofactor, one with another       *)
(* generator, and one that is unknown.                                     *)
EXTENDS KeyExchange

MCFields == {"F1", "F2", "F4", "Ed"}

Par(p, a, b, size, plen) == [p |-> p, a |-> a, b |-> b, size |-> size, plen |-> plen]

MCParams ==
    [fp \in MCFields |->
       CASE fp = "F1" -> Par(13, 1, 2, 5, 2)
         [] fp = "F2" -> Par(13, 2, 1, 7, 2)
         [] fp = "F4" -> Par(17, 1, 3, 20, 3)
         [] fp = "Ed" -> Par(11, 0, 0, 20, 2)]

MCLibrary ==
    {Domain("F1", 1, 5, 1, "prime"), Domain("F4", 4, 5, 4, "composite"),
     Domain("Ed", 4, 5, 4, "Edwards")}

MCForeign ==
    {Domain("F4", 4, 5, 0, ""), Domain("F1", 2, 5, 1, ""), Domain("F2", 1, 7, 1, "")}

(* The curves of this instance are ones the theorems are about.            *)
ASSUME MCAssumption == \A c \in Curves : OddGenerator(c)
=============================================================================
