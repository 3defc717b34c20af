--------------------------- MODULE MCLibraryCalls ---------------------------
(* An instance of LibraryCalls for TLC: few small primes, so that the test *)
(* of Miller and Rabin and the search for divisors meet composite numbers. *)
EXTENDS LibraryCalls

MCSmallPrimes == <<2, 3, 5, 7, 11, 13>>
MCPrimeBits == 6 .. 14  \* of which 17, the first that is tested, has the least
MCNumbers == 0 .. 130 \cup {169, 289, 293, 323, 361, 391, 437, 529, 578, 899, 4199, 4913}
             \cup {702, 703, 2046, 2047}  \* 703 and 2047 pass the test for some bases
             \cup {8209}      \* has too many bits to be tested
MCModuli == 1 .. 61 \cup {73, 89, 97, 113}
MCOrders == 2 .. 40 \cup {64, 65, 66, 129, 130, 256, 257, 258}
MCIntegers == {0, 1, 127, 128, 255, 256, 300, 65536}
Long(n) == [i \in 1 .. n |-> 7]
MCBodies == {<<>>, <<0>>, <<128>>, <<2, 1, 64>>, Long(127), Long(128), Long(256)}
MCOids ==
    { <<1, 2, 840, 10045>>, <<2, 999, 127, 128>>, <<0, 39>>, <<1, 40>>, <<2, 40, 0>>,
      <<2, 0, 16384>> }
MCAlterTo == {0, 1, 2, 3, 48, 127, 128, 129, 130, 255}
=============================================================================
