--------------------------- MODULE MC_Portfolio ---------------------------
(* Portfolio with two sell orders of one user, who owns enough shares for  *)
(* the larger one or for both.                                             *)
EXTENDS Portfolio

CONSTANTS alice, bob, s1, s2

OwnerDef == [o \in Orders |-> alice]
QuantityDef == s1 :> 2 @@ s2 :> 1
EqualQuantityDef == s1 :> 2 @@ s2 :> 2
SharesDef == alice :> {2, 3} @@ bob :> {0}

\* The sessions of HTTP requests are interchangeable.
RequestsAlike == Permutations(Requests)
===========================================================================
