------------------------------- MODULE Lists -------------------------------
(***************************************************************************)
(* What the vectors of the program are made of: places in a list, lists of *)
(* which a part is kept, lists put one behind the other.  The recursion is  *)
(* over the prefixes of a list, for which there are functions.             *)
(***************************************************************************)
EXTENDS Integers, Sequences, FiniteSets

Places(s, S) == {i \in 1..Len(s) : s[i] \in S}
Count(s, e)  == Cardinality(Places(s, {e}))

(* The elements of s at the places in I, in their order. *)
KeepAt(s, I) ==
  LET kept[n \in 0..Len(s)] ==
        IF n = 0 THEN <<>>
        ELSE IF n \in I THEN Append(kept[n - 1], s[n]) ELSE kept[n - 1]
  IN  kept[Len(s)]

(* The lists of ss, one behind the other. *)
Flat(ss) ==
  LET flat[n \in 0..Len(ss)] == IF n = 0 THEN <<>> ELSE flat[n - 1] \o ss[n]
  IN  flat[Len(ss)]
=============================================================================
