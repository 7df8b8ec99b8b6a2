--------------------------------- MODULE Lists ---------------------------------
(***************************************************************************)
(* Operations of the lists that the run-times use, those of the standard   *)
(* library and of list.c, on sequences.  They are written as recursive     *)
(* functions, so that they can be reasoned about as well as evaluated.     *)
(***************************************************************************)
EXTENDS Naturals, Sequences

Elements(s) == {s[k] : k \in 1..Len(s)}

\* No element occurs twice.
Distinct(s) == \A i, j \in 1..Len(s) : s[i] = s[j] => i = j

\* The elements of s that are in S, in their order, from its first n elements.
KeptOfFirst(s, S) ==
  LET kept[n \in 0..Len(s)] ==
        IF n = 0 THEN << >>
        ELSE IF s[n] \in S THEN Append(kept[n - 1], s[n]) ELSE kept[n - 1]
  IN  kept

\* list::remove_if, find_if, dzn_list_find_predicate: the elements of s that are in S, in their order.
Keep(s, S) == KeptOfFirst(s, S)[Len(s)]

\* erase of the element at k.
EraseAt(s, k) == SubSeq(s, 1, k - 1) \o SubSeq(s, k + 1, Len(s))

\* The element x put behind the first k.
InsertAfter(s, k, x) == Append(SubSeq(s, 1, k), x) \o SubSeq(s, k + 1, Len(s))
===============================================================================
