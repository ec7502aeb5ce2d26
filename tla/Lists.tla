--------------------------------- MODULE Lists ---------------------------------
(* Sequences used as lists of distinct entries, as the code's arrays and maps. *)
EXTENDS Naturals, Sequences

\* The entries of s, whatever their order.
Elements(s) == {s[i] : i \in DOMAIN s}

\* s without its entry i, the others keeping their order.
RemoveIndex(s, i) == [j \in 1..(Len(s) - 1) |-> IF j < i THEN s[j] ELSE s[j + 1]]

Injective(s) == \A i, j \in DOMAIN s : s[i] = s[j] => i = j
================================================================================
