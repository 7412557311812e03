----------------------------- MODULE DirSearch -----------------------------
(***************************************************************************)
(* Binary search by article id in an index file (.DIR, .ORIGIN, ...), as   *)
(* done by Search_Bin, mmap_search_apply and mmap_dir_search.              *)
(*                                                                         *)
(* The loop stops at an entry with the key, or at a gap `low' whose left   *)
(* neighbour (if any) was probed and is smaller and whose right neighbour  *)
(* (if any) was probed and is larger.  Hits and Gaps are exactly these     *)
(* stopping conditions, for every table, sorted or not.  In a table that   *)
(* is not sorted they admit every result the loop can give and perhaps     *)
(* more; module SearchBin compares them with the loop itself.              *)
(***************************************************************************)
EXTENDS Naturals, Sequences

(* Mutated forms of definitions below, one plausible bug each. *)
Gaps_AtEnd(table, key) ==           \* recovered articles are just appended
  {low \in 1 .. Len(table) + 1 :
     low = Len(table) + 1 /\ \A i \in DOMAIN table : table[i].id # key}

(* The entries at which a search for key can stop. *)
Hits(table, key) == {i \in DOMAIN table : table[i].id = key}

(* The places at which a search that finds nothing can stop: the new entry *)
(* would become number low.                                                *)
Gaps(table, key) ==
  {low \in 1 .. Len(table) + 1 :
     /\ low > 1 => table[low - 1].id < key
     /\ low <= Len(table) => key < table[low].id}

(* What is_sorted_mode promises of a table that is searched by id.  Two    *)
(* neighbours may be equal: a writer that is moving entries shows one of   *)
(* them twice for a moment.                                                *)
SortedById(table) ==
  \A i, j \in DOMAIN table : i < j => table[i].id <= table[j].id

(* The table after the shift of insert_func: the entries from low on have  *)
(* moved up by one, the last of them is written behind the end, and entry  *)
(* number low (the last one if low is behind the end) is there twice.      *)
MakeRoom(table, low) ==
  [i \in 1 .. Len(table) + 1 |->
     IF i <= low /\ i <= Len(table) THEN table[i] ELSE table[i - 1]]

(* The table after the memmove of a delete over entry number e, in a       *)
(* mapping that shows view: the last entry of the mapping is there twice.  *)
MoveOver(table, view, e) ==
  [i \in DOMAIN table |->
     IF e <= i /\ i < Len(view) THEN view[i + 1] ELSE table[i]]

=============================================================================
