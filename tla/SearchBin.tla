----------------------------- MODULE SearchBin -----------------------------
(***************************************************************************)
(* Search_Bin (libBBS/article.c), one iteration of its loop per step.  The *)
(* same loop is in mmap_search_apply and mmap_dir_search.  The other       *)
(* modules use only its possible results, DirSearch!Hits and Gaps; here    *)
(* the loop itself is shown to give one of them, for every table.          *)
(*                                                                         *)
(* Positions are those of the code, from 0; sequences count from 1.        *)
(***************************************************************************)
EXTENDS Integers, DirSearch

CONSTANTS
  Tables,     \* the tables searched: sequences of records with a field id
  Keys        \* the ids searched for

ASSUME TablesAssumption == Tables \subseteq Seq([id : Int])
ASSUME KeysAssumption   == Keys \subseteq Int

VARIABLES
  table, key,           \* the parameters ptr and key
  low, high,            \* the part of the table not yet excluded
  ret,                  \* the value returned
  returned              \* TRUE when the function has returned

searchVars == <<table, key, low, high, ret, returned>>

mid == (low + high) \div 2
Probed == table[mid + 1].id

-----------------------------------------------------------------------------
(* Mutated forms of definitions below. *)
GoRight_Stays ==                    \* low = mid
  /\ ~returned /\ low <= high /\ key > Probed
  /\ low' = mid
  /\ UNCHANGED <<table, key, high, ret, returned>>
GoLeft_Skips ==                     \* high = mid - 2
  /\ ~returned /\ low <= high /\ key < Probed
  /\ high' = mid - 2
  /\ UNCHANGED <<table, key, low, ret, returned>>
Init_EndIsCount ==                  \* called with the count for the last index
  /\ table \in Tables /\ key \in Keys
  /\ low = 0 /\ high = Len(table)
  /\ ret = 0 /\ returned = FALSE

-----------------------------------------------------------------------------
(* Search_Bin(ptr, key, 0, count - 1), as prepare_write_dir calls it. *)
SearchInit ==
  /\ table \in Tables /\ key \in Keys
  /\ low = 0 /\ high = Len(table) - 1
  /\ ret = 0 /\ returned = FALSE

Found ==
  /\ ~returned /\ low <= high /\ key = Probed
  /\ ret' = mid /\ returned' = TRUE
  /\ UNCHANGED <<table, key, low, high>>

GoLeft ==
  /\ ~returned /\ low <= high /\ key < Probed
  /\ high' = mid - 1
  /\ UNCHANGED <<table, key, low, ret, returned>>

GoRight ==
  /\ ~returned /\ low <= high /\ key > Probed
  /\ low' = mid + 1
  /\ UNCHANGED <<table, key, high, ret, returned>>

NotFound ==
  /\ ~returned /\ low > high
  /\ ret' = -(low + 1) /\ returned' = TRUE
  /\ UNCHANGED <<table, key, low, high>>

SearchNext == Found \/ GoLeft \/ GoRight \/ NotFound

SearchSpec == SearchInit /\ [][SearchNext]_searchVars

(* The loop is not interrupted. *)
FairSearch == SearchSpec /\ WF_searchVars(SearchNext)

-----------------------------------------------------------------------------
(* The types; no entry outside the table is ever probed. *)
SearchTypeOK ==
  /\ table \in Tables /\ key \in Keys
  /\ ret \in Int /\ returned \in BOOLEAN
  /\ low \in 0 .. Len(table)
  /\ high \in -1 .. Len(table) - 1

(* What the binary searches leave behind in any table, sorted or not: an   *)
(* entry with the key, or a place between a smaller and a larger neighbour. *)
(* This is all that BoardDir assumes of a search.                          *)
ResultIsHitOrGap ==
  returned => IF ret >= 0 THEN ret + 1 \in Hits(table, key)
                          ELSE -ret \in Gaps(table, key)

(* In a table sorted by id a search that fails proves the article is gone. *)
FailureMeansAbsent ==
  returned /\ ret < 0 /\ SortedById(table) => Hits(table, key) = {}

(* The search ends, also in a table that other processes left unsorted. *)
Terminates == <>returned

(* The comment on Search_Bin (article.c:149): -1 is kept for errors. *)
MinusOneReserved == returned => ret # -1

(* The inductive invariant: what is left of low is smaller, what is right  *)
(* of high is larger than the key, where the loop has looked.              *)
Bracket ==
  /\ low <= high + 1
  /\ low > 0 => table[low].id < key
  /\ high < Len(table) - 1 => key < table[high + 2].id
=============================================================================
