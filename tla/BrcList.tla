------------------------------ MODULE BrcList ------------------------------
(***************************************************************************)
(* The marks of one user on one board (struct _brc_cache_entry.list of     *)
(* src/bbs.h, libBBS/boards.c): at most BRC_MAXNUM ids of articles, the    *)
(* newest first, that end at the first 0.  An article is read when its id  *)
(* is in the list or below its last one; nothing is read while the list is *)
(* empty.                                                                  *)
(***************************************************************************)
EXTENDS Naturals

CONSTANT MaxNum     \* BRC_MAXNUM

(* brc_add_read writes list[2]. *)
ASSUME MaxNumAssumption == MaxNum \in Nat /\ MaxNum >= 3

Places  == 0 .. MaxNum - 1
Lists   == [Places -> Nat]
NoMarks == [n \in Places |-> 0]

(* The place at which a loop over the list stops for article f. *)
StopsAt(l, f, n) ==
  /\ l[n] = 0 \/ f >= l[n]
  /\ \A m \in Places : m < n => l[m] # 0 /\ f < l[m]
Stops(l, f) == \E n \in Places : StopsAt(l, f, n)
Place(l, f) == CHOOSE n \in Places : StopsAt(l, f, n)

Unread(l, f) ==
  \E n \in Places : StopsAt(l, f, n) /\ (IF l[n] = 0 THEN n = 0 ELSE f > l[n])

(* brc_board_unread meets a mark above `now` before it has its answer for  *)
(* the last article of the board.                                          *)
Above(l, now, lastpost) ==
  \E n \in Places : /\ l[n] > now
                    /\ \A m \in Places : m < n => l[m] \in 1 .. now /\ lastpost < l[m]

(* Mutated forms of definitions below. *)
Insert_After(l, n, f) == [m \in Places |-> IF m <= n THEN l[m] ELSE IF m = n + 1 THEN f ELSE l[m - 1]]
FirstMark_Ends(l, f)  == [l EXCEPT ![0] = f, ![1] = 0]     \* what boards.c:985 calls wrong

(* brc_add_read looks for the place in the list and then writes: here the  *)
(* list it has looked at is `old`, the one it writes to l.                 *)
Insert(l, n, f) == [m \in Places |-> IF m < n THEN l[m] ELSE IF m = n THEN f ELSE l[m - 1]]
FirstMark(l, f) == [l EXCEPT ![0] = f, ![1] = 1, ![2] = 0]
Inserts(old, f) == Stops(old, f) /\ old[Place(old, f)] # 0 /\ f > old[Place(old, f)]
AddTo(old, l, f) ==
  IF old[0] = 0 THEN FirstMark(l, f)
  ELSE IF Inserts(old, f) THEN Insert(l, Place(old, f), f) ELSE l
AddRead(l, f) == AddTo(l, l, f)
Adds(old, f)  == old[0] = 0 \/ Inserts(old, f)

(* brc_clear: everything up to `now` is read. *)
ClearAll(l, now) == [l EXCEPT ![0] = now, ![1] = 0]

(* brc_clear_new_flag: everything up to f is read. *)
Clears(l, f) == Stops(l, f) /\ (l[Place(l, f)] # 0 \/ Place(l, f) = 0)
ClearTo(l, f) ==
  IF ~Clears(l, f) THEN l
  ELSE LET n == Place(l, f) IN [m \in Places |-> IF m = n THEN f ELSE IF m = n + 1 THEN 0 ELSE l[m]]

(* The marks before the first 0 go down; only 1, which FirstMark adds, may  *)
(* stand there twice.                                                      *)
Visible(l, n) == \A m \in Places : m <= n => l[m] # 0
Sorted(l) == \A m, n \in Places : m < n /\ Visible(l, n) => l[n] < l[m] \/ l[n] = 1
=============================================================================
