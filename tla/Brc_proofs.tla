----------------------------- MODULE Brc_proofs -----------------------------
(* What a user has read stays read: first the operations on one list of    *)
(* marks (BrcList), then what a row, a slot and the copies of a board have *)
(* to do with one another, then the steps of the sessions that share them. *)
(* And what he has not read is not shown as read: again the lists first,   *)
(* then which of them are in use after each step.                          *)
EXTENDS Brc, FiniteSetTheorems, WellFoundedInduction, TLAPS

(* A set of numbers has a least element: induction, without an operator. *)
LEMMA LeastNat ==
  ASSUME NEW T \in SUBSET Nat, T # {}
  PROVE  \E x \in T : \A y \in T : x <= y
<1> DEFINE R == OpToRel(<, Nat)
<1>1. IsWellFoundedOn(R, Nat)
  BY NatLessThanWellFounded
<1>2. \A x, y \in Nat : <<x, y>> \in R <=> x < y
  BY DEF OpToRel
<1> HIDE DEF R
<1>3. PICK x \in T : \A y \in T : ~ (<<y, x>> \in R)
  BY <1>1, WFMin
<1>4. \A y \in T : ~(y < x)
  BY <1>2, <1>3
<1>5. \A y \in T : x <= y
  BY <1>4
<1> QED BY <1>5

(* A loop over the list stops at one place at most. *)
LEMMA StopsOnce ==
  ASSUME NEW l \in Lists, NEW f \in Nat, NEW n \in Places, StopsAt(l, f, n)
  PROVE  Place(l, f) = n
<1>1. ASSUME NEW m \in Places, StopsAt(l, f, m) PROVE m = n
  <2>1. ~(m < n) /\ ~(n < m)
    BY <1>1 DEF StopsAt, Lists, Places
  <2> QED BY <2>1, MaxNumAssumption DEF Places
<1> QED BY <1>1 DEF Place

LEMMA PlaceStops ==
  ASSUME NEW l \in Lists, NEW f \in Nat, Stops(l, f)
  PROVE  Place(l, f) \in Places /\ StopsAt(l, f, Place(l, f))
BY DEF Stops, Place

LEMMA InsertType ==
  ASSUME NEW l \in Lists, NEW n \in Places, NEW f \in Nat
  PROVE  Insert(l, n, f) \in Lists
BY MaxNumAssumption DEF Insert, Lists, Places

LEMMA FirstMarkType ==
  ASSUME NEW l \in Lists, NEW f \in Nat
  PROVE  FirstMark(l, f) \in Lists
BY MaxNumAssumption DEF FirstMark, Lists, Places

LEMMA AddToType ==
  ASSUME NEW old \in Lists, NEW l \in Lists, NEW f \in Nat
  PROVE  AddTo(old, l, f) \in Lists
BY InsertType, FirstMarkType, PlaceStops DEF AddTo, Inserts

(* The list after brc_add_read, in the two cases that change it. *)
LEMMA AddCases ==
  ASSUME NEW l \in Lists, NEW f \in Nat
  PROVE  \/ l[0] = 0 /\ AddRead(l, f) = FirstMark(l, f)
         \/ /\ l[0] # 0
            /\ \E n \in Places : /\ StopsAt(l, f, n) /\ l[n] # 0 /\ f > l[n]
                                 /\ AddRead(l, f) = Insert(l, n, f)
         \/ l[0] # 0 /\ ~Inserts(l, f) /\ AddRead(l, f) = l
BY PlaceStops DEF AddRead, AddTo, Inserts

(* brc_add_read makes its article read (libBBS/boards.c:971-1001). *)
THEOREM AddedIsRead ==
  ASSUME NEW l \in Lists, NEW f \in Nat \ {0}
  PROVE  ~Unread(AddRead(l, f), f)
<1>0. 0 \in Places /\ 1 \in Places /\ 2 \in Places /\ Places \subseteq Nat
  BY MaxNumAssumption DEF Places
<1>1. CASE l[0] = 0
  <2>1. AddRead(l, f) = FirstMark(l, f)
    BY <1>1 DEF AddRead, AddTo
  <2>2. FirstMark(l, f)[0] = f
    BY <1>0 DEF FirstMark, Lists
  <2>3. StopsAt(FirstMark(l, f), f, 0)
    BY <2>2, <1>0 DEF StopsAt
  <2>4. ASSUME NEW n \in Places, StopsAt(FirstMark(l, f), f, n) PROVE n = 0
    BY <2>3, <2>4, <1>0, FirstMarkType, StopsOnce
  <2> QED BY <2>1, <2>2, <2>4 DEF Unread
<1>2. CASE \E n \in Places : StopsAt(l, f, n) /\ l[n] # 0 /\ f > l[n] /\ AddRead(l, f) = Insert(l, n, f)
  <2>1. PICK n \in Places : StopsAt(l, f, n) /\ l[n] # 0 /\ f > l[n] /\ AddRead(l, f) = Insert(l, n, f)
    BY <1>2
  <2> DEFINE new == Insert(l, n, f)
  <2>2. new \in Lists
    BY InsertType
  <2>3. new[n] = f /\ \A m \in Places : m < n => new[m] = l[m]
    BY <1>0 DEF Insert
  <2>4. new \in Lists /\ new[n] = f /\ \A m \in Places : m < n => new[m] = l[m]
    BY <2>2, <2>3
  <2>5. StopsAt(new, f, n)
    BY <2>1, <2>4, <1>0 DEF StopsAt
  <2>6. ASSUME NEW m \in Places, StopsAt(new, f, m) PROVE m = n
    BY <2>4, <2>5, <2>6, StopsOnce
  <2> HIDE DEF new
  <2>7. ~Unread(new, f)
    BY <2>4, <2>6 DEF Unread
  <2> QED BY <2>1, <2>7 DEF new
<1>3. CASE l[0] # 0 /\ ~Inserts(l, f) /\ AddRead(l, f) = l
  <2>1. SUFFICES ASSUME NEW n \in Places, StopsAt(l, f, n), IF l[n] = 0 THEN n = 0 ELSE f > l[n]
                 PROVE FALSE
    BY <1>3 DEF Unread
  <2>2. Place(l, f) = n /\ Stops(l, f)
    BY <2>1, StopsOnce DEF Stops
  <2> QED BY <1>3, <2>1, <2>2 DEF Inserts
<1> QED BY <1>1, <1>2, <1>3, AddCases

(* brc_add_read makes nothing unread that was read:                        *)
(* what moves back one place is still below its place, and what falls out  *)
(* at the end is below the last mark (libBBS/boards.c:971-983, 905-926).   *)
THEOREM ReadStaysRead ==
  ASSUME NEW l \in Lists, NEW f \in Nat, NEW g \in Nat, ~Unread(l, g)
  PROVE  ~Unread(AddRead(l, f), g)
<1>0. 0 \in Places /\ Places \subseteq Nat
  BY MaxNumAssumption DEF Places
<1>1. l[0] # 0
  <2>1. l[0] = 0 => StopsAt(l, g, 0)
    BY <1>0 DEF StopsAt
  <2> QED BY <1>0, <2>1 DEF Unread
<1>2. CASE \E n \in Places : StopsAt(l, f, n) /\ l[n] # 0 /\ f > l[n] /\ AddRead(l, f) = Insert(l, n, f)
  <2>1. PICK n \in Places : StopsAt(l, f, n) /\ l[n] # 0 /\ f > l[n] /\ AddRead(l, f) = Insert(l, n, f)
    BY <1>2
  <2> DEFINE new == Insert(l, n, f)
  <2>2. \A m \in Places : new[m] = IF m < n THEN l[m] ELSE IF m = n THEN f ELSE l[m - 1]
    BY DEF Insert
  <2>3. new[0] # 0
    BY <1>0, <1>1, <2>1, <2>2 DEF Lists
  <2>4. new \in Lists
    BY InsertType
  <2> HIDE DEF new
  <2>5. SUFFICES ASSUME NEW m \in Places, StopsAt(new, g, m), new[m] # 0, g > new[m]
                 PROVE  FALSE
    BY <2>1, <2>3 DEF Unread, new
  <2>6. \A k \in Places : k < m => g < new[k]
    BY <2>5 DEF StopsAt
  <2>7. CASE m < n
    <3>1. \A k \in Places : k <= m => new[k] = l[k]
      BY <1>0, <2>2, <2>7
    <3>2. StopsAt(l, g, m) /\ l[m] # 0 /\ g > l[m]
      BY <1>0, <2>5, <3>1 DEF StopsAt
    <3> QED BY <3>2 DEF Unread
  <2>8. CASE m = n
    <3>1. new[n] = f /\ \A k \in Places : k < n => new[k] = l[k]
      BY <1>0, <2>2
    <3>2. g > l[n]
      BY <2>1, <2>5, <2>8, <3>1 DEF Lists
    <3>3. StopsAt(l, g, n)
      BY <1>0, <2>1, <2>5, <2>8, <3>1, <3>2 DEF StopsAt, Lists
    <3> QED BY <2>1, <3>2, <3>3 DEF Unread
  <2>9. CASE m > n
    <3>1. m - 1 \in Places /\ new[m] = l[m - 1]
      BY <2>2, <2>9, MaxNumAssumption DEF Places
    <3>2. ASSUME NEW k \in Places, k < m - 1 PROVE l[k] # 0 /\ g < l[k]
      <4>1. CASE k < n
        <5>1. new[k] = l[k] /\ g < new[k]
          BY <1>0, <2>2, <2>6, <3>2, <4>1
        <5> QED BY <5>1 DEF Lists
      <4>2. CASE k >= n
        <5>1. k + 1 \in Places /\ k + 1 < m
          BY <3>2, MaxNumAssumption DEF Places
        <5>2. new[k + 1] = l[k] /\ g < new[k + 1]
          BY <1>0, <2>2, <2>6, <4>2, <5>1
        <5> QED BY <5>2 DEF Lists
      <4> QED BY <4>1, <4>2, <1>0
    <3>3. StopsAt(l, g, m - 1) /\ l[m - 1] # 0 /\ g > l[m - 1]
      BY <2>5, <3>1, <3>2 DEF StopsAt, Lists
    <3> QED BY <3>1, <3>3 DEF Unread
  <2> QED BY <1>0, <2>7, <2>8, <2>9
<1>3. CASE AddRead(l, f) = l
  BY <1>3
<1> QED BY <1>1, <1>2, <1>3, AddCases

(* brc_add_read makes no other article read, but one whose place is the    *)
(* last, whose mark falls out, and article 1, which ends a new list        *)
(* (libBBS/boards.c:972-983, 996-1001).                                    *)
THEOREM UnreadStaysUnread ==
  ASSUME NEW l \in Lists, NEW f \in Nat, NEW g \in Nat \ {f}, l[0] = 0 => g > 1,
         Unread(l, g), ~StopsAt(l, g, MaxNum - 1)
  PROVE  Unread(AddRead(l, f), g)
<1>0. 0 \in Places /\ 1 \in Places /\ 2 \in Places /\ Places \subseteq Nat
  BY MaxNumAssumption DEF Places
<1>1. CASE \E n \in Places : StopsAt(l, f, n) /\ l[n] # 0 /\ f > l[n] /\ AddRead(l, f) = Insert(l, n, f)
  <2>1. PICK n \in Places : StopsAt(l, f, n) /\ l[n] # 0 /\ f > l[n] /\ AddRead(l, f) = Insert(l, n, f)
    BY <1>1
  <2> DEFINE new == Insert(l, n, f)
  <2>2. \A k \in Places : new[k] = IF k < n THEN l[k] ELSE IF k = n THEN f ELSE l[k - 1]
    BY DEF Insert
  <2> HIDE DEF new
  <2>3. l[0] # 0
    BY <2>1, <1>0 DEF StopsAt, Lists
  <2>4. PICK m \in Places : StopsAt(l, g, m) /\ l[m] # 0 /\ g > l[m]
    BY <2>3 DEF Unread
  <2>5. m + 1 \in Places
    BY <2>4, MaxNumAssumption DEF Places
  <2>6. CASE m < n \/ (m = n /\ g > f)
    <3>1. \A k \in Places : k < m => new[k] = l[k]
      BY <1>0, <2>2, <2>6
    <3>2. new[m] # 0 /\ g > new[m]
      BY <1>0, <2>4, <2>1, <2>2, <2>6 DEF Lists
    <3>3. StopsAt(new, g, m)
      BY <1>0, <2>4, <3>1, <3>2, <2>2, <2>6, <2>1 DEF StopsAt, Lists
    <3> QED BY <2>1, <3>2, <3>3 DEF Unread, new
  <2>7. CASE m > n \/ (m = n /\ g < f)
    <3>1. new[m + 1] = l[m]
      BY <1>0, <2>5, <2>2, <2>7
    <3>2. ASSUME NEW k \in Places, k < m + 1 PROVE new[k] # 0 /\ g < new[k]
      <4>1. CASE k < n
        BY <1>0, <2>4, <2>2, <2>7, <4>1 DEF StopsAt, Lists
      <4>2. CASE k = n
        <5>1. g < f
          BY <1>0, <2>4, <2>1, <2>7 DEF StopsAt, Lists
        <5> QED BY <1>0, <5>1, <2>2, <4>2
      <4>3. CASE k > n
        <5>1. k - 1 \in Places /\ k - 1 < m
          BY <3>2, <4>3, MaxNumAssumption DEF Places
        <5> QED BY <1>0, <2>4, <2>2, <4>3, <5>1 DEF StopsAt, Lists
      <4> QED BY <4>1, <4>2, <4>3, <1>0
    <3>3. StopsAt(new, g, m + 1)
      BY <2>4, <2>5, <3>1, <3>2 DEF StopsAt, Lists
    <3> QED BY <2>4, <2>5, <2>1, <3>1, <3>3 DEF Unread, new
  <2> QED BY <1>0, <2>6, <2>7
<1>2. CASE AddRead(l, f) = l
  BY <1>2
<1>3. CASE l[0] = 0 /\ AddRead(l, f) = FirstMark(l, f)
  <2> DEFINE new == FirstMark(l, f)
  <2>1. new \in Lists /\ new[0] = f /\ new[1] = 1 /\ new[2] = 0
    BY <1>0, FirstMarkType DEF FirstMark, Lists
  <2> HIDE DEF new
  <2>2. CASE f = 0 \/ g > f
    BY <1>0, <1>3, <2>1, <2>2 DEF Unread, StopsAt, new
  <2>3. CASE f # 0 /\ g < f
    <3>1. StopsAt(new, g, 1)
      BY <1>0, <1>3, <2>1, <2>3 DEF StopsAt
    <3> QED BY <1>0, <1>3, <2>1, <3>1 DEF Unread, new
  <2> QED BY <2>2, <2>3
<1> QED BY <1>1, <1>2, <1>3, AddCases

(* The marks go down after brc_add_read, brc_clear_new_flag and brc_clear  *)
(* if they did before (libBBS/boards.c:960-1032).                          *)
THEOREM SortedKept ==
  ASSUME NEW l \in Lists, NEW f \in Nat, Sorted(l)
  PROVE  Sorted(AddRead(l, f)) /\ Sorted(ClearTo(l, f)) /\ Sorted(ClearAll(l, f))
<1>0. 0 \in Places /\ 1 \in Places /\ 2 \in Places /\ Places \subseteq Nat
  BY MaxNumAssumption DEF Places
<1>1. Sorted(ClearAll(l, f))
  <2>1. ClearAll(l, f)[1] = 0
    BY <1>0 DEF ClearAll, Lists
  <2> QED BY <2>1, <1>0 DEF Sorted, Visible
<1>2. Sorted(FirstMark(l, f))
  <2>1. FirstMark(l, f)[1] = 1 /\ FirstMark(l, f)[2] = 0
    BY <1>0 DEF FirstMark, Lists
  <2>2. ASSUME NEW n \in Places, n > 0, Visible(FirstMark(l, f), n) PROVE n = 1
    <3>1. ~(2 <= n)
      BY <1>0, <2>1, <2>2 DEF Visible
    <3> QED BY <3>1, <2>2, <1>0
  <2> QED BY <2>1, <2>2, <1>0 DEF Sorted
<1>3. Sorted(ClearTo(l, f))
  <2>1. CASE ~Clears(l, f)
    BY <2>1 DEF ClearTo
  <2>2. CASE Clears(l, f)
    <3> DEFINE p == Place(l, f)
               new == ClearTo(l, f)
    <3>1. p \in Places /\ StopsAt(l, f, p)
      BY <2>2, PlaceStops DEF Clears
    <3>2. \A m \in Places : new[m] = IF m = p THEN f ELSE IF m = p + 1 THEN 0 ELSE l[m]
      BY <2>2 DEF ClearTo
    <3> HIDE DEF p, new
    <3>3. SUFFICES ASSUME NEW m \in Places, NEW n \in Places, m < n, Visible(new, n)
                   PROVE  new[n] < new[m] \/ new[n] = 1
      BY DEF Sorted, new
    <3>4. n <= p
      <4>1. SUFFICES ASSUME n > p PROVE FALSE
        BY <1>0, <3>1
      <4>2. p + 1 \in Places /\ p + 1 <= n
        BY <3>1, <4>1, MaxNumAssumption DEF Places
      <4>3. new[p + 1] = 0
        BY <1>0, <3>1, <3>2, <4>2
      <4> QED BY <3>3, <4>2, <4>3 DEF Visible
    <3>5. CASE n < p
      <4>1. \A k \in Places : k <= n => new[k] = l[k]
        BY <1>0, <3>1, <3>2, <3>5
      <4>2. Visible(l, n)
        BY <3>3, <4>1 DEF Visible
      <4> QED BY <1>0, <3>3, <4>1, <4>2 DEF Sorted
    <3>6. CASE n = p
      <4>1. new[n] = f /\ new[m] = l[m]
        BY <1>0, <3>1, <3>2, <3>3, <3>6
      <4> QED BY <3>1, <3>3, <3>6, <4>1 DEF StopsAt
    <3> QED BY <1>0, <3>1, <3>4, <3>5, <3>6
  <2> QED BY <2>1, <2>2
<1>4. ASSUME NEW p \in Places, StopsAt(l, f, p), l[p] # 0, f > l[p]
      PROVE  Sorted(Insert(l, p, f))
  <2> DEFINE new == Insert(l, p, f)
  <2>1. \A m \in Places : new[m] = IF m < p THEN l[m] ELSE IF m = p THEN f ELSE l[m - 1]
    BY DEF Insert
  <2> HIDE DEF new
  <2>2. SUFFICES ASSUME NEW m \in Places, NEW n \in Places, m < n, Visible(new, n)
                 PROVE  new[n] < new[m] \/ new[n] = 1
    BY DEF Sorted, new
  <2>3. CASE n < p
    <3>1. \A k \in Places : k <= n => new[k] = l[k]
      BY <1>0, <2>1, <2>3
    <3>2. Visible(l, n)
      BY <2>2, <3>1 DEF Visible
    <3> QED BY <1>0, <2>2, <3>1, <3>2 DEF Sorted
  <2>4. CASE n = p
    <3>1. new[n] = f /\ new[m] = l[m]
      BY <1>0, <2>1, <2>2, <2>4
    <3> QED BY <1>4, <2>2, <2>4, <3>1 DEF StopsAt
  <2>5. CASE n > p
    <3>1. n - 1 \in Places /\ new[n] = l[n - 1]
      BY <2>1, <2>5, MaxNumAssumption DEF Places
    <3>2. Visible(l, n - 1)
      <4>1. SUFFICES ASSUME NEW k \in Places, k <= n - 1 PROVE l[k] # 0
        BY DEF Visible
      <4>2. CASE k < p
        BY <1>0, <2>1, <2>2, <4>1, <4>2 DEF Visible
      <4>3. CASE k >= p
        <5>1. k + 1 \in Places /\ k + 1 <= n
          BY <4>1, MaxNumAssumption DEF Places
        <5>2. new[k + 1] = l[k]
          BY <1>0, <2>1, <4>3, <5>1
        <5> QED BY <2>2, <5>1, <5>2 DEF Visible
      <4> QED BY <1>0, <4>2, <4>3
    <3>3. CASE m < p
      <4>1. new[m] = l[m] /\ m < n - 1
        BY <1>0, <2>1, <2>5, <3>3
      <4> QED BY <3>1, <3>2, <4>1 DEF Sorted
    <3>4. CASE m = p
      <4>1. new[m] = f
        BY <1>0, <2>1, <3>4
      <4>2. l[n - 1] < f \/ l[n - 1] = 1
        <5>1. CASE n - 1 = p
          BY <1>4, <5>1
        <5>2. CASE n - 1 > p
          BY <1>4, <3>1, <3>2, <5>2 DEF Sorted, Lists
        <5> QED BY <1>0, <2>5, <5>1, <5>2
      <4> QED BY <3>1, <4>1, <4>2
    <3>5. CASE m > p
      <4>1. m - 1 \in Places /\ m - 1 < n - 1 /\ new[m] = l[m - 1]
        BY <2>1, <2>2, <3>5, MaxNumAssumption DEF Places
      <4> QED BY <3>1, <3>2, <4>1 DEF Sorted
    <3> QED BY <1>0, <3>3, <3>4, <3>5
  <2> QED BY <1>0, <2>3, <2>4, <2>5
<1>5. Sorted(AddRead(l, f))
  BY <1>2, <1>4, AddCases
<1> QED BY <1>1, <1>3, <1>5

-----------------------------------------------------------------------------
(* What the operations leave of the articles 1 .. n.                         *)
LEMMA BoundedUnread ==
  ASSUME NEW l \in Lists, NEW n \in Nat, \A i \in Places : l[i] <= n, NEW f \in Nat, f > n
  PROVE  Unread(l, f)
<1>1. 0 \in Places /\ l[0] \in Nat /\ l[0] <= n /\ \A m \in Places : ~(m < 0)
  BY MaxNumAssumption DEF Places, Lists
<1>2. StopsAt(l, f, 0)
  BY <1>1 DEF StopsAt
<1> QED BY <1>1, <1>2 DEF Unread

LEMMA SortedNoMarks == NoMarks \in Lists /\ Sorted(NoMarks)
<1>1. 0 \in Places /\ \A m \in Places : 0 <= m
  BY MaxNumAssumption DEF Places
<1>2. \A n \in Places : ~Visible(NoMarks, n)
  BY <1>1 DEF Visible, NoMarks
<1> QED BY <1>2 DEF NoMarks, Lists, Sorted

(* brc_clear reads all of them. *)
LEMMA ClearAllReads ==
  ASSUME NEW l \in Lists, NEW n \in Nat, NEW f \in 1 .. n
  PROVE  ClearAll(l, n) \in Lists /\ ~Unread(ClearAll(l, n), f)
<1> DEFINE m == ClearAll(l, n)
<1>1. 0 \in Places /\ 1 \in Places /\ Places \subseteq Nat /\ m \in Lists /\ m[0] = n /\ m[1] = 0
  BY MaxNumAssumption DEF Places, Lists, ClearAll
<1> HIDE DEF m
<1>2. CASE f = n
  <2>1. StopsAt(m, f, 0)
    BY <1>1, <1>2 DEF StopsAt
  <2>2. ASSUME NEW k \in Places, StopsAt(m, f, k) PROVE k = 0
    BY <1>1, <2>1, <2>2, StopsOnce
  <2> QED BY <1>1, <1>2, <2>2 DEF Unread, m
<1>3. CASE f < n
  <2>1. StopsAt(m, f, 1)
    BY <1>1, <1>3 DEF StopsAt
  <2>2. ASSUME NEW k \in Places, StopsAt(m, f, k) PROVE k = 1
    BY <1>1, <2>1, <2>2, StopsOnce
  <2> QED BY <1>1, <2>2 DEF Unread, m
<1> QED BY <1>2, <1>3

(* brc_clear_new_flag reads all up to f, and nothing becomes unread. *)
LEMMA ClearToCases ==
  ASSUME NEW l \in Lists, NEW f \in Nat \ {0}
  PROVE  \/ ~Clears(l, f) /\ ClearTo(l, f) = l
         \/ \E p \in Places : /\ StopsAt(l, f, p) /\ (l[p] # 0 \/ p = 0)
                              /\ ClearTo(l, f) = [m \in Places |-> IF m = p THEN f ELSE IF m = p + 1 THEN 0 ELSE l[m]]
BY PlaceStops DEF ClearTo, Clears

LEMMA ClearToReads ==
  ASSUME NEW l \in Lists, NEW f \in Nat \ {0}, NEW g \in Nat \ {0}, g <= f \/ ~Unread(l, g)
  PROVE  ClearTo(l, f) \in Lists /\ ~Unread(ClearTo(l, f), g)
<1>0. 0 \in Places /\ Places \subseteq Nat
  BY MaxNumAssumption DEF Places
<1>1. CASE ~Clears(l, f) /\ ClearTo(l, f) = l
  <2>1. SUFFICES ASSUME g <= f, NEW n \in Places, StopsAt(l, g, n), IF l[n] = 0 THEN n = 0 ELSE g > l[n] PROVE FALSE
    BY <1>1 DEF Unread
  <2>2. CASE l[n] = 0
    <3>1. StopsAt(l, f, n)
      BY <1>0, <2>1, <2>2 DEF StopsAt, Lists
    <3> QED BY <1>1, <2>1, <2>2, <3>1, StopsOnce DEF Clears, Stops
  <2>3. CASE l[n] # 0
    <3>1. f > l[n]
      BY <1>0, <2>1, <2>3 DEF Lists
    <3>2. \A m \in Places : m < n => l[m] # 0
      BY <2>1 DEF StopsAt
    <3>3. PICK p \in Places : StopsAt(l, f, p) /\ l[p] # 0
      <4> DEFINE T == {m \in Places : l[m] = 0 \/ f >= l[m]}
      <4>0. f >= l[n]
        BY <3>1 DEF Lists
      <4>1. n \in T /\ T \in SUBSET Nat
        BY <1>0, <4>0
      <4>2. PICK p \in T : \A m \in T : p <= m
        BY <4>1, LeastNat
      <4>3. p \in Places /\ p <= n /\ (l[p] = 0 \/ f >= l[p])
        BY <4>1, <4>2
      <4>4. ASSUME NEW m \in Places, m < p PROVE l[m] # 0 /\ f < l[m]
        <5>1. m \notin T
          BY <1>0, <4>2, <4>3, <4>4
        <5> QED BY <1>0, <5>1 DEF Lists
      <4>5. StopsAt(l, f, p)
        BY <4>3, <4>4 DEF StopsAt
      <4>6. l[p] # 0
        BY <1>0, <2>3, <3>2, <4>3
      <4> QED BY <4>3, <4>5, <4>6
    <3> QED BY <1>1, <3>3, StopsOnce DEF Clears, Stops
  <2> QED BY <2>2, <2>3
<1>2. CASE \E p \in Places : /\ StopsAt(l, f, p) /\ (l[p] # 0 \/ p = 0)
                              /\ ClearTo(l, f) = [m \in Places |-> IF m = p THEN f ELSE IF m = p + 1 THEN 0 ELSE l[m]]
  <2>1. PICK p \in Places : /\ StopsAt(l, f, p) /\ (l[p] # 0 \/ p = 0)
                            /\ ClearTo(l, f) = [m \in Places |-> IF m = p THEN f ELSE IF m = p + 1 THEN 0 ELSE l[m]]
    BY <1>2
  <2> DEFINE new == ClearTo(l, f)
  <2>2. \A m \in Places : new[m] = IF m = p THEN f ELSE IF m = p + 1 THEN 0 ELSE l[m]
    BY <2>1
  <2>3. new \in Lists
    BY <1>0, <2>1 DEF Lists
  <2> HIDE DEF new
  <2>4. SUFFICES ASSUME NEW n \in Places, StopsAt(new, g, n), IF new[n] = 0 THEN n = 0 ELSE g > new[n] PROVE FALSE
    BY <2>3 DEF Unread, new
  <2>5. \A m \in Places : m < p => new[m] = l[m] /\ l[m] # 0 /\ f < l[m]
    BY <1>0, <2>1, <2>2 DEF StopsAt
  <2>6. CASE n < p
    <3>1. g > l[n] /\ new[n] = l[n] /\ l[n] \in Nat /\ l[n] # 0
      BY <2>4, <2>5, <2>6 DEF Lists
    <3>2. StopsAt(l, g, n)
      BY <1>0, <2>4, <2>5, <2>6, <3>1 DEF StopsAt
    <3>3. Unread(l, g)
      BY <3>1, <3>2 DEF Unread
    <3> QED BY <2>5, <2>6, <3>1, <3>3
  <2>7. CASE n = p
    <3>1. new[p] = f /\ g > f
      BY <1>0, <2>2, <2>4, <2>7
    <3>2. \A m \in Places : m < p => l[m] # 0 /\ g < l[m]
      BY <1>0, <2>4, <2>5, <2>7 DEF StopsAt
    <3>3. StopsAt(l, g, p) /\ (IF l[p] = 0 THEN p = 0 ELSE g > l[p])
      BY <1>0, <2>1, <3>1, <3>2 DEF StopsAt, Lists
    <3> QED BY <3>1, <3>3 DEF Unread
  <2>8. CASE n > p
    <3>1. new[p] = f /\ g < f
      BY <1>0, <2>2, <2>4, <2>8 DEF StopsAt
    <3>2. n = p + 1 \/ p + 1 < n
      BY <1>0, <2>8
    <3>3. n # p + 1
      BY <1>0, <2>2, <2>4, <2>8
    <3>4. p + 1 \in Places
      BY <3>2, <2>8, MaxNumAssumption DEF Places
    <3>5. new[p + 1] = 0
      BY <1>0, <2>2, <3>4
    <3> QED BY <2>4, <3>2, <3>3, <3>4, <3>5 DEF StopsAt
  <2> QED BY <1>0, <2>6, <2>7, <2>8
<1>3. ClearTo(l, f) \in Lists
  BY <1>0, ClearToCases DEF Lists
<1> QED BY <1>1, <1>2, <1>3, ClearToCases

(* None of them puts an id above n into a list that has none. *)
LEMMA FitKept ==
  ASSUME NEW l \in Lists, NEW n \in Nat, Fit(l, n), NEW f \in 1 .. n
  PROVE  Fit(AddRead(l, f), n) /\ Fit(ClearTo(l, f), n)
<1>0. 0 \in Places /\ 1 \in Places /\ 2 \in Places /\ Places \subseteq Nat
  BY MaxNumAssumption DEF Places
<1>1. l \in Lists /\ Sorted(l) /\ \A i \in Places : l[i] <= n
  BY DEF Fit
<1>2. \A i \in Places : FirstMark(l, f)[i] <= n
  BY <1>0, <1>1 DEF FirstMark, Lists
<1>3. ASSUME NEW p \in Places, NEW i \in Places PROVE Insert(l, p, f)[i] <= n
  <2>1. CASE i <= p
    BY <1>0, <1>1, <2>1 DEF Insert
  <2>2. CASE i > p
    <3>1. i - 1 \in Places
      BY <1>0, <2>2, MaxNumAssumption DEF Places
    <3> QED BY <1>0, <1>1, <2>2, <3>1 DEF Insert
  <2> QED BY <1>0, <2>1, <2>2
<1>4. \A i \in Places : AddRead(l, f)[i] <= n
  BY <1>1, <1>2, <1>3, AddCases
<1>5. \A i \in Places : ClearTo(l, f)[i] <= n
  BY <1>0, <1>1, ClearToCases
<1> QED BY <1>1, <1>4, <1>5, SortedKept DEF Fit

LEMMA FitClearAll ==
  ASSUME NEW l \in Lists, NEW n \in Nat, Fit(l, n)
  PROVE  Fit(ClearAll(l, n), n)
<1>0. 0 \in Places /\ 1 \in Places /\ l \in Lists /\ Sorted(l) /\ \A i \in Places : l[i] <= n
  BY MaxNumAssumption DEF Places, Fit
<1>1. \A i \in Places : ClearAll(l, n)[i] <= n
  BY <1>0 DEF ClearAll, Lists
<1> QED BY <1>0, <1>1, SortedKept DEF Fit

LEMMA FitNoMarks ==
  ASSUME NEW n \in Nat
  PROVE  Fit(NoMarks, n)
BY SortedNoMarks DEF Fit, NoMarks

LEMMA WithinRefl ==
  ASSUME NEW l, NEW n
  PROVE  Within(l, l, n)
BY DEF Within

LEMMA WithinTrans ==
  ASSUME NEW k, NEW l, NEW m, NEW n, Within(k, l, n), Within(l, m, n)
  PROVE  Within(k, m, n)
BY DEF Within

LEMMA WithinRemembers ==
  ASSUME NEW l, NEW m, NEW n, NEW fs \in SUBSET (1 .. n), Within(l, m, n), Remembers(l, fs)
  PROVE  Remembers(m, fs)
BY DEF Within, Remembers

(* A new article is read in no list. *)
LEMMA WithinMore ==
  ASSUME NEW l \in Lists, NEW m, NEW n \in Nat, Fit(l, n), Within(l, m, n)
  PROVE  Within(l, m, n + 1)
<1>1. SUFFICES ASSUME NEW f \in 1 .. n + 1, Unread(m, f) PROVE Unread(l, f)
  BY DEF Within
<1>2. CASE f \in 1 .. n
  BY <1>1, <1>2 DEF Within
<1>3. CASE f > n
  BY <1>3, BoundedUnread DEF Fit
<1> QED BY <1>2, <1>3

LEMMA FitMore ==
  ASSUME NEW l \in Lists, NEW n \in Nat, Fit(l, n)
  PROVE  Fit(l, n + 1)
<1>1. \A i \in Places : l[i] \in Nat /\ l[i] <= n
  BY DEF Fit, Lists
<1>2. \A i \in Places : l[i] <= n + 1
  BY <1>1
<1> QED BY <1>2 DEF Fit

-----------------------------------------------------------------------------
(* What a board keeps, whatever step is taken. *)
KeptTypes(r, e, fill, ups, n, fs) ==
  /\ r \in Lists /\ e \in [Slots -> Entry] /\ fill \in SUBSET Slots
  /\ ups \in SUBSET [base : Lists, data : Lists] /\ n \in Nat /\ fs \in SUBSET (1 .. n)

(* A new article has its id. *)
LEMMA KeptNumber ==
  ASSUME NEW r, NEW e, NEW fill, NEW copies, NEW ups, NEW n, NEW fs, NEW b,
         KeptTypes(r, e, fill, ups, n, fs), Kept(r, e, fill, copies, ups, n, fs, b)
  PROVE  Kept(r, e, fill, copies, ups, n + 1, fs, b)
<1>1. r \in Lists /\ n \in Nat /\ \A i \in Slots : e[i].list \in Lists
  BY DEF KeptTypes, Entry
<1>2. \A u \in ups : u.base \in Lists /\ u.data \in Lists
  BY DEF KeptTypes
<1>3. Fit(r, n) /\ UpsRight(r, ups, n)
  BY DEF Kept
<1>4. Fit(r, n + 1) /\ UpsRight(r, ups, n + 1)
  BY <1>1, <1>2, <1>3, FitMore, WithinMore DEF UpsRight
<1>5. ASSUME NEW i \in HasSlot(e, fill, b) PROVE SlotRight(r, e, i, ups, n + 1, fs)
  <2>1. SlotRight(r, e, i, ups, n, fs) /\ i \in Slots
    BY <1>5 DEF Kept, HasSlot
  <2>2. Fit(e[i].list, n + 1) /\ Within(r, e[i].list, n + 1)
    BY <1>1, <1>3, <2>1, FitMore, WithinMore DEF SlotRight
  <2>3. \A u \in ups : Within(u.data, e[i].list, n + 1)
    BY <1>1, <1>2, <1>3, <2>1, WithinMore DEF SlotRight, UpsRight
  <2>4. e[i].changed \/ Within(e[i].list, r, n + 1) \/ \E u \in ups : Within(e[i].list, u.data, n + 1)
    BY <1>1, <2>1, WithinMore DEF SlotRight
  <2> QED BY <2>1, <2>2, <2>3, <2>4 DEF SlotRight
<1>6. ASSUME HasSlot(e, fill, b) = {} PROVE RowRight(r, ups, n + 1, fs)
  <2>1. RowRight(r, ups, n, fs)
    BY <1>6 DEF Kept
  <2> QED BY <1>1, <1>2, <1>3, <2>1, WithinMore DEF RowRight, UpsRight
<1>7. /\ \A i, j \in Slots : e[i].bid = b /\ e[j].bid = b => i = j
      /\ \A i \in fill : e[i].bid = b => ~e[i].changed /\ i \notin copies
  BY DEF Kept
<1> QED BY <1>4, <1>5, <1>6, <1>7 DEF Kept

(* Other slots change, and which are filled or will be copied: nothing is  *)
(* different for the board.                                                *)
LEMMA KeptFrame ==
  ASSUME NEW r, NEW e, NEW fill, NEW copies, NEW ups, NEW n, NEW fs, NEW b,
         NEW e2, NEW fill2, NEW copies2,
         Kept(r, e, fill, copies, ups, n, fs, b),
         \A i \in Slots : e2[i].bid = b => e[i] = e2[i],
         HasSlot(e2, fill2, b) = HasSlot(e, fill, b),
         \A i \in fill2 : e2[i].bid = b => ~e2[i].changed /\ i \notin copies2
  PROVE  Kept(r, e2, fill2, copies2, ups, n, fs, b)
<1>1. \A i, j \in Slots : e2[i].bid = b /\ e2[j].bid = b => i = j
  BY DEF Kept
<1>2. ASSUME NEW i \in HasSlot(e2, fill2, b) PROVE SlotRight(r, e2, i, ups, n, fs)
  <2>1. SlotRight(r, e, i, ups, n, fs) /\ e[i] = e2[i]
    BY <1>2 DEF Kept, HasSlot
  <2> QED BY <2>1 DEF SlotRight
<1> QED BY <1>1, <1>2 DEF Kept

(* The list of its slot is marked, and flagged. *)
LEMMA KeptMark ==
  ASSUME NEW r, NEW e, NEW fill, NEW copies, NEW ups, NEW n, NEW fs, NEW b,
         NEW l, NEW i \in HasSlot(e, fill, b), NEW e2, NEW fs2, NEW x,
         KeptTypes(r, e, fill, ups, n, fs), Kept(r, e, fill, copies, ups, n, fs, b),
         e2 = [e EXCEPT ![i] = x], x.bid = e[i].bid, x.list = l, x.changed = TRUE,
         Fit(l, n), Within(e[i].list, l, n), Remembers(l, fs2)
  PROVE  Kept(r, e2, fill, copies, ups, n, fs2, b)
<1>0. i \in Slots \ fill /\ e[i].bid = b /\ e \in [Slots -> Entry] /\ fill \subseteq Slots
  BY DEF HasSlot, KeptTypes
<1>1. e2[i].bid = b /\ e2[i].list = l /\ e2[i].changed /\ \A j \in Slots \ {i} : e2[j] = e[j]
  BY <1>0 DEF Entry
<1>2. \A j, k \in Slots : e[j].bid = b /\ e[k].bid = b => j = k
  BY DEF Kept
<1>3. \A j, k \in Slots : e2[j].bid = b /\ e2[k].bid = b => j = k
  BY <1>0, <1>1, <1>2
<1>4. \A j \in fill : e2[j].bid = b => ~e2[j].changed /\ j \notin copies
  BY <1>0, <1>1 DEF Kept
<1>5. HasSlot(e2, fill, b) = {i}
  BY <1>0, <1>1, <1>3 DEF HasSlot
<1>6. SlotRight(r, e, i, ups, n, fs)
  BY DEF Kept
<1>7. SlotRight(r, e2, i, ups, n, fs2)
  BY <1>1, <1>6, WithinTrans DEF SlotRight
<1>8. Fit(r, n) /\ UpsRight(r, ups, n)
  BY DEF Kept
<1> QED BY <1>3, <1>4, <1>5, <1>7, <1>8 DEF Kept

(* More is read, of what its list has as read. *)
LEMMA KeptSeen ==
  ASSUME NEW r, NEW e, NEW fill, NEW copies, NEW ups, NEW n, NEW fs, NEW b,
         NEW i \in HasSlot(e, fill, b), NEW fs2,
         Kept(r, e, fill, copies, ups, n, fs, b), Remembers(e[i].list, fs2)
  PROVE  Kept(r, e, fill, copies, ups, n, fs2, b)
<1>1. \A j \in HasSlot(e, fill, b) : j = i
  BY DEF Kept, HasSlot
<1>2. SlotRight(r, e, i, ups, n, fs2)
  BY DEF Kept, SlotRight
<1>3. HasSlot(e, fill, b) # {}
  OBVIOUS
<1> QED BY <1>1, <1>2, <1>3 DEF Kept

(* A session reads the file. *)
LEMMA KeptRead ==
  ASSUME NEW r, NEW e, NEW fill, NEW copies, NEW ups, NEW n, NEW fs, NEW b, NEW copies2,
         Kept(r, e, fill, copies, ups, n, fs, b),
         \A i \in fill : e[i].bid = b => i \notin copies2
  PROVE  Kept(r, e, fill, copies2, ups \cup {[base |-> r, data |-> r]}, n, fs, b)
<1> DEFINE u  == [base |-> r, data |-> r]
           us == ups \cup {u}
<1>1. Fit(r, n) /\ UpsRight(r, ups, n)
  BY DEF Kept
<1>2. u.base = r /\ u.data = r
  OBVIOUS
<1>3. UpsRight(r, us, n)
  BY <1>1, <1>2, WithinRefl DEF UpsRight
<1> HIDE DEF u
<1>4. ASSUME NEW i \in HasSlot(e, fill, b) PROVE SlotRight(r, e, i, us, n, fs)
  <2>1. SlotRight(r, e, i, ups, n, fs)
    BY <1>4 DEF Kept
  <2> QED BY <1>2, <2>1 DEF SlotRight
<1>5. ASSUME HasSlot(e, fill, b) = {} PROVE RowRight(r, us, n, fs)
  <2>1. RowRight(r, ups, n, fs)
    BY <1>5 DEF Kept
  <2> QED BY <1>2, <2>1, WithinRefl DEF RowRight
<1>6. /\ \A i, j \in Slots : e[i].bid = b /\ e[j].bid = b => i = j
      /\ \A i \in fill : e[i].bid = b => ~e[i].changed /\ i \notin copies2
  BY DEF Kept
<1>7. Kept(r, e, fill, copies2, us, n, fs, b)
  BY <1>1, <1>3, <1>4, <1>5, <1>6 DEF Kept
<1> QED BY <1>7 DEF u

(* A session copies the slot of the board over the row it has read. *)
LEMMA KeptCopy ==
  ASSUME NEW r, NEW e, NEW fill, NEW copies, NEW ups, NEW n, NEW fs, NEW b,
         NEW u, NEW u2, NEW i \in HasSlot(e, fill, b), NEW copies2 \in SUBSET copies,
         Kept(r, e, fill, copies, ups \cup {u}, n, fs, b),
         u2.base = u.base, u2.data = e[i].list
  PROVE  Kept(r, e, fill, copies2, ups \cup {u2}, n, fs, b)
<1>1. \A j \in HasSlot(e, fill, b) : j = i
  BY DEF Kept, HasSlot
<1>2. SlotRight(r, e, i, ups \cup {u}, n, fs)
  BY DEF Kept
<1>3. Fit(r, n) /\ UpsRight(r, ups \cup {u}, n)
  BY DEF Kept
<1>4. Within(u2.base, u2.data, n) /\ Fit(u2.base, n) /\ Fit(u2.data, n) /\ Within(u2.base, r, n)
  <2>1. Fit(u.base, n) /\ Within(u.base, r, n)
    BY <1>3 DEF UpsRight
  <2>2. Within(r, e[i].list, n) /\ Fit(e[i].list, n)
    BY <1>2 DEF SlotRight
  <2> QED BY <2>1, <2>2, WithinTrans
<1>5. UpsRight(r, ups \cup {u2}, n)
  BY <1>3, <1>4 DEF UpsRight
<1>6. SlotRight(r, e, i, ups \cup {u2}, n, fs)
  <2>1. \A x \in ups \cup {u2} : Within(x.data, e[i].list, n)
    BY <1>2, WithinRefl DEF SlotRight
  <2>2. \E x \in ups \cup {u2} : Within(e[i].list, x.data, n)
    BY WithinRefl
  <2> QED BY <1>2, <2>1, <2>2 DEF SlotRight
<1>7. /\ \A j, k \in Slots : e[j].bid = b /\ e[k].bid = b => j = k
      /\ \A j \in fill : e[j].bid = b => ~e[j].changed /\ j \notin copies2
  BY DEF Kept
<1>8. HasSlot(e, fill, b) # {}
  OBVIOUS
<1> QED BY <1>1, <1>3, <1>5, <1>6, <1>7, <1>8 DEF Kept

(* A session gives up its copy of the row. *)
LEMMA KeptDrop ==
  ASSUME NEW r, NEW e, NEW fill, NEW copies, NEW ups, NEW n, NEW fs, NEW b,
         NEW u, NEW copies2 \in SUBSET copies,
         Kept(r, e, fill, copies, ups \cup {u}, n, fs, b),
         u.data = r \/ u.data = u.base
  PROVE  Kept(r, e, fill, copies2, ups, n, fs, b)
<1>1. Fit(r, n) /\ UpsRight(r, ups \cup {u}, n)
  BY DEF Kept
<1>2. UpsRight(r, ups, n) /\ Within(u.data, r, n)
  BY <1>1, WithinRefl DEF UpsRight
<1>3. ASSUME NEW i \in HasSlot(e, fill, b) PROVE SlotRight(r, e, i, ups, n, fs)
  <2>1. SlotRight(r, e, i, ups \cup {u}, n, fs)
    BY <1>3 DEF Kept
  <2>2. Within(e[i].list, u.data, n) => Within(e[i].list, r, n)
    BY <1>2, WithinTrans
  <2> QED BY <2>1, <2>2 DEF SlotRight
<1>4. ASSUME HasSlot(e, fill, b) = {} PROVE RowRight(r, ups, n, fs)
  <2>1. RowRight(r, ups \cup {u}, n, fs)
    BY <1>4 DEF Kept
  <2> QED BY <2>1 DEF RowRight
<1>5. /\ \A j, k \in Slots : e[j].bid = b /\ e[k].bid = b => j = k
      /\ \A j \in fill : e[j].bid = b => ~e[j].changed /\ j \notin copies2
  BY DEF Kept
<1> QED BY <1>1, <1>2, <1>3, <1>4, <1>5 DEF Kept

(* The file is replaced by a copy of what it still is. *)
LEMMA KeptMove ==
  ASSUME NEW r, NEW e, NEW fill, NEW copies, NEW ups, NEW n, NEW fs, NEW b, NEW u, NEW r2,
         KeptTypes(r, e, fill, ups, n, fs),
         Kept(r, e, fill, copies, ups \cup {u}, n, fs, b), u.base = r, u.data = r2
  PROVE  Kept(r2, e, fill, copies, ups, n, fs, b)
<1>0. fs \in SUBSET (1 .. n)
  BY DEF KeptTypes
<1>1. Fit(r, n) /\ UpsRight(r, ups \cup {u}, n)
  BY DEF Kept
<1>2. Fit(r2, n) /\ Within(r, r2, n)
  BY <1>1 DEF UpsRight
<1>3. UpsRight(r2, ups, n)
  BY <1>1, <1>2, WithinTrans DEF UpsRight
<1>4. ASSUME NEW i \in HasSlot(e, fill, b) PROVE SlotRight(r2, e, i, ups, n, fs)
  <2>1. SlotRight(r, e, i, ups \cup {u}, n, fs)
    BY <1>4 DEF Kept
  <2>2. Within(e[i].list, r, n) => Within(e[i].list, r2, n)
    BY <1>2, WithinTrans
  <2> QED BY <2>1, <2>2 DEF SlotRight
<1>5. ASSUME HasSlot(e, fill, b) = {} PROVE RowRight(r2, ups, n, fs)
  <2>1. RowRight(r, ups \cup {u}, n, fs)
    BY <1>5 DEF Kept
  <2> QED BY <1>0, <1>2, <2>1, WithinTrans, WithinRemembers DEF RowRight
<1>6. /\ \A j, k \in Slots : e[j].bid = b /\ e[k].bid = b => j = k
      /\ \A j \in fill : e[j].bid = b => ~e[j].changed /\ j \notin copies
  BY DEF Kept
<1> QED BY <1>2, <1>3, <1>4, <1>5, <1>6 DEF Kept

(* The flag of a slot is cleared, after what it has is copied. *)
LEMMA KeptFlag ==
  ASSUME NEW r, NEW e, NEW fill, NEW copies, NEW ups, NEW n, NEW fs, NEW b,
         NEW i \in Slots, NEW u \in ups, NEW e2, NEW copies2, NEW y,
         KeptTypes(r, e, fill, ups, n, fs), Kept(r, e, fill, copies, ups, n, fs, b),
         e2 = [e EXCEPT ![i] = y], y.bid = e[i].bid, y.list = e[i].list, y.changed = FALSE,
         e[i].bid = b => u.data = e[i].list,
         \A j \in fill : e[j].bid = b => j \notin copies2
  PROVE  Kept(r, e2, fill, copies2, ups, n, fs, b)
<1>0. e \in [Slots -> Entry]
  BY DEF KeptTypes
<1>1. /\ e2[i].bid = e[i].bid /\ e2[i].list = e[i].list /\ e2[i].changed = FALSE
      /\ \A j \in Slots \ {i} : e2[j] = e[j]
  BY <1>0 DEF Entry
<1>2. \A j, k \in Slots : e2[j].bid = b /\ e2[k].bid = b => j = k
  BY <1>1 DEF Kept
<1>3. \A j \in fill : e2[j].bid = b => ~e2[j].changed /\ j \notin copies2
  <2>1. fill \subseteq Slots
    BY DEF KeptTypes
  <2> QED BY <1>1, <2>1 DEF Kept
<1>4. HasSlot(e2, fill, b) = HasSlot(e, fill, b)
  BY <1>1 DEF HasSlot
<1>5. ASSUME NEW j \in HasSlot(e, fill, b) PROVE SlotRight(r, e2, j, ups, n, fs)
  <2>1. SlotRight(r, e, j, ups, n, fs) /\ j \in Slots /\ e[j].bid = b
    BY <1>5 DEF Kept, HasSlot
  <2>2. e2[j].list = e[j].list
    BY <1>1, <2>1
  <2>3. e2[j].changed \/ Within(e2[j].list, r, n) \/ \E x \in ups : Within(e2[j].list, x.data, n)
    <3>1. CASE j = i
      BY <2>1, <2>2, <3>1, WithinRefl
    <3>2. CASE j # i
      BY <1>1, <2>1, <3>2 DEF SlotRight
    <3> QED BY <3>1, <3>2
  <2> QED BY <2>1, <2>2, <2>3 DEF SlotRight
<1>6. Fit(r, n) /\ UpsRight(r, ups, n) /\ (HasSlot(e, fill, b) = {} => RowRight(r, ups, n, fs))
  BY DEF Kept
<1> QED BY <1>2, <1>3, <1>4, <1>5, <1>6 DEF Kept

(* Its slot is lost, when its list is in the file: to another board, or    *)
(* with the file "entry".                                                  *)
LEMMA KeptLost ==
  ASSUME NEW r, NEW e, NEW fill, NEW copies, NEW ups, NEW n, NEW fs, NEW b,
         NEW e2, NEW fill2, NEW copies2,
         KeptTypes(r, e, fill, ups, n, fs), Kept(r, e, fill, copies, ups, n, fs, b),
         \A i \in Slots : e2[i].bid = b => e[i].bid = b,
         HasSlot(e2, fill2, b) = {},
         \A i \in fill2 : e2[i].bid = b => ~e2[i].changed /\ i \notin copies2,
         \A i \in HasSlot(e, fill, b) : (~e[i].changed /\ ups = {}) \/ e[i].list = r
  PROVE  Kept(r, e2, fill2, copies2, ups, n, fs, b)
<1>0. fs \in SUBSET (1 .. n)
  BY DEF KeptTypes
<1>1. RowRight(r, ups, n, fs)
  <2>1. CASE HasSlot(e, fill, b) = {}
    BY <2>1 DEF Kept
  <2>2. ASSUME NEW i \in HasSlot(e, fill, b) PROVE RowRight(r, ups, n, fs)
    <3>1. SlotRight(r, e, i, ups, n, fs)
      BY <2>2 DEF Kept
    <3>2. CASE e[i].list = r
      BY <3>1, <3>2 DEF SlotRight, RowRight
    <3>3. CASE ~e[i].changed /\ ups = {}
      <4>1. Within(e[i].list, r, n) /\ Remembers(e[i].list, fs)
        BY <3>1, <3>3 DEF SlotRight
      <4> QED BY <1>0, <3>3, <4>1, WithinRemembers DEF RowRight
    <3> QED BY <2>2, <3>2, <3>3
  <2> QED BY <2>1, <2>2
<1>2. \A j, k \in Slots : e2[j].bid = b /\ e2[k].bid = b => j = k
  BY DEF Kept
<1>3. Fit(r, n) /\ UpsRight(r, ups, n)
  BY DEF Kept
<1> QED BY <1>1, <1>2, <1>3 DEF Kept

(* The board gets a slot, with its row. *)
LEMMA KeptBid ==
  ASSUME NEW r, NEW e, NEW fill, NEW copies, NEW ups, NEW n, NEW fs, NEW b,
         NEW i \in fill, NEW e2, NEW fill2 \in SUBSET (fill \ {i}),
         KeptTypes(r, e, fill, ups, n, fs), Kept(r, e, fill, copies, ups, n, fs, b),
         e2 = [e EXCEPT ![i] = [bid |-> b, list |-> r, changed |-> FALSE]],
         \A j \in Slots \ {i} : e[j].bid # b
  PROVE  Kept(r, e2, fill2, copies, ups, n, fs, b)
<1>0. e \in [Slots -> Entry] /\ i \in Slots /\ fill \subseteq Slots
  BY DEF KeptTypes
<1>1. /\ e2[i].bid = b /\ e2[i].list = r /\ e2[i].changed = FALSE
      /\ \A j \in Slots \ {i} : e2[j] = e[j]
  BY <1>0
<1>2. HasSlot(e, fill, b) = {} /\ HasSlot(e2, fill2, b) = {i}
  BY <1>0, <1>1 DEF HasSlot
<1>3. RowRight(r, ups, n, fs) /\ Fit(r, n) /\ UpsRight(r, ups, n)
  BY <1>2 DEF Kept
<1>4. SlotRight(r, e2, i, ups, n, fs)
  BY <1>1, <1>3, WithinRefl DEF RowRight, SlotRight
<1>5. /\ \A j, k \in Slots : e2[j].bid = b /\ e2[k].bid = b => j = k
      /\ \A j \in fill2 : e2[j].bid = b => ~e2[j].changed /\ j \notin copies
  BY <1>0, <1>1
<1> QED BY <1>2, <1>3, <1>4, <1>5 DEF Kept

-----------------------------------------------------------------------------
(* The types.                                                              *)
LEMMA MinIs ==
  ASSUME NEW T \in SUBSET Nat, T # {}
  PROVE  Min(T) \in T
BY LeastNat DEF Min

LEMMA MaxIs ==
  ASSUME NEW n \in Nat, NEW T \in SUBSET (0 .. n), T # {}
  PROVE  Max(T) \in T
<1> DEFINE D == {x \in 0 .. n : n - x \in T}
<1>1. \A x \in T : x \in Nat /\ n - x \in 0 .. n /\ n - (n - x) = x
  OBVIOUS
<1>2. \A x \in T : n - x \in D
  BY <1>1
<1>3. D \in SUBSET Nat /\ \A x \in D : x \in Nat /\ n - x \in T
  OBVIOUS
<1> HIDE DEF D
<1>4. PICK x \in D : \A y \in D : x <= y
  <2>1. PICK t \in T : TRUE
    OBVIOUS
  <2>2. D # {}
    BY <1>2, <2>1
  <2> QED BY <1>3, <2>2, LeastNat
<1>5. n - x \in T /\ \A y \in T : n - x >= y
  <2>1. n - x \in T /\ x \in Nat
    BY <1>3
  <2>2. ASSUME NEW y \in T PROVE n - x >= y
    <3>1. x <= n - y /\ y \in Nat
      BY <1>1, <1>2, <1>4
    <3> QED BY <2>1, <3>1
  <2> QED BY <2>1, <2>2
<1> QED BY <1>5 DEF Max

LEMMA VictimType ==
  ASSUME NEW e \in [Slots -> Entry]
  PROVE  Victim(e) \in Slots
<1>1. Slots \in SUBSET Nat /\ 1 \in Slots /\ CacheNum \in Nat
  BY BoardsAssumption DEF Slots
<1>2. Free(e) # {} => Min(Free(e)) \in Slots
  BY <1>1, MinIs DEF Free
<1>3. Changed(e) # Slots => Max(Slots \ Changed(e)) \in Slots
  <2>1. SUFFICES ASSUME Changed(e) # Slots PROVE Max(Slots \ Changed(e)) \in Slots
    OBVIOUS
  <2>2. Slots \ Changed(e) \in SUBSET (0 .. CacheNum) /\ Slots \ Changed(e) # {}
    BY <1>1, <2>1 DEF Changed, Slots
  <2>3. Max(Slots \ Changed(e)) \in Slots \ Changed(e)
    BY <1>1, <2>2, MaxIs
  <2> QED BY <2>3
<1> QED BY <1>1, <1>2, <1>3 DEF Victim

LEMMA NextChangedType ==
  ASSUME NEW e \in [Slots -> Entry], NEW k \in Nat, NEW n,
         n = Min({i \in Changed(e) : i > k} \cup {CacheNum + 1})
  PROVE  n \in 1 .. CacheNum + 1 /\ (n <= CacheNum => n \in Changed(e) /\ n > k)
<1> DEFINE T == {i \in Changed(e) : i > k} \cup {CacheNum + 1}
<1>1. T \in SUBSET Nat /\ T # {} /\ T \subseteq 1 .. CacheNum + 1
  BY BoardsAssumption DEF Changed, Slots
<1>2. n \in T
  BY <1>1, MinIs
<1> QED BY <1>1, <1>2, BoardsAssumption

(* The assumptions say of what kind each constant is. *)
LEMMA Kinds ==
  /\ Boards \subseteq Nat /\ NoBoard \notin Boards /\ 0 \notin Boards /\ CacheNum \in Nat \ {0} /\ Slots \subseteq Nat /\ 1 \in Slots
  /\ NoMarks \in Lists /\ ZeroEntry \in [Slots -> Entry] /\ Start \in Local
BY BoardsAssumption, SortedNoMarks DEF NoBoard, Slots, ZeroEntry, Entry, Start, Local, Logout

LEMMA InitType == Init => TypeInv
<1>1. SUFFICES ASSUME Init PROVE TypeInv
  OBVIOUS
<1>2. nowid \in [Boards -> Nat] /\ coming \subseteq Boards /\ posts \in [Boards -> SUBSET Nat]
  BY <1>1, PostsAssumption DEF Init
<1>3. row \in Rows /\ tmp \in Rows \cup {NoRows} /\ maps \in Seq([Slots -> Entry]) /\ entry \in 0 .. Len(maps) /\ count \in Int
  BY <1>1, Kinds DEF Init, Rows, NoFile
<1>4. todo \in [Sessions -> SUBSET Commands] /\ pc \in [Sessions -> Stages] /\ loc \in [Sessions -> Local]
  BY <1>1, Kinds, MixesAssumption DEF Init, Stages
<1>5. seen \in [Boards -> SUBSET Nat] /\ harmed \subseteq Boards
  BY <1>1 DEF Init
<1> QED BY <1>2, <1>3, <1>4, <1>5 DEF TypeInv

(* Where a session is. *)
Own(s) ==
  /\ loc \in [Sessions -> Local] /\ pc \in [Sessions -> Stages] /\ loc[s] \in Local /\ s \in Sessions
  /\ Placed(s)
  /\ loc[s].map # 0 => loc[s].map \in DOMAIN maps /\ Cache(s) \in [Slots -> Entry]

LEMMA OwnIs ==
  ASSUME TypeInv, PlaceInv, NEW s \in Sessions
  PROVE  Own(s)
<1>1. loc[s].map \in 0 .. Len(maps) /\ maps \in Seq([Slots -> Entry]) /\ Placed(s)
  BY DEF PlaceInv, Placed, TypeInv
<1>2. loc[s].map # 0 => loc[s].map \in DOMAIN maps /\ Cache(s) \in [Slots -> Entry]
  BY <1>1 DEF Cache
<1> QED BY <1>1, <1>2 DEF Own, TypeInv

LEMMA SetSlotType ==
  ASSUME TypeInv, NEW m \in DOMAIN maps, NEW i \in Slots, NEW x \in Entry, SetSlot(m, i, x)
  PROVE  maps' \in Seq([Slots -> Entry]) /\ Len(maps') = Len(maps) /\ maps'[m] = [maps[m] EXCEPT ![i] = x]
         /\ \A m2 \in DOMAIN maps \ {m} : maps'[m2] = maps[m2]
<1>1. maps \in Seq([Slots -> Entry])
  BY DEF TypeInv
<1>2. maps[m] \in [Slots -> Entry]
  BY <1>1
<1>3. [maps[m] EXCEPT ![i] = x] \in [Slots -> Entry]
  BY <1>2
<1>4. maps' = [maps EXCEPT ![m] = [maps[m] EXCEPT ![i] = x]]
  BY DEF SetSlot
<1> QED BY <1>1, <1>3, <1>4

LEMMA LocalFresh ==
  ASSUME NEW s \in Sessions, NEW v \in BOOLEAN, NEW l \in [Sessions -> Local]
  PROVE  [l EXCEPT ![s].fresh = v] \in [Sessions -> Local]
<1>0. l[s] \in Local
  OBVIOUS
<1>1. [l[s] EXCEPT !.fresh = TRUE] \in Local
  BY <1>0 DEF Local
<1>2. [l[s] EXCEPT !.fresh = FALSE] \in Local
  BY <1>0 DEF Local
<1>3. CASE v = TRUE
  BY <1>1, <1>3
<1>4. CASE v = FALSE
  BY <1>2, <1>4
<1> QED BY <1>3, <1>4

(* Each step keeps the types. *)
LEMMA PostType ==
  ASSUME TypeInv, NEW b \in Boards, Number(b) \/ Appear(b)
  PROVE  TypeInv'
<1>1. CASE Number(b)
  BY <1>1 DEF TypeInv, Number, files
<1>2. CASE Appear(b)
  BY <1>2 DEF TypeInv, Appear, files
<1> QED BY <1>1, <1>2

LEMMA ComeAndGoType ==
  ASSUME TypeInv, PlaceInv, NEW s \in Sessions,
         Login(s) \/ CountIn(s) \/ LogoutStart(s) \/ Leave(s) \/ Unlink(s) \/ Purge(s)
  PROVE  TypeInv'
<1>0. Own(s) /\ Start \in Local /\ \A w, bs : bs \subseteq Boards => Harm(w, bs) \subseteq Boards
  BY OwnIs, Kinds DEF Harm
<1>1. CASE Login(s)
  <2>1. count' \in Int
    BY <1>1 DEF Login, TypeInv
  <2>2. loc' \in [Sessions -> Local]
    <3>1. loc' = [loc EXCEPT ![s].fresh = count = NoFile] /\ loc \in [Sessions -> Local]
      BY <1>0, <1>1 DEF Login, Own
    <3>2. (count = NoFile) \in BOOLEAN
      OBVIOUS
    <3> QED BY <3>1, <3>2, LocalFresh
  <2>3. pc' \in [Sessions -> Stages]
    BY <1>0, <1>1 DEF Login, Own, Goto, Stages
  <2> QED BY <1>1, <2>1, <2>2, <2>3 DEF Login, TypeInv, articles, files
<1>2. CASE CountIn(s)
  <2>1. count' \in Int
    BY <1>2 DEF CountIn, TypeInv, NoFile
  <2>2. pc' \in [Sessions -> Stages]
    BY <1>0, <1>2 DEF CountIn, Own, Goto, Stages
  <2> QED BY <1>2, <2>1, <2>2 DEF CountIn, TypeInv, articles, files
<1>3. CASE LogoutStart(s)
  <2>1. loc' \in [Sessions -> Local]
    <3>1. [loc[s] EXCEPT !.cmd = Logout, !.then = "leave"] \in Local
      BY <1>0 DEF Own, Local
    <3>2. loc' = [loc EXCEPT ![s] = [loc[s] EXCEPT !.cmd = Logout, !.then = "leave"]]
      BY <1>0, <1>3 DEF LogoutStart, Own
    <3> QED BY <1>0, <3>1, <3>2 DEF Own
  <2>2. pc' \in [Sessions -> Stages]
    BY <1>0, <1>3 DEF LogoutStart, Own, Goto, Stages
  <2> QED BY <1>3, <2>1, <2>2 DEF LogoutStart, TypeInv, articles, files
<1>4. CASE Leave(s)
  <2>1. count' \in Int
    BY <1>4 DEF Leave, TypeInv, NoFile
  <2>2. loc' \in [Sessions -> Local]
    BY <1>0, <1>4 DEF Leave, Own, Local
  <2>3. pc' \in [Sessions -> Stages]
    BY <1>0, <1>4 DEF Leave, Own, Goto, Stages
  <2> QED BY <1>4, <2>1, <2>2, <2>3 DEF Leave, TypeInv, articles, files
<1>5. CASE Unlink(s)
  <2>1. pc' \in [Sessions -> Stages]
    BY <1>0, <1>5 DEF Unlink, Own, Goto, Stages
  <2>2. harmed' \subseteq Boards
    <3>1. \A os : Unsaved(os) \ {NoBoard} \subseteq Boards
      <4>1. entry # 0 => maps[entry] \in [Slots -> Entry]
        BY DEF TypeInv
      <4> QED BY <4>1 DEF Unsaved, Changed, Entry
    <3>2. \A w, os : Harm(w, Unsaved(os)) \subseteq Boards
      BY <3>1 DEF Harm
    <3>3. Harm("unlink", Boards) \subseteq Boards
      BY DEF Harm
    <3> QED BY <1>5, <3>2, <3>3 DEF Unlink, TypeInv
  <2>3. entry' = 0 /\ count' = NoFile /\ UNCHANGED <<articles, files, maps, todo, loc, seen>>
    BY <1>5 DEF Unlink
  <2> QED BY <2>1, <2>2, <2>3 DEF TypeInv, articles, files, NoFile
<1>6. CASE Purge(s)
  <2>1. loc' \in [Sessions -> Local]
    <3>1. loc' = [loc EXCEPT ![s] = [Start EXCEPT !.purged = TRUE]] /\ loc \in [Sessions -> Local]
      BY <1>0, <1>6 DEF Purge, Own
    <3>2. [Start EXCEPT !.purged = TRUE] \in Local
      BY Kinds DEF Local
    <3> QED BY <3>1, <3>2
  <2>2. pc' \in [Sessions -> Stages]
    BY <1>0, <1>6 DEF Purge, Own, Goto, Stages
  <2>3. harmed' \subseteq Boards
    <3>1. Halfway(s) \ {NoBoard} \subseteq Boards
      <4>1. pc[s] \in {"set", "bid"} => loc[s].cmd.b \in Boards \cup {NoBoard}
        BY <1>0 DEF Own, Local, Commands, Logout
      <4>2. pc[s] = "bid" => Cache(s)[loc[s].slot].bid \in Boards \cup {NoBoard}
        <5>1. pc[s] = "bid" => loc[s].map # 0 /\ loc[s].slot \in Slots
          BY <1>0 DEF Own, Placed, Fills, Local
        <5> QED BY <1>0, <5>1 DEF Own, Entry
      <4> QED BY <4>1, <4>2 DEF Halfway
    <3>2. Harm("purged", Halfway(s)) \subseteq Boards
      BY <3>1 DEF Harm
    <3> QED BY <1>6, <3>2 DEF Purge, TypeInv
  <2> QED BY <1>6, <2>1, <2>2, <2>3 DEF Purge, TypeInv, articles, files
<1> QED BY <1>1, <1>2, <1>3, <1>4, <1>5, <1>6

LEMMA CommandType ==
  ASSUME TypeInv, PlaceInv, NEW s \in Sessions, NEW c \in todo[s], Command(s, c)
  PROVE  TypeInv'
<1>0. Own(s) /\ c \in Commands
  BY OwnIs DEF TypeInv
<1>1. todo' \in [Sessions -> SUBSET Commands]
  BY DEF Command, TypeInv
<1>2. loc' \in [Sessions -> Local]
  BY <1>0 DEF Command, Own, Local, NoBoard
<1>3. pc' \in [Sessions -> Stages]
  BY <1>0 DEF Command, Own, Goto, Stages
<1> QED BY <1>1, <1>2, <1>3 DEF Command, TypeInv, articles, files

LEMMA MappedType ==
  ASSUME NEW s, NEW m \in Nat, Own(s), Mapped(s, m)
  PROVE  loc' \in [Sessions -> Local] /\ pc' \in [Sessions -> Stages]
<1>1. loc' \in [Sessions -> Local]
  <2>1. [loc[s] EXCEPT !.map = m, !.cur = 0] \in Local
    BY DEF Own, Local
  <2>2. loc' = [loc EXCEPT ![s] = [loc[s] EXCEPT !.map = m, !.cur = 0]]
    BY DEF Mapped, Own
  <2> QED BY <2>1, <2>2 DEF Own
<1> QED BY <1>1 DEF Mapped, Own, Goto, Stages

LEMMA MapType ==
  ASSUME TypeInv, PlaceInv, NEW s \in Sessions, Stat(s) \/ Zero(s)
  PROVE  TypeInv'
<1>0. Own(s) /\ entry \in Nat /\ ZeroEntry \in [Slots -> Entry] /\ maps \in Seq([Slots -> Entry])
  BY OwnIs, Kinds DEF TypeInv
<1>1. CASE Stat(s)
  <2>1. CASE entry = 0
    <3>1. loc' = loc /\ pc' \in [Sessions -> Stages]
      BY <1>0, <1>1, <2>1 DEF Stat, Own, Goto, Stages
    <3> QED BY <1>1, <3>1 DEF Stat, TypeInv, articles, files
  <2>2. CASE entry # 0
    <3>1. loc' \in [Sessions -> Local] /\ pc' \in [Sessions -> Stages]
      BY <1>0, <1>1, <2>2, MappedType DEF Stat
    <3> QED BY <1>1, <3>1 DEF Stat, TypeInv, articles, files
  <2> QED BY <2>1, <2>2
<1>2. CASE Zero(s)
  <2>1. CASE entry = 0
    <3>1. Mapped(s, Len(maps) + 1) /\ maps' = Append(maps, ZeroEntry) /\ entry' = Len(maps) + 1 /\ harmed' = harmed
      BY <1>2, <2>1 DEF Zero
    <3>2. loc' \in [Sessions -> Local] /\ pc' \in [Sessions -> Stages]
      BY <1>0, <3>1, MappedType
    <3>3. maps' \in Seq([Slots -> Entry]) /\ entry' \in 0 .. Len(maps')
      BY <1>0, <3>1
    <3> QED BY <1>2, <3>1, <3>2, <3>3 DEF Zero, TypeInv, articles, files
  <2>2. CASE entry # 0
    <3>1. Mapped(s, entry) /\ maps' = [maps EXCEPT ![entry] = ZeroEntry] /\ entry' = entry
          /\ harmed' = harmed \cup Harm("zero", Bids(maps[entry]) \cup {loc[o].cmd.b : o \in Sessions})
      BY <1>2, <2>2 DEF Zero
    <3>2. loc' \in [Sessions -> Local] /\ pc' \in [Sessions -> Stages]
      BY <1>0, <3>1, MappedType
    <3>3. maps' \in Seq([Slots -> Entry]) /\ entry' \in 0 .. Len(maps')
      <4>1. entry \in 1 .. Len(maps)
        BY <1>0, <2>2 DEF TypeInv
      <4>2. maps' \in Seq([Slots -> Entry]) /\ Len(maps') = Len(maps)
        BY <1>0, <3>1, <4>1
      <4> QED BY <3>1, <4>1, <4>2
    <3>4. harmed' \subseteq Boards
      <4>1. maps[entry] \in [Slots -> Entry]
        BY <1>0, <2>2 DEF TypeInv
      <4>2. Bids(maps[entry]) \subseteq Boards \cup {NoBoard}
        BY <4>1 DEF Bids, Entry
      <4>3. \A o \in Sessions : loc[o].cmd.b \in Boards \cup {NoBoard}
        BY DEF TypeInv, Local, Commands, Logout
      <4> QED BY <3>1, <4>2, <4>3 DEF Harm, TypeInv
    <3> QED BY <1>2, <3>1, <3>2, <3>3, <3>4 DEF Zero, TypeInv, articles, files
  <2> QED BY <2>1, <2>2
<1> QED BY <1>1, <1>2

LEMMA LookupType ==
  ASSUME TypeInv, PlaceInv, NEW s \in Sessions, Lookup(s)
  PROVE  TypeInv'
<1> DEFINE e == Cache(s)
           b == loc[s].cmd.b
           has == {i \in Slots : e[i].bid = b}
<1>0. Own(s)
  BY OwnIs
<1>1. e \in [Slots -> Entry] /\ b \in Boards
  BY <1>0 DEF Own, Placed, Lookup, Commands, Local
<1>2. Victim(e) \in Slots
  BY <1>1, VictimType
<1>3. has # {} => Min(has) \in Slots
  BY Kinds, MinIs
<1>4. row[b] \in Lists
  BY <1>1 DEF TypeInv, Rows
<1> HIDE DEF e, has
<1>5. CASE has # {}
  <2>1. loc' = [loc EXCEPT ![s].cur = Min(has), ![s].board = b] /\ Goto(s, "op")
        /\ harmed' = harmed \cup (IF Min(has) \in Filling(loc[s].map) THEN Harm("evict", {b}) ELSE {})
    BY <1>5 DEF Lookup, e, has
  <2>2. loc' \in [Sessions -> Local]
    BY <1>0, <1>1, <1>3, <1>5, <2>1 DEF Own, Local
  <2>3. pc' \in [Sessions -> Stages]
    BY <1>0, <2>1 DEF Own, Goto, Stages
  <2>4. harmed' \subseteq Boards
    BY <1>1, <2>1 DEF Harm, TypeInv
  <2> QED BY <2>2, <2>3, <2>4 DEF Lookup, TypeInv, articles, files
<1>6. CASE has = {}
  <2>1. loc' = [loc EXCEPT ![s].img = row[b], ![s].slot = Victim(e), ![s].then = "fill"]
        /\ Goto(s, IF AllChanged(e) THEN "update" ELSE "fill") /\ harmed' = harmed
    BY <1>6 DEF Lookup, e, has
  <2>2. loc' \in [Sessions -> Local]
    <3> DEFINE v == Victim(e)
               r == row[b]
               x == [loc[s] EXCEPT !.img = r, !.slot = v, !.then = "fill"]
    <3>1. v \in Slots /\ r \in Lists
      BY <1>2, <1>4
    <3>2. loc' = [loc EXCEPT ![s] = x]
      BY <1>0, <2>1 DEF Own
    <3> HIDE DEF v, r
    <3>3. x \in Local
      BY <1>0, <3>1 DEF Own, Local
    <3> HIDE DEF x
    <3> QED BY <1>0, <3>2, <3>3 DEF Own
  <2>3. pc' \in [Sessions -> Stages]
    BY <1>0, <2>1 DEF Own, Goto, Stages
  <2> QED BY <2>1, <2>2, <2>3 DEF Lookup, TypeInv, articles, files
<1> QED BY <1>5, <1>6

LEMMA SlotType ==
  ASSUME TypeInv, PlaceInv, NEW s \in Sessions, Fills(s)
  PROVE  /\ Own(s) /\ loc[s].map \in DOMAIN maps /\ Cache(s) \in [Slots -> Entry]
         /\ loc[s].slot \in Slots /\ loc[s].cmd.b \in Boards /\ loc[s].img \in Lists
         /\ Cache(s)[loc[s].slot] \in Entry
<1>1. Own(s)
  BY OwnIs
<1>2. loc[s].map # 0 /\ loc[s].slot # 0 /\ loc[s].cmd \in Commands
  BY <1>1 DEF Own, Placed, Fills
<1>3. loc[s].slot \in Slots /\ loc[s].cmd.b \in Boards /\ loc[s].img \in Lists
  BY <1>1, <1>2 DEF Own, Local, Commands
<1> QED BY <1>1, <1>2, <1>3 DEF Own

LEMMA DisturbedType ==
  ASSUME TypeInv, PlaceInv, NEW s \in Sessions, Fills(s)
  PROVE  \A w : Harm(w, Disturbed(s)) \subseteq Boards
<1>1. \A o \in Sessions : loc[o].cmd.b \in Boards \cup {NoBoard} /\ loc[o].board \in Boards \cup {NoBoard}
  BY DEF TypeInv, Local, Commands, Logout
<1>2. Cache(s)[loc[s].slot].bid \in Boards \cup {NoBoard} /\ loc[s].cmd.b \in Boards
  BY SlotType DEF Entry
<1>3. Users(s) \subseteq Sessions
  BY DEF Users
<1>4. Disturbed(s) \subseteq Boards \cup {NoBoard}
  BY <1>1, <1>2, <1>3 DEF Disturbed
<1> QED BY <1>4 DEF Harm

LEMMA FillType ==
  ASSUME TypeInv, PlaceInv, NEW s \in Sessions, Fill(s)
  PROVE  TypeInv'
<1> DEFINE i == loc[s].slot
           e == Cache(s)[i]
<1>1. Fills(s)
  BY DEF Fills, Fill
<1>2. /\ Own(s) /\ loc[s].map \in DOMAIN maps /\ i \in Slots /\ loc[s].img \in Lists /\ e \in Entry
  BY <1>1, SlotType
<1>3. [e EXCEPT !.list = loc[s].img] \in Entry
  BY <1>2 DEF Entry
<1>4. maps' \in Seq([Slots -> Entry]) /\ Len(maps') = Len(maps)
  <2>1. SetSlot(loc[s].map, i, [e EXCEPT !.list = loc[s].img])
    BY DEF Fill
  <2> QED BY <1>2, <1>3, <2>1, SetSlotType
<1>5. pc' \in [Sessions -> Stages]
  BY <1>2 DEF Fill, Own, Goto, Stages
<1>6. harmed' \subseteq Boards
  <2>1. \A w : Harm(w, {e.bid}) \subseteq Boards
    BY <1>2 DEF Entry, Harm
  <2>2. Harm("evict", Disturbed(s)) \subseteq Boards
    BY <1>1, DisturbedType
  <2> HIDE DEF e
  <2>3. harmed' = harmed \cup Harm("evict", Disturbed(s))
       \cup (IF i \in Copying(loc[s].map) \/ e.bid = loc[s].cmd.b THEN Harm("evict", {e.bid}) ELSE {})
       \cup (IF Updating(s) /\ e.bid # NoBoard /\ e.list # row[e.bid] THEN Harm("update", {e.bid}) ELSE {})
    BY DEF Fill, e
  <2> QED BY <2>1, <2>2, <2>3 DEF TypeInv
<1> QED BY <1>4, <1>5, <1>6 DEF Fill, TypeInv, articles, files

LEMMA BidType ==
  ASSUME TypeInv, PlaceInv, NEW s \in Sessions, Bid(s)
  PROVE  TypeInv'
<1> DEFINE i == loc[s].slot
           e == Cache(s)[i]
           b == loc[s].cmd.b
           x == [bid |-> b, list |-> e.list, changed |-> FALSE]
<1>1. Fills(s)
  BY DEF Fills, Bid
<1>2. /\ Own(s) /\ loc[s].map \in DOMAIN maps /\ i \in Slots /\ b \in Boards /\ e \in Entry
  BY <1>1, SlotType
<1>3. x \in Entry
  BY <1>2 DEF Entry
<1>4. maps' \in Seq([Slots -> Entry]) /\ Len(maps') = Len(maps)
  <2>1. SetSlot(loc[s].map, i, x)
    BY DEF Bid
  <2> QED BY <1>2, <1>3, <2>1, SetSlotType
<1>5. pc' \in [Sessions -> Stages]
  BY <1>2 DEF Bid, Own, Goto, Stages
<1>6. harmed' \subseteq Boards
  <2>1. \A w : Harm(w, {b, e.bid}) \subseteq Boards /\ Harm(w, {b}) \subseteq Boards
    BY <1>2 DEF Entry, Harm
  <2>2. Harm("evict", Disturbed(s)) \subseteq Boards
    BY <1>1, DisturbedType
  <2> HIDE DEF e
  <2>3. harmed' = harmed \cup Harm("evict", Disturbed(s))
       \cup (IF \E j \in Slots \ {i} : Cache(s)[j].bid = b THEN Harm("evict", {b}) ELSE {})
       \cup (IF e.list # loc[s].img THEN Harm("evict", {b, e.bid}) ELSE {})
       \cup (IF row[b] # loc[s].img THEN Harm("update", {b}) ELSE {})
    BY DEF Bid, e
  <2> QED BY <2>1, <2>2, <2>3 DEF TypeInv
<1>7. loc' \in [Sessions -> Local]
  <2>1. loc' = [loc EXCEPT ![s].cur = i, ![s].board = b, ![s].slot = 0, ![s].img = NoMarks, ![s].then = "idle"]
    BY DEF Bid
  <2> DEFINE y == [loc[s] EXCEPT !.cur = i, !.board = b, !.slot = 0, !.img = NoMarks, !.then = "idle"]
  <2>2. loc' = [loc EXCEPT ![s] = y]
    BY <1>2, <2>1 DEF Own
  <2> HIDE DEF i, b
  <2>3. y \in Local
    BY <1>2, Kinds DEF Own, Local
  <2> HIDE DEF y
  <2> QED BY <1>2, <2>2, <2>3 DEF Own
<1> QED BY <1>4, <1>5, <1>6, <1>7 DEF Bid, TypeInv, articles, files

LEMMA UpdatedType ==
  ASSUME NEW s, Own(s), Updated(s)
  PROVE  loc' \in [Sessions -> Local] /\ pc' \in [Sessions -> Stages]
<1>1. loc' \in [Sessions -> Local]
  <2>0. loc[s] \in Local /\ 0 \in 0 .. CacheNum + 1
    BY Kinds DEF Own
  <2>1. [loc[s] EXCEPT !.base = NoRows, !.data = NoRows, !.k = 0] \in Local
    BY <2>0 DEF Local
  <2> QED BY <2>1 DEF Updated, Own
<1>2. loc[s].then \in Stages
  BY DEF Own, Local, Stages
<1> QED BY <1>1, <1>2 DEF Updated, Own, Goto

LEMMA ToNextType ==
  ASSUME NEW s, NEW k \in Nat, NEW d \in Rows, Own(s), loc[s].map # 0, row \in Rows, ToNext(s, k, d)
  PROVE  loc' \in [Sessions -> Local] /\ pc' \in [Sessions -> Stages]
<1> DEFINE n == NextChanged(s, k)
<1>1. n \in 0 .. CacheNum + 1
  <2>1. Cache(s) \in [Slots -> Entry]
    BY DEF Own
  <2>2. n \in 1 .. CacheNum + 1
    BY <2>1, NextChangedType DEF NextChanged
  <2> HIDE DEF n
  <2> QED BY <2>2, Kinds
<1> HIDE DEF n
<1>2. loc' = [loc EXCEPT ![s].k = n, ![s].base = IF k = 0 THEN row ELSE @, ![s].data = d]
      /\ Goto(s, IF n > CacheNum THEN "u_write" ELSE "u_copy")
  BY DEF ToNext, n
<1>3. loc' \in [Sessions -> Local]
  <2> DEFINE r == IF k = 0 THEN row ELSE loc[s].base
             y == [loc[s] EXCEPT !.k = n, !.base = r, !.data = d]
  <2>1. loc' = [loc EXCEPT ![s] = y]
    BY <1>2 DEF Own
  <2>2. r \in Rows \cup {NoRows}
    BY DEF Own, Local
  <2> HIDE DEF r
  <2>3. y \in Local
    BY <1>1, <2>2 DEF Own, Local
  <2> HIDE DEF y
  <2> QED BY <2>1, <2>3 DEF Own
<1> QED BY <1>2, <1>3 DEF Own, Goto, Stages, Updates

LEMMA UpdateType ==
  ASSUME TypeInv, PlaceInv, NEW s \in Sessions,
         URead(s) \/ UCopy(s) \/ UFlag(s) \/ UWrite(s) \/ UMove(s)
  PROVE  TypeInv'
<1>0. Own(s) /\ row \in Rows /\ \A w : \A bs \in SUBSET Boards : Harm(w, bs) \subseteq Boards
  BY OwnIs DEF TypeInv, Harm
<1>00. loc[s].map # 0
  BY <1>0 DEF Own, Placed, URead, UCopy, UFlag, UWrite, UMove, Updates
<1>000. pc[s] \in Updates => loc[s].base \in Rows /\ loc[s].data \in Rows
  BY <1>0 DEF Own, Placed
<1>1. CASE URead(s)
  <2>1. loc' \in [Sessions -> Local] /\ pc' \in [Sessions -> Stages]
    BY <1>0, <1>00, <1>1, UpdatedType, ToNextType DEF URead
  <2> QED BY <1>1, <2>1 DEF URead, TypeInv, articles, files
<1>2. CASE UCopy(s)
  <2> DEFINE e == Cache(s)[loc[s].k]
             d == [b \in Boards |-> IF b = e.bid THEN e.list ELSE loc[s].data[b]]
  <2>0. pc[s] = "u_copy" /\ loc' = [loc EXCEPT ![s].data = d] /\ Goto(s, "u_flag")
    BY <1>2 DEF UCopy
  <2>1. loc[s].data \in Rows /\ loc[s].k \in Slots
    BY <1>0, <1>000, <2>0 DEF Own, Placed, Updates
  <2>2. e \in Entry
    BY <1>0, <1>00, <2>1 DEF Own
  <2>3. d \in Rows
    BY <2>1, <2>2 DEF Rows, Entry
  <2> HIDE DEF d
  <2>4. loc' \in [Sessions -> Local] /\ pc' \in [Sessions -> Stages]
    BY <1>0, <2>0, <2>3 DEF Own, Local, Goto, Stages, Updates
  <2> QED BY <1>2, <2>4 DEF UCopy, TypeInv, articles, files
<1>3. CASE UFlag(s)
  <2> DEFINE e == Cache(s)[loc[s].k]
  <2>0. /\ pc[s] = "u_flag" /\ SetSlot(loc[s].map, loc[s].k, [e EXCEPT !.changed = FALSE])
        /\ harmed' = harmed \cup (IF e.bid # NoBoard /\ loc[s].data[e.bid] # e.list THEN Harm("flag", {e.bid}) ELSE {})
        /\ ToNext(s, loc[s].k, loc[s].data)
    BY <1>3 DEF UFlag
  <2>1. loc[s].data \in Rows /\ loc[s].k \in Slots
    BY <1>0, <1>000, <2>0 DEF Own, Placed, Updates
  <2>2. e \in Entry /\ loc[s].k \in Nat
    BY <1>0, <1>00, <2>1, Kinds DEF Own
  <2>3. [e EXCEPT !.changed = FALSE] \in Entry
    BY <2>2 DEF Entry
  <2>4. maps' \in Seq([Slots -> Entry]) /\ Len(maps') = Len(maps)
    BY <1>0, <1>00, <2>0, <2>1, <2>3, SetSlotType DEF Own
  <2>5. loc' \in [Sessions -> Local] /\ pc' \in [Sessions -> Stages]
    BY <1>0, <1>00, <2>0, <2>1, <2>2, ToNextType
  <2>6. harmed' \subseteq Boards
    <3>1. e.bid # NoBoard => {e.bid} \in SUBSET Boards
      BY <2>2 DEF Entry
    <3> QED BY <1>0, <2>0, <3>1 DEF TypeInv
  <2> QED BY <1>3, <2>4, <2>5, <2>6 DEF UFlag, TypeInv, articles, files
<1>4. CASE UWrite(s)
  <2>1. loc[s].data \in Rows /\ pc[s] = "u_write"
    BY <1>000, <1>4 DEF UWrite, Updates
  <2>2. CASE tmp' = loc[s].data /\ Goto(s, "u_move") /\ UNCHANGED <<loc, harmed>>
    <3>1. pc' \in [Sessions -> Stages]
      BY <1>0, <2>2 DEF Own, Goto, Stages, Updates
    <3> QED BY <1>4, <2>1, <2>2, <3>1 DEF UWrite, TypeInv, articles
  <2>3. CASE tmp' = NoRows /\ Updated(s)
             /\ harmed' = harmed \cup Harm("disk", {b \in Boards : loc[s].data[b] # row[b]})
    <3>1. loc' \in [Sessions -> Local] /\ pc' \in [Sessions -> Stages]
      BY <1>0, <2>3, UpdatedType
    <3>2. harmed' \subseteq Boards
      BY <1>0, <2>3 DEF TypeInv
    <3> QED BY <1>4, <2>3, <3>1, <3>2 DEF UWrite, TypeInv, articles
  <2> QED BY <1>4, <2>2, <2>3 DEF UWrite
<1>5. CASE UMove(s)
  <2>1. loc' \in [Sessions -> Local] /\ pc' \in [Sessions -> Stages]
    BY <1>0, <1>5, UpdatedType DEF UMove
  <2>2. row' \in Rows /\ tmp' \in Rows \cup {NoRows}
    BY <1>5 DEF UMove, TypeInv
  <2>3. harmed' \subseteq Boards
    <3> DEFINE bs == {b \in Boards : loc[s].base[b] # row[b] \/ loc[s].data[b] # row'[b]}
    <3>1. harmed' = harmed \cup Harm("update", bs)
      BY <1>5 DEF UMove
    <3> QED BY <1>0, <3>1 DEF TypeInv
  <2> QED BY <1>5, <2>1, <2>2, <2>3 DEF UMove, TypeInv, articles
<1> QED BY <1>1, <1>2, <1>3, <1>4, <1>5

(* A session that works on its board has a slot there. *)
LEMMA OpType ==
  ASSUME TypeInv, PlaceInv, NEW s \in Sessions, pc[s] \in {"op", "set", "scan"}
  PROVE  /\ Own(s) /\ loc[s].map \in DOMAIN maps /\ Cache(s) \in [Slots -> Entry]
         /\ loc[s].cmd \in Commands /\ loc[s].cmd.b \in Boards /\ loc[s].cmd.id \in Nat
         /\ loc[s].board = loc[s].cmd.b /\ loc[s].cur \in Slots
         /\ Cache(s)[loc[s].cur] \in Entry
<1>1. Own(s)
  BY OwnIs
<1>2. loc[s].map # 0 /\ loc[s].cmd \in Commands /\ loc[s].board = loc[s].cmd.b
  BY <1>1 DEF Own, Placed
<1>3. loc[s].cmd.b \in Boards /\ loc[s].cmd.id \in Nat
  BY <1>2 DEF Commands
<1>4. loc[s].cur # 0
  BY <1>1, <1>2, <1>3, Kinds DEF Own, Placed
<1>5. loc[s].cur \in Slots
  BY <1>1, <1>4 DEF Own, Local
<1> QED BY <1>1, <1>2, <1>3, <1>5 DEF Own

LEMMA EndedType ==
  ASSUME NEW s, Own(s)
  PROVE  Ended(s) \in Local
<1>1. Start \in Local
  BY Kinds
<1>2. loc[s].map \in Nat /\ loc[s].cur \in {0} \cup Slots /\ loc[s].cmd.b \in Boards \cup {NoBoard}
  BY DEF Own, Local, Commands, Logout
<1>3. ASSUME NEW b \in Boards \cup {NoBoard}
      PROVE  [Start EXCEPT !.map = loc[s].map, !.cur = loc[s].cur, !.board = b] \in Local
  BY <1>1, <1>2 DEF Local
<1>4. NoBoard \in Boards \cup {NoBoard}
  OBVIOUS
<1>5. Ended(s) = IF s \in Web THEN Start
                 ELSE IF loc[s].cmd.op = "list"
                 THEN [Start EXCEPT !.map = loc[s].map, !.cur = loc[s].cur, !.board = NoBoard]
                 ELSE [Start EXCEPT !.map = loc[s].map, !.cur = loc[s].cur, !.board = loc[s].cmd.b]
  BY DEF Ended
<1> QED BY <1>1, <1>2, <1>3, <1>4, <1>5

LEMMA DoneType ==
  ASSUME NEW s, Own(s), Done(s)
  PROVE  loc' \in [Sessions -> Local] /\ pc' \in [Sessions -> Stages]
BY EndedType DEF Done, Own, Goto, Stages

LEMMA SetListType ==
  ASSUME TypeInv, PlaceInv, NEW s \in Sessions, pc[s] \in {"op", "set", "scan"},
         NEW l \in Lists, SetList(s, l)
  PROVE  maps' \in Seq([Slots -> Entry]) /\ Len(maps') = Len(maps)
<1>1. [Cache(s)[loc[s].cur] EXCEPT !.list = l, !.changed = TRUE] \in Entry
  BY OpType DEF Entry
<1> QED BY <1>1, OpType, SetSlotType DEF SetList

LEMMA SeeType ==
  ASSUME TypeInv, NEW b, NEW ids \in SUBSET Nat, See(b, ids)
  PROVE  seen' \in [Boards -> SUBSET Nat]
BY DEF See, TypeInv

LEMMA ClearsType ==
  ASSUME NEW l \in Lists, NEW f \in Nat
  PROVE  ClearAll(l, f) \in Lists /\ ClearTo(l, f) \in Lists
BY MaxNumAssumption DEF ClearAll, ClearTo, Lists, Places

LEMMA LastType ==
  ASSUME TypeInv, PostsInv, NEW b \in Boards
  PROVE  Last(b) \in Nat
<1>1. nowid[b] \in Nat /\ {0} \cup posts[b] \in SUBSET (0 .. nowid[b])
  BY DEF TypeInv, PostsInv
<1>2. Max({0} \cup posts[b]) \in {0} \cup posts[b]
  BY <1>1, MaxIs
<1> QED BY <1>1, <1>2 DEF Last

LEMMA MarkType ==
  ASSUME TypeInv, PostsInv, PlaceInv, NEW s \in Sessions,
         Look(s) \/ ReadFind(s) \/ ReadSet(s) \/ ReadTo(s) \/ Clear(s) \/ ListNow(s) \/ ListScan(s)
  PROVE  TypeInv'
<1> DEFINE c == loc[s].cmd
           l == Cache(s)[loc[s].cur].list
<1>0. /\ pc[s] \in {"op", "set", "scan"} /\ Own(s) /\ c.b \in Boards /\ c.id \in Nat
      /\ l \in Lists /\ loc[s].old \in Lists /\ nowid[c.b] \in Nat
  <2>1. pc[s] \in {"op", "set", "scan"}
    BY DEF Look, ReadFind, ReadSet, ReadTo, Clear, ListNow, ListScan
  <2>2. Cache(s)[loc[s].cur] \in Entry /\ Own(s) /\ c.b \in Boards /\ c.id \in Nat
    BY <2>1, OpType
  <2>3. loc[s].old \in Lists
    BY <2>2 DEF Own, Local
  <2> QED BY <2>1, <2>2, <2>3 DEF Entry, TypeInv
<1>1. (\A w : Harm(w, {c.b}) \subseteq Boards) /\ Late(s) \subseteq Boards
  <2>1. Cache(s)[loc[s].cur].bid \in Boards \cup {NoBoard}
    BY <1>0, OpType DEF Entry
  <2> QED BY <1>0, <2>1 DEF Harm, Late
<1>2. posts[c.b] \in SUBSET Nat
  BY <1>0 DEF TypeInv
<1> HIDE DEF l
<1>3. CASE Look(s)
  BY <1>0, <1>3, DoneType DEF Look, TypeInv, articles, files
<1>4. CASE ReadFind(s)
  <2>1. CASE Done(s) /\ See(c.b, {c.id})
    <3>1. loc' \in [Sessions -> Local] /\ pc' \in [Sessions -> Stages] /\ seen' \in [Boards -> SUBSET Nat]
      BY <1>0, <2>1, DoneType, SeeType
    <3> QED BY <1>4, <3>1 DEF ReadFind, TypeInv, articles, files
  <2>2. CASE loc' = [loc EXCEPT ![s].old = l] /\ Goto(s, "set") /\ UNCHANGED seen
    <3>1. loc' \in [Sessions -> Local]
      BY <1>0, <2>2 DEF Own, Local
    <3>2. pc' \in [Sessions -> Stages]
      BY <1>0, <2>2 DEF Own, Goto, Stages
    <3> QED BY <1>4, <2>2, <3>1, <3>2 DEF ReadFind, TypeInv, articles, files
  <2> QED BY <1>4, <2>1, <2>2 DEF ReadFind, l
<1>5. CASE ReadSet(s)
  <2>1. Done(s) /\ SetList(s, AddTo(loc[s].old, l, c.id)) /\ See(c.b, {c.id})
        /\ harmed' = harmed \cup Late(s) \cup (IF l # loc[s].old THEN Harm("insert", {c.b}) ELSE {})
    BY <1>5 DEF ReadSet, l
  <2>2. loc' \in [Sessions -> Local] /\ pc' \in [Sessions -> Stages] /\ seen' \in [Boards -> SUBSET Nat]
    BY <1>0, <2>1, DoneType, SeeType
  <2>3. maps' \in Seq([Slots -> Entry]) /\ Len(maps') = Len(maps)
    BY <1>0, <2>1, AddToType, SetListType
  <2>4. harmed' \subseteq Boards
    BY <1>1, <2>1 DEF TypeInv
  <2> QED BY <1>5, <2>2, <2>3, <2>4 DEF ReadSet, TypeInv, articles, files
<1>6. CASE ReadTo(s)
  <2>1. Done(s) /\ See(c.b, {f \in posts[c.b] : f <= c.id}) /\ (SetList(s, ClearTo(l, c.id)) \/ UNCHANGED maps)
    BY <1>6 DEF ReadTo, l
  <2>2. loc' \in [Sessions -> Local] /\ pc' \in [Sessions -> Stages] /\ seen' \in [Boards -> SUBSET Nat]
    <3>1. {f \in posts[c.b] : f <= c.id} \in SUBSET Nat
      BY <1>2
    <3> QED BY <1>0, <2>1, <3>1, DoneType, SeeType
  <2>3. maps' \in Seq([Slots -> Entry]) /\ Len(maps') = Len(maps)
    BY <1>0, <2>1, ClearsType, SetListType DEF TypeInv
  <2>4. harmed' \subseteq Boards
    BY <1>1, <1>6 DEF ReadTo, TypeInv
  <2> QED BY <1>6, <2>2, <2>3, <2>4 DEF ReadTo, TypeInv, articles, files
<1>7. CASE Clear(s)
  <2>1. Done(s) /\ See(c.b, posts[c.b]) /\ (SetList(s, ClearAll(l, nowid[c.b])) \/ UNCHANGED maps)
        /\ harmed' = harmed \cup (IF Valid(s) THEN Late(s) ELSE {})
                            \cup (IF c.b \in coming THEN Harm("numbered", {c.b}) ELSE {})
    BY <1>7 DEF Clear, l
  <2>2. loc' \in [Sessions -> Local] /\ pc' \in [Sessions -> Stages] /\ seen' \in [Boards -> SUBSET Nat]
    BY <1>0, <1>2, <2>1, DoneType, SeeType
  <2>3. maps' \in Seq([Slots -> Entry]) /\ Len(maps') = Len(maps)
    BY <1>0, <2>1, ClearsType, SetListType DEF TypeInv
  <2>4. harmed' \subseteq Boards
    BY <1>1, <2>1 DEF TypeInv
  <2> QED BY <1>7, <2>2, <2>3, <2>4 DEF Clear, TypeInv, articles, files
<1>8. CASE ListNow(s)
  <2>1. CASE Done(s)
    <3>1. loc' \in [Sessions -> Local] /\ pc' \in [Sessions -> Stages]
      BY <1>0, <2>1, DoneType
    <3> QED BY <1>8, <3>1 DEF ListNow, TypeInv, articles, files
  <2>2. CASE loc' = [loc EXCEPT ![s].now = nowid[c.b], ![s].last = Last(c.b)] /\ Goto(s, "scan")
    <3>1. Last(c.b) \in Nat
      BY <1>0, LastType
    <3>2. loc' \in [Sessions -> Local]
      <4> DEFINE n == nowid[c.b]
                 f == Last(c.b)
                 y == [loc[s] EXCEPT !.now = n, !.last = f]
      <4>1. loc' = [loc EXCEPT ![s] = y]
        BY <1>0, <2>2 DEF Own
      <4>2. n \in Nat /\ f \in Nat
        BY <1>0, <3>1 DEF TypeInv
      <4> HIDE DEF n, f
      <4>3. y \in Local
        BY <1>0, <4>2 DEF Own, Local
      <4> HIDE DEF y
      <4> QED BY <1>0, <4>1, <4>3 DEF Own
    <3>3. pc' \in [Sessions -> Stages]
      BY <1>0, <2>2 DEF Own, Goto, Stages
    <3> QED BY <1>8, <3>2, <3>3 DEF ListNow, TypeInv, articles, files
  <2> QED BY <1>8, <2>1, <2>2 DEF ListNow
<1>9. CASE ListScan(s)
  <2>1. Done(s) /\ \/ SetList(s, ClearAll(l, nowid[c.b])) /\ harmed' = harmed \cup Late(s) \cup Harm("stale", {c.b})
                   \/ UNCHANGED <<maps, harmed>>
    BY <1>9 DEF ListScan, l
  <2>2. loc' \in [Sessions -> Local] /\ pc' \in [Sessions -> Stages]
    BY <1>0, <2>1, DoneType
  <2>3. maps' \in Seq([Slots -> Entry]) /\ Len(maps') = Len(maps)
    BY <1>0, <2>1, ClearsType, SetListType DEF TypeInv
  <2>4. harmed' \subseteq Boards
    BY <1>1, <2>1 DEF TypeInv
  <2> QED BY <1>9, <2>2, <2>3, <2>4 DEF ListScan, TypeInv, articles, files
<1> QED BY <1>3, <1>4, <1>5, <1>6, <1>7, <1>8, <1>9

LEMMA TypeStep ==
  ASSUME TypeInv, PostsInv, PlaceInv, [Next]_vars
  PROVE  TypeInv'
<1>1. CASE UNCHANGED vars
  BY <1>1 DEF vars, articles, files, TypeInv
<1>2. ASSUME NEW b \in Boards, Number(b) \/ Appear(b) PROVE TypeInv'
  BY <1>2, PostType
<1>3. ASSUME NEW s \in Sessions,
             \/ Login(s) \/ CountIn(s) \/ LogoutStart(s) \/ Leave(s) \/ Unlink(s) \/ Purge(s)
             \/ \E c \in todo[s] : Command(s, c)
             \/ Stat(s) \/ Zero(s) \/ Lookup(s) \/ Fill(s) \/ Bid(s)
             \/ URead(s) \/ UCopy(s) \/ UFlag(s) \/ UWrite(s) \/ UMove(s)
             \/ Look(s) \/ ReadFind(s) \/ ReadSet(s) \/ ReadTo(s) \/ Clear(s) \/ ListNow(s) \/ ListScan(s)
      PROVE  TypeInv'
  BY <1>3, ComeAndGoType, CommandType, MapType, LookupType, FillType, BidType, UpdateType, MarkType
<1> QED BY <1>1, <1>2, <1>3 DEF Next

-----------------------------------------------------------------------------
(* A step of one session leaves the others where they are.                 *)
Step(s) ==
  \/ Login(s) \/ CountIn(s) \/ LogoutStart(s) \/ Leave(s) \/ Unlink(s) \/ Purge(s)
  \/ \E c \in todo[s] : Command(s, c)
  \/ Stat(s) \/ Zero(s) \/ Lookup(s) \/ Fill(s) \/ Bid(s)
  \/ URead(s) \/ UCopy(s) \/ UFlag(s) \/ UWrite(s) \/ UMove(s)
  \/ Look(s) \/ ReadFind(s) \/ ReadSet(s) \/ ReadTo(s) \/ Clear(s) \/ ListNow(s) \/ ListScan(s)
OthersSame(s) == \A o \in Sessions \ {s} : pc'[o] = pc[o] /\ loc'[o] = loc[o]

LEMMA NextIs == Next <=> (\E b \in Boards : Number(b) \/ Appear(b)) \/ \E s \in Sessions : Step(s)
BY DEF Next, Step

LEMMA OthersStep ==
  ASSUME TypeInv, NEW s \in Sessions, Step(s)
  PROVE  OthersSame(s)
<1>0. loc \in [Sessions -> Local] /\ pc \in [Sessions -> Stages]
  BY DEF TypeInv
<1>1. Goto(s, pc'[s])
  <2>1. \A x : Goto(s, x) => Goto(s, pc'[s])
    BY <1>0 DEF Goto
  <2>2. \E x : Goto(s, x)
    BY ZenonT(30) DEF Step, Login, CountIn, LogoutStart, Leave, Unlink, Purge, Command, Stat, Zero, Mapped, Lookup, Fill, Bid,
           URead, UCopy, UFlag, UWrite, UMove, Updated, ToNext, Look, ReadFind, ReadSet, ReadTo, Clear, ListNow,
           ListScan, Done
  <2> QED BY <2>1, <2>2
<1>2. loc' = loc \/ \A o \in Sessions \ {s} : loc'[o] = loc[o]
  <2>1. \A o \in Sessions \ {s} : Updated(s) => loc'[o] = loc[o]
    BY <1>0 DEF Updated
  <2>2. \A o \in Sessions \ {s} : \A m : Mapped(s, m) => loc'[o] = loc[o]
    BY <1>0 DEF Mapped
  <2>3. \A o \in Sessions \ {s} : \A k, d : ToNext(s, k, d) => loc'[o] = loc[o]
    BY <1>0 DEF ToNext
  <2>4. \A o \in Sessions \ {s} : Done(s) => loc'[o] = loc[o]
    BY <1>0 DEF Done
  <2>5. CASE Login(s) \/ CountIn(s) \/ LogoutStart(s) \/ Leave(s) \/ Unlink(s) \/ Purge(s)
    BY <1>0, <2>5 DEF Login, CountIn, LogoutStart, Leave, Unlink, Purge
  <2>6. CASE \E c \in todo[s] : Command(s, c)
    BY <1>0, <2>6 DEF Command
  <2>7. CASE Stat(s) \/ Zero(s)
    BY <1>0, <2>2, <2>7 DEF Stat, Zero
  <2>8. CASE Lookup(s) \/ Fill(s) \/ Bid(s)
    BY <1>0, <2>8, ZenonT(30) DEF Lookup, Fill, Bid
  <2>9. CASE URead(s) \/ UFlag(s) \/ UWrite(s) \/ UMove(s)
    BY <2>1, <2>3, <2>9 DEF URead, UFlag, UWrite, UMove
  <2>10. CASE UCopy(s)
    BY <1>0, <2>10 DEF UCopy
  <2>11. CASE Look(s) \/ ReadSet(s) \/ ReadTo(s) \/ Clear(s) \/ ListScan(s)
    BY <2>4, <2>11 DEF Look, ReadSet, ReadTo, Clear, ListScan
  <2>12. CASE ReadFind(s) \/ ListNow(s)
    BY <1>0, <2>4, <2>12 DEF ReadFind, ListNow
  <2> QED BY <2>5, <2>6, <2>7, <2>8, <2>9, <2>10, <2>11, <2>12 DEF Step
<1> QED BY <1>0, <1>1, <1>2 DEF OthersSame, Goto

(* The articles: what is read is there, what is asked for is there.        *)
LEMMA PostPosts ==
  ASSUME TypeInv, PostsInv, NEW b \in Boards, Number(b) \/ Appear(b)
  PROVE  PostsInv'
<1>1. nowid[b] \in Nat /\ \A x \in Boards : nowid[x] \in Nat /\ posts[x] \subseteq Nat
  BY DEF TypeInv
<1>2. CASE Number(b)
  <2>1. nowid' = [nowid EXCEPT ![b] = @ + 1] /\ coming' = coming \cup {b} /\ posts' = posts /\ seen' = seen /\ loc' = loc
    BY <1>2 DEF Number
  <2>2. \A x \in Boards : nowid'[x] \in Nat /\ nowid[x] <= nowid'[x] /\ (x \in coming' => nowid'[x] > 0)
    BY <1>1, <2>1 DEF TypeInv, PostsInv
  <2>3. \A x \in Boards : posts[x] \subseteq 1 .. nowid'[x]
    BY <1>1, <2>2 DEF PostsInv
  <2> QED BY <2>1, <2>2, <2>3 DEF PostsInv
<1>3. CASE Appear(b)
  <2>1. b \in coming /\ coming' = coming \ {b} /\ nowid' = nowid /\ seen' = seen /\ loc' = loc
        /\ \A x \in Boards : posts'[x] = IF x = b THEN posts[x] \cup {nowid[b]} ELSE posts[x]
    BY <1>3 DEF Appear, TypeInv
  <2>2. ASSUME NEW x \in Boards PROVE posts[x] \subseteq posts'[x] /\ posts'[x] \subseteq 1 .. nowid[x]
    <3>1. posts[x] \subseteq 1 .. nowid[x] /\ nowid[x] \in Nat /\ (x = b => nowid[x] > 0)
      BY <1>1, <2>1 DEF PostsInv
    <3>2. CASE x = b
      <4>1. nowid[x] \in 1 .. nowid[x]
        BY <3>1, <3>2
      <4> QED BY <2>1, <3>1, <3>2, <4>1
    <3>3. CASE x # b
      BY <2>1, <3>1, <3>3
    <3> QED BY <3>2, <3>3
  <2>3. \A s \in Sessions : loc[s].cmd.op \in {"read", "to"} => loc[s].cmd.b \in Boards
    BY DEF TypeInv, Local, Commands, Logout
  <2> QED BY <2>1, <2>2, <2>3 DEF PostsInv
<1> QED BY <1>2, <1>3

LEMMA StepPosts ==
  ASSUME TypeInv, PostsInv, NEW s \in Sessions, OthersSame(s),
         posts' = posts, nowid' = nowid, coming' = coming,
         \/ loc'[s].cmd = loc[s].cmd \/ loc'[s].cmd = Logout
         \/ loc'[s].cmd.op \in {"read", "to"} => loc'[s].cmd.id \in posts[loc'[s].cmd.b],
         seen' = seen \/ \E b \in Boards : \E ids \in SUBSET posts[b] : See(b, ids)
  PROVE  PostsInv'
<1>1. \A b \in Boards : seen'[b] \subseteq posts[b]
  BY DEF See, TypeInv, PostsInv
<1>2. \A o \in Sessions : loc'[o].cmd.op \in {"read", "to"} => loc'[o].cmd.id \in posts[loc'[o].cmd.b]
  <2>1. loc'[s].cmd.op \in {"read", "to"} => loc'[s].cmd.id \in posts[loc'[s].cmd.b]
    BY DEF PostsInv, Logout
  <2> QED BY <2>1 DEF PostsInv, OthersSame
<1> QED BY <1>1, <1>2 DEF PostsInv

(* A session keeps its command until it ends, or is given the next.        *)
LEMMA CmdStep ==
  ASSUME NEW s \in Sessions, Own(s), Step(s)
  PROVE  \/ loc'[s].cmd = loc[s].cmd \/ loc'[s].cmd = Logout
         \/ loc'[s].cmd.op \in {"read", "to"} => loc'[s].cmd.id \in posts[loc'[s].cmd.b]
<1>0. loc \in [Sessions -> Local] /\ loc[s] \in Local /\ Start.cmd = Logout
  BY DEF Own, Start
<1>1. Updated(s) => loc'[s].cmd = loc[s].cmd
  BY <1>0 DEF Updated, Local
<1>2. \A m : Mapped(s, m) => loc'[s].cmd = loc[s].cmd
  BY <1>0 DEF Mapped, Local
<1>3. \A k, d : ToNext(s, k, d) => loc'[s].cmd = loc[s].cmd
  BY <1>0 DEF ToNext, Local
<1>4. Done(s) => loc'[s].cmd = Logout
  <2>1. Ended(s).cmd = Logout
    BY DEF Ended, Start
  <2> QED BY <1>0, <2>1 DEF Done
<1>5. CASE Login(s) \/ CountIn(s) \/ LogoutStart(s) \/ Unlink(s)
  BY <1>0, <1>5 DEF Login, CountIn, LogoutStart, Unlink, Local
<1>6. CASE Leave(s) \/ Purge(s)
  BY <1>0, <1>6 DEF Leave, Purge, Start
<1>7. ASSUME NEW c \in todo[s], Command(s, c)
      PROVE loc'[s].cmd.op \in {"read", "to"} => loc'[s].cmd.id \in posts[loc'[s].cmd.b]
  <2>1. loc'[s].cmd = c
    BY <1>0, <1>7 DEF Command, Local
  <2> QED BY <1>7, <2>1 DEF Command
<1>8. CASE Stat(s) \/ Zero(s)
  BY <1>2, <1>8 DEF Stat, Zero
<1>9. CASE Lookup(s) \/ Fill(s) \/ Bid(s)
  <2>1. CASE Lookup(s)
    <3>1. \/ \E x, y : loc' = [loc EXCEPT ![s].cur = x, ![s].board = y]
          \/ \E x, y, z : loc' = [loc EXCEPT ![s].img = x, ![s].slot = y, ![s].then = z]
      BY <2>1 DEF Lookup
    <3>2. ASSUME NEW x, NEW y, loc' = [loc EXCEPT ![s].cur = x, ![s].board = y] PROVE loc'[s].cmd = loc[s].cmd
      BY <1>0, <3>2 DEF Local
    <3>3. ASSUME NEW x, NEW y, NEW z, loc' = [loc EXCEPT ![s].img = x, ![s].slot = y, ![s].then = z]
          PROVE  loc'[s].cmd = loc[s].cmd
      BY <1>0, <3>3 DEF Local
    <3> QED BY <3>1, <3>2, <3>3
  <2>2. CASE Fill(s)
    BY <2>2 DEF Fill
  <2>3. CASE Bid(s)
    <3>1. \E x, y : loc' = [loc EXCEPT ![s].cur = x, ![s].board = y, ![s].slot = 0, ![s].img = NoMarks, ![s].then = "idle"]
      BY <2>3 DEF Bid
    <3> QED BY <1>0, <3>1 DEF Local
  <2> QED BY <1>9, <2>1, <2>2, <2>3
<1>10. CASE URead(s) \/ UFlag(s) \/ UWrite(s) \/ UMove(s)
  BY <1>1, <1>3, <1>10 DEF URead, UFlag, UWrite, UMove
<1>11. CASE UCopy(s)
  BY <1>0, <1>11 DEF UCopy, Local
<1>12. CASE Look(s) \/ ReadSet(s) \/ ReadTo(s) \/ Clear(s) \/ ListScan(s)
  BY <1>4, <1>12 DEF Look, ReadSet, ReadTo, Clear, ListScan
<1>13. CASE ReadFind(s) \/ ListNow(s)
  BY <1>0, <1>4, <1>13 DEF ReadFind, ListNow, Local
<1> QED BY <1>5, <1>6, <1>7, <1>8, <1>9, <1>10, <1>11, <1>12, <1>13 DEF Step

LEMMA PostsStep ==
  ASSUME TypeInv, PostsInv, PlaceInv, [Next]_vars
  PROVE  PostsInv'
<1>1. CASE UNCHANGED vars
  BY <1>1 DEF vars, articles, PostsInv
<1>2. ASSUME NEW b \in Boards, Number(b) \/ Appear(b) PROVE PostsInv'
  BY <1>2, PostPosts
<1>3. ASSUME NEW s \in Sessions, Step(s) PROVE PostsInv'
  <2>0. OthersSame(s) /\ Own(s)
    BY <1>3, OthersStep, OwnIs
  <2>1. posts' = posts /\ nowid' = nowid /\ coming' = coming
    BY <1>3, ZenonT(30) DEF Step, Login, CountIn, LogoutStart, Leave, Unlink, Purge, Command, Stat, Zero, Lookup, Fill, Bid,
           URead, UCopy, UFlag, UWrite, UMove, Look, ReadFind, ReadSet, ReadTo, Clear, ListNow, ListScan, articles
  <2>2. seen' = seen \/ \E b \in Boards : \E ids \in SUBSET posts[b] : See(b, ids)
    <3> DEFINE c == loc[s].cmd
    <3>1. CASE ReadFind(s) \/ ReadSet(s) \/ ReadTo(s) \/ Clear(s)
      <4>1. pc[s] \in {"op", "set", "scan"}
        BY <3>1 DEF ReadFind, ReadSet, ReadTo, Clear
      <4>2. c.b \in Boards
        BY <4>1, OpType
      <4>3. CASE ReadFind(s)
        BY <4>2, <4>3 DEF ReadFind, PostsInv
      <4>4. CASE ReadSet(s)
        <5>1. c.op = "read"
          BY <2>0, <4>4 DEF ReadSet, Own, Placed
        <5>2. {c.id} \in SUBSET posts[c.b]
          BY <5>1 DEF PostsInv
        <5> QED BY <4>2, <4>4, <5>2 DEF ReadSet
      <4>5. CASE ReadTo(s)
        <5>1. {f \in posts[c.b] : f <= c.id} \in SUBSET posts[c.b]
          OBVIOUS
        <5> QED BY <4>2, <4>5, <5>1 DEF ReadTo
      <4>6. CASE Clear(s)
        BY <4>2, <4>6 DEF Clear
      <4> QED BY <3>1, <4>3, <4>4, <4>5, <4>6
    <3>2. CASE ~(ReadFind(s) \/ ReadSet(s) \/ ReadTo(s) \/ Clear(s))
      BY <1>3, <3>2, ZenonT(30) DEF Step, Login, CountIn, LogoutStart, Leave, Unlink, Purge, Command, Stat, Zero, Lookup, Fill,
             Bid, URead, UCopy, UFlag, UWrite, UMove, Look, ListNow, ListScan
    <3> QED BY <3>1, <3>2
  <2>3. \/ loc'[s].cmd = loc[s].cmd \/ loc'[s].cmd = Logout
        \/ loc'[s].cmd.op \in {"read", "to"} => loc'[s].cmd.id \in posts[loc'[s].cmd.b]
    BY <1>3, <2>0, CmdStep
  <2> QED BY <2>0, <2>1, <2>2, <2>3, StepPosts
<1> QED BY <1>1, <1>2, <1>3, NextIs

-----------------------------------------------------------------------------
(* Where a session is after its step.                                      *)
LEMMA PlacedOther ==
  ASSUME NEW o \in Sessions, Placed(o), maps \in Seq([Slots -> Entry]), maps' \in Seq([Slots -> Entry]),
         Len(maps) <= Len(maps'), pc'[o] = pc[o], loc'[o] = loc[o]
  PROVE  Placed(o)'
<1>1. loc[o].map \in 0 .. Len(maps')
  BY DEF Placed
<1>2. Fills(o)' = Fills(o)
  BY DEF Fills
<1> QED BY <1>1, <1>2 DEF Placed

LEMMA PlacedGone ==
  ASSUME NEW s, maps' \in Seq([Slots -> Entry]), loc'[s] = Start \/ loc'[s] = [Start EXCEPT !.purged = loc[s].purged]
                                                 \/ loc'[s] = [Start EXCEPT !.purged = TRUE],
         pc'[s] \in {"off", "counted", "idle", "leave", "unlink", "over"}
  PROVE  Placed(s)'
<1>1. /\ loc'[s].map = 0 /\ loc'[s].cur = 0 /\ loc'[s].board = NoBoard /\ loc'[s].data = NoRows
  BY DEF Start
<1>2. ~Fills(s)' /\ pc'[s] \notin Updates
  BY DEF Fills, Updates
<1>3. 0 \in 0 .. Len(maps')
  OBVIOUS
<1> QED BY <1>1, <1>2, <1>3 DEF Placed

LEMMA PlacedDone ==
  ASSUME NEW s \in Sessions, Own(s), pc[s] \in {"op", "set", "scan"}, Done(s),
         maps' \in Seq([Slots -> Entry]), Len(maps') = Len(maps)
  PROVE  Placed(s)'
<1>1. loc'[s] = Ended(s) /\ pc'[s] = "idle"
  BY DEF Done, Own, Goto
<1>2. loc'[s] = Start \/ /\ loc'[s].map = loc[s].map /\ loc'[s].cur = loc[s].cur /\ loc'[s].data = NoRows
                         /\ loc'[s].board \in {NoBoard, loc[s].board}
  <2>1. loc[s].board = loc[s].cmd.b
    BY DEF Own, Placed
  <2> QED BY <1>1, <2>1 DEF Ended, Start
<1>3. CASE loc'[s] = Start
  BY <1>1, <1>3, PlacedGone
<1>4. CASE loc'[s].map = loc[s].map /\ loc'[s].cur = loc[s].cur /\ loc'[s].data = NoRows
           /\ loc'[s].board \in {NoBoard, loc[s].board}
  <2>1. loc[s].map \in 0 .. Len(maps') /\ (loc[s].cur # 0 => loc[s].map # 0) /\ (loc[s].board # NoBoard => loc[s].cur # 0)
    BY DEF Own, Placed
  <2>2. ~Fills(s)' /\ pc'[s] \notin Updates
    BY <1>1 DEF Fills, Updates
  <2> QED BY <1>1, <1>4, <2>1, <2>2 DEF Placed
<1> QED BY <1>2, <1>3, <1>4

LEMMA PlacedCome ==
  ASSUME TypeInv, TypeInv', NEW s \in Sessions, Own(s),
         Login(s) \/ CountIn(s) \/ LogoutStart(s) \/ Leave(s) \/ Unlink(s) \/ Purge(s)
  PROVE  Placed(s)'
<1>0. maps' = maps /\ maps' \in Seq([Slots -> Entry]) /\ loc[s] \in Local /\ loc \in [Sessions -> Local] /\ pc \in [Sessions -> Stages]
  BY DEF Own, TypeInv, Login, CountIn, LogoutStart, Leave, Unlink, Purge
<1>1. CASE Login(s)
  <2>1. loc' = [loc EXCEPT ![s].fresh = count = NoFile] /\ pc[s] = "off" /\ pc'[s] = "counted"
    BY <1>0, <1>1 DEF Login, Goto
  <2>2. /\ loc'[s].map = loc[s].map /\ loc'[s].cur = loc[s].cur /\ loc'[s].board = loc[s].board
        /\ loc'[s].data = loc[s].data
    BY <1>0, <2>1 DEF Local
  <2> QED BY <1>0, <2>1, <2>2 DEF Own, Placed, Fills, Updates
<1>2. CASE CountIn(s)
  <2>1. loc' = loc /\ pc[s] = "counted" /\ pc'[s] = "idle"
    BY <1>0, <1>2 DEF CountIn, Goto
  <2> QED BY <1>0, <2>1 DEF Own, Placed, Fills, Updates
<1>3. CASE LogoutStart(s)
  <2>1. /\ loc' = [loc EXCEPT ![s].cmd = Logout, ![s].then = "leave"] /\ pc[s] = "idle"
        /\ pc'[s] = IF loc[s].map # 0 THEN "update" ELSE IF s \in Web THEN "stat" ELSE "leave"
    BY <1>0, <1>3 DEF LogoutStart, Goto
  <2>2. /\ loc'[s].map = loc[s].map /\ loc'[s].cur = loc[s].cur /\ loc'[s].board = loc[s].board
        /\ loc'[s].data = loc[s].data /\ loc'[s].then = "leave"
    BY <1>0, <2>1 DEF Local
  <2> QED BY <1>0, <2>1, <2>2 DEF Own, Placed, Fills, Updates
<1>4. CASE Leave(s)
  BY <1>0, <1>4, PlacedGone DEF Leave, Goto
<1>5. CASE Unlink(s)
  <2>1. loc' = loc /\ pc[s] = "unlink" /\ pc'[s] = "over"
    BY <1>0, <1>5 DEF Unlink, Goto
  <2> QED BY <1>0, <2>1 DEF Own, Placed, Fills, Updates
<1>6. CASE Purge(s)
  BY <1>0, <1>6, PlacedGone DEF Purge, Goto
<1> QED BY <1>1, <1>2, <1>3, <1>4, <1>5, <1>6

LEMMA PlacedMap ==
  ASSUME TypeInv, TypeInv', NEW s \in Sessions, Own(s), Stat(s) \/ Zero(s) \/ \E c \in todo[s] : Command(s, c)
  PROVE  Placed(s)'
<1>0. /\ maps \in Seq([Slots -> Entry]) /\ maps' \in Seq([Slots -> Entry]) /\ entry \in 0 .. Len(maps)
      /\ entry' \in 0 .. Len(maps')
      /\ loc[s] \in Local /\ loc \in [Sessions -> Local] /\ pc \in [Sessions -> Stages]
  BY DEF Own, TypeInv
<1>1. ASSUME NEW m \in 1 .. Len(maps'), Mapped(s, m), pc[s] \in {"stat", "zero"} PROVE Placed(s)'
  <2>1. loc' = [loc EXCEPT ![s].map = m, ![s].cur = 0] /\ pc'[s] = IF loc[s].cmd = Logout THEN "update" ELSE "lookup"
    BY <1>0, <1>1 DEF Mapped, Goto
  <2>2. /\ loc'[s].map = m /\ loc'[s].cur = 0 /\ loc'[s].board = loc[s].board /\ loc'[s].cmd = loc[s].cmd
        /\ loc'[s].data = loc[s].data /\ loc'[s].then = loc[s].then
    BY <1>0, <2>1 DEF Local
  <2>3. loc[s].board = NoBoard /\ loc[s].data = NoRows /\ loc[s].cmd \in Commands \cup {Logout}
        /\ (loc[s].cmd = Logout => loc[s].then = "leave")
    BY <1>0, <1>1 DEF Own, Placed, Updates, Local
  <2> QED BY <1>1, <2>1, <2>2, <2>3 DEF Placed, Fills, Updates
<1>2. CASE Stat(s)
  <2>1. CASE entry = 0
    <3>1. loc' = loc /\ maps' = maps /\ pc[s] = "stat" /\ pc'[s] = "zero"
      BY <1>0, <1>2, <2>1 DEF Stat, Goto
    <3> QED BY <1>0, <3>1 DEF Own, Placed, Fills, Updates
  <2>2. CASE entry # 0
    <3>1. Mapped(s, entry) /\ pc[s] = "stat" /\ maps' = maps
      BY <1>2, <2>2 DEF Stat
    <3> QED BY <1>0, <1>1, <2>2, <3>1
  <2> QED BY <2>1, <2>2
<1>3. CASE Zero(s)
  <2>1. Mapped(s, entry') /\ entry' # 0 /\ pc[s] = "zero"
    BY <1>0, <1>3 DEF Zero
  <2> QED BY <1>0, <1>1, <2>1
<1>4. ASSUME NEW c \in todo[s], Command(s, c) PROVE Placed(s)'
  <2>0. c \in Commands /\ maps' = maps /\ pc[s] = "idle" /\ c.b # NoBoard /\ c # Logout
    <3>1. c \in Commands /\ maps' = maps /\ pc[s] = "idle"
      BY <1>4 DEF Command, TypeInv
    <3>2. c.b # NoBoard
      BY <3>1, Kinds DEF Commands
    <3>3. c.b # NoBoard => c # Logout
      BY DEF Logout
    <3> QED BY <3>1, <3>2, <3>3
  <2>1. CASE loc[s].board = c.b
    <3>1. loc' = [loc EXCEPT ![s].cmd = c] /\ pc'[s] = "op"
      BY <1>0, <1>4, <2>1 DEF Command, Goto
    <3>2. /\ loc'[s].map = loc[s].map /\ loc'[s].cur = loc[s].cur /\ loc'[s].board = loc[s].board
          /\ loc'[s].cmd = c /\ loc'[s].data = loc[s].data
      BY <1>0, <3>1 DEF Local
    <3> QED BY <2>0, <2>1, <3>1, <3>2 DEF Own, Placed, Fills, Updates
  <2>2. CASE loc[s].board # c.b
    <3>1. loc' = [loc EXCEPT ![s].cmd = c, ![s].cur = 0, ![s].board = NoBoard]
          /\ pc'[s] = IF loc[s].map = 0 THEN "stat" ELSE "lookup"
      BY <1>0, <1>4, <2>2 DEF Command, Goto
    <3>2. /\ loc'[s].map = loc[s].map /\ loc'[s].cur = 0 /\ loc'[s].board = NoBoard
          /\ loc'[s].cmd = c /\ loc'[s].data = loc[s].data
      BY <1>0, <3>1 DEF Local
    <3> QED BY <2>0, <3>1, <3>2 DEF Own, Placed, Fills, Updates
  <2> QED BY <2>1, <2>2
<1> QED BY <1>2, <1>3, <1>4

(* A slot is written, and no other. *)
Writes(m, i, x) ==
  /\ m \in DOMAIN maps /\ i \in Slots /\ x \in Entry
  /\ Len(maps') = Len(maps) /\ maps'[m] = [maps[m] EXCEPT ![i] = x]
  /\ \A m2 \in DOMAIN maps \ {m} : maps'[m2] = maps[m2]

LEMMA FillWrites ==
  ASSUME TypeInv, PlaceInv, NEW s \in Sessions, Fill(s)
  PROVE  Writes(loc[s].map, loc[s].slot, [Cache(s)[loc[s].slot] EXCEPT !.list = loc[s].img])
<1>1. Fills(s)
  BY DEF Fills, Fill
<1>2. [Cache(s)[loc[s].slot] EXCEPT !.list = loc[s].img] \in Entry
  BY <1>1, SlotType DEF Entry
<1>3. loc[s].map \in DOMAIN maps /\ loc[s].slot \in Slots
  BY <1>1, SlotType
<1>4. SetSlot(loc[s].map, loc[s].slot, [Cache(s)[loc[s].slot] EXCEPT !.list = loc[s].img])
  BY DEF Fill
<1> QED BY <1>2, <1>3, <1>4, SetSlotType DEF Writes

LEMMA BidWrites ==
  ASSUME TypeInv, PlaceInv, NEW s \in Sessions, Bid(s)
  PROVE  Writes(loc[s].map, loc[s].slot, [bid |-> loc[s].cmd.b, list |-> Cache(s)[loc[s].slot].list, changed |-> FALSE])
<1> DEFINE x == [bid |-> loc[s].cmd.b, list |-> Cache(s)[loc[s].slot].list, changed |-> FALSE]
<1>1. Fills(s)
  BY DEF Fills, Bid
<1>2. x \in Entry
  BY <1>1, SlotType DEF Entry
<1>3. loc[s].map \in DOMAIN maps /\ loc[s].slot \in Slots
  BY <1>1, SlotType
<1>4. SetSlot(loc[s].map, loc[s].slot, x)
  BY DEF Bid
<1> QED BY <1>2, <1>3, <1>4, SetSlotType DEF Writes

LEMMA FlagWrites ==
  ASSUME TypeInv, PlaceInv, NEW s \in Sessions, UFlag(s)
  PROVE  Writes(loc[s].map, loc[s].k, [Cache(s)[loc[s].k] EXCEPT !.changed = FALSE])
<1>0. Own(s)
  BY OwnIs
<1>1. loc[s].map # 0 /\ loc[s].k \in Slots
  BY <1>0 DEF Own, Placed, UFlag, Updates
<1>2. loc[s].map \in DOMAIN maps /\ Cache(s)[loc[s].k] \in Entry
  BY <1>0, <1>1 DEF Own
<1> DEFINE x == [Cache(s)[loc[s].k] EXCEPT !.changed = FALSE]
<1>3. x \in Entry
  BY <1>2 DEF Entry
<1>4. SetSlot(loc[s].map, loc[s].k, x)
  BY DEF UFlag
<1> HIDE DEF x
<1>5. Writes(loc[s].map, loc[s].k, x)
  BY <1>1, <1>2, <1>3, <1>4, SetSlotType DEF Writes
<1> QED BY <1>5 DEF x

LEMMA ListWrites ==
  ASSUME TypeInv, PlaceInv, NEW s \in Sessions, pc[s] \in {"op", "set", "scan"}, NEW l \in Lists, SetList(s, l)
  PROVE  Writes(loc[s].map, loc[s].cur, [Cache(s)[loc[s].cur] EXCEPT !.list = l, !.changed = TRUE])
<1>1. [Cache(s)[loc[s].cur] EXCEPT !.list = l, !.changed = TRUE] \in Entry
  BY OpType DEF Entry
<1> QED BY <1>1, OpType, SetSlotType DEF SetList, Writes

LEMMA PlacedFill ==
  ASSUME TypeInv, TypeInv', PlaceInv, NEW s \in Sessions, Own(s), Lookup(s) \/ Fill(s) \/ Bid(s)
  PROVE  Placed(s)' /\ Len(maps') = Len(maps)
<1>0. /\ maps \in Seq([Slots -> Entry]) /\ maps' \in Seq([Slots -> Entry])
      /\ loc[s] \in Local /\ loc \in [Sessions -> Local] /\ pc \in [Sessions -> Stages] /\ 0 \notin Slots
  BY BoardsAssumption DEF Own, TypeInv, Slots
<1>1. /\ loc[s].map # 0 /\ loc[s].map \in 0 .. Len(maps) /\ loc[s].data = NoRows /\ loc[s].board = NoBoard
      /\ loc[s].cmd \in Commands /\ loc[s].cmd.b \in Boards /\ Cache(s) \in [Slots -> Entry]
  BY ZenonT(30) DEF Own, Placed, Lookup, Fill, Bid, Fills, Updates, Commands
<1>2. CASE Lookup(s)
  <2> DEFINE has == {i \in Slots : Cache(s)[i].bid = loc[s].cmd.b}
             v == Victim(Cache(s))
             r == row[loc[s].cmd.b]
  <2>0. maps' = maps /\ pc[s] = "lookup"
    BY <1>2 DEF Lookup
  <2>1. CASE has # {}
    <3>1. Min(has) \in Slots
      BY <2>1, Kinds, MinIs
    <3>2. loc' = [loc EXCEPT ![s].cur = Min(has), ![s].board = loc[s].cmd.b] /\ pc'[s] = "op"
      BY <1>0, <1>2, <2>1 DEF Lookup, Goto
    <3> HIDE DEF has
    <3>3. /\ loc'[s].map = loc[s].map /\ loc'[s].cur = Min(has) /\ loc'[s].board = loc[s].cmd.b
          /\ loc'[s].cmd = loc[s].cmd /\ loc'[s].data = loc[s].data
      BY <1>0, <3>2 DEF Local
    <3> QED BY <1>0, <1>1, <2>0, <3>1, <3>2, <3>3 DEF Placed, Fills, Updates
  <2>2. CASE has = {}
    <3>1. v \in Slots
      BY <1>1, VictimType
    <3>2. loc' = [loc EXCEPT ![s].img = r, ![s].slot = v, ![s].then = "fill"] /\ pc'[s] \in {"update", "fill"}
      BY <1>0, <1>2, <2>2 DEF Lookup, Goto
    <3> HIDE DEF has, v, r
    <3>3. /\ loc'[s].map = loc[s].map /\ loc'[s].cur = loc[s].cur /\ loc'[s].board = NoBoard
          /\ loc'[s].slot = v /\ loc'[s].then = "fill"
          /\ loc'[s].cmd = loc[s].cmd /\ loc'[s].data = loc[s].data
      BY <1>0, <1>1, <3>2 DEF Local
    <3> QED BY <1>0, <1>1, <2>0, <3>1, <3>2, <3>3 DEF Placed, Fills, Updates
  <2> QED BY <2>0, <2>1, <2>2
<1>3. CASE Fill(s)
  <2>1. loc' = loc /\ pc[s] = "fill" /\ pc'[s] = "bid"
    BY <1>0, <1>3 DEF Fill, Goto
  <2>2. Len(maps') = Len(maps)
    BY <1>3, FillWrites DEF Writes
  <2>3. loc[s].slot # 0
    BY <2>1 DEF Own, Placed, Fills
  <2> QED BY <1>1, <2>1, <2>2, <2>3 DEF Own, Placed, Fills, Updates
<1>4. CASE Bid(s)
  <2>1. loc' = [loc EXCEPT ![s].cur = loc[s].slot, ![s].board = loc[s].cmd.b, ![s].slot = 0, ![s].img = NoMarks,
                           ![s].then = "idle"]
        /\ pc[s] = "bid" /\ pc'[s] = "op"
    BY <1>0, <1>4 DEF Bid, Goto
  <2>2. /\ loc'[s].map = loc[s].map /\ loc'[s].cur = loc[s].slot /\ loc'[s].board = loc[s].cmd.b
        /\ loc'[s].cmd = loc[s].cmd /\ loc'[s].data = loc[s].data
    BY <1>0, <2>1 DEF Local
  <2>3. Len(maps') = Len(maps)
    BY <1>4, BidWrites DEF Writes
  <2>4. loc[s].slot # 0
    BY <2>1 DEF Own, Placed, Fills
  <2> QED BY <1>0, <1>1, <2>1, <2>2, <2>3, <2>4 DEF Placed, Fills, Updates
<1> QED BY <1>2, <1>3, <1>4

(* What a session goes on with. *)
Stays(s) ==
  /\ loc'[s].map = loc[s].map /\ loc'[s].cur = loc[s].cur /\ loc'[s].board = loc[s].board
  /\ loc'[s].cmd = loc[s].cmd /\ loc'[s].then = loc[s].then /\ loc'[s].slot = loc[s].slot

LEMMA PlacedUpdate ==
  ASSUME TypeInv, TypeInv', PlaceInv, NEW s \in Sessions, Own(s),
         URead(s) \/ UCopy(s) \/ UFlag(s) \/ UWrite(s) \/ UMove(s)
  PROVE  Placed(s)' /\ Len(maps') = Len(maps)
<1>0. /\ maps \in Seq([Slots -> Entry]) /\ maps' \in Seq([Slots -> Entry]) /\ row \in Rows
      /\ loc[s] \in Local /\ loc \in [Sessions -> Local] /\ pc \in [Sessions -> Stages] /\ 0 \notin Slots
  BY BoardsAssumption DEF Own, TypeInv, Slots
<1>1. /\ pc[s] \in {"update"} \cup Updates /\ loc[s].map # 0 /\ loc[s].map \in 0 .. Len(maps) /\ loc[s].then \in {"fill", "leave"}
      /\ (loc[s].cur # 0 => loc[s].map # 0) /\ (loc[s].board # NoBoard => loc[s].cur # 0)
      /\ (loc[s].then = "fill" => loc[s].board = NoBoard /\ loc[s].cmd \in Commands /\ loc[s].slot # 0)
  <2>1. pc[s] \in {"update"} \cup Updates
    BY DEF URead, UCopy, UFlag, UWrite, UMove, Updates
  <2>2. loc[s].then \in {"idle", "fill", "leave"} /\ loc[s].then # "idle"
    BY <1>0, <2>1 DEF Own, Placed, Local
  <2> QED BY <2>1, <2>2 DEF Own, Placed, Fills
<1>2. Len(maps') = Len(maps)
  <2>1. CASE UFlag(s)
    BY <2>1, FlagWrites DEF Writes
  <2> QED BY <2>1 DEF URead, UCopy, UWrite, UMove
<1>3. ASSUME Updated(s) PROVE Placed(s)'
  <2>1. loc' = [loc EXCEPT ![s].base = NoRows, ![s].data = NoRows, ![s].k = 0] /\ pc'[s] = loc[s].then
    BY <1>0, <1>3 DEF Updated, Goto
  <2>2. /\ loc'[s].map = loc[s].map /\ loc'[s].cur = loc[s].cur /\ loc'[s].board = loc[s].board
        /\ loc'[s].cmd = loc[s].cmd /\ loc'[s].data = NoRows /\ loc'[s].then = loc[s].then /\ loc'[s].slot = loc[s].slot
    BY <1>0, <2>1 DEF Local
  <2> QED BY <1>1, <1>2, <2>1, <2>2 DEF Placed, Fills, Updates
<1>4. ASSUME pc'[s] \in Updates, loc'[s].base \in Rows, loc'[s].data \in Rows, 
             pc'[s] \in {"u_copy", "u_flag"} => loc'[s].k \in Slots,
             Stays(s)
      PROVE  Placed(s)'
  BY <1>1, <1>2, <1>4 DEF Placed, Fills, Updates, Stays
<1>5. ASSUME NEW k \in Nat, NEW d \in Rows, ToNext(s, k, d), k = 0 \/ loc[s].base \in Rows PROVE Placed(s)'
  <2> DEFINE n == NextChanged(s, k)
  <2>1. n \in 1 .. CacheNum + 1 /\ (n <= CacheNum => n \in Slots)
    <3>1. Cache(s) \in [Slots -> Entry]
      BY <1>1 DEF Own
    <3> QED BY <3>1, NextChangedType DEF NextChanged, Changed
  <2> HIDE DEF n
  <2>2. loc' = [loc EXCEPT ![s].k = n, ![s].base = IF k = 0 THEN row ELSE @, ![s].data = d]
        /\ pc'[s] = IF n > CacheNum THEN "u_write" ELSE "u_copy"
    BY <1>0, <1>5 DEF ToNext, Goto, n
  <2>3. Stays(s) /\ loc'[s].k = n /\ loc'[s].data = d
    BY <1>0, <2>2 DEF Local, Stays
  <2>4. loc'[s].base \in Rows
    BY <1>0, <1>5, <2>2 DEF Local
  <2>5. pc'[s] \in Updates /\ (pc'[s] \in {"u_copy", "u_flag"} => n <= CacheNum)
    BY <2>1, <2>2, Kinds DEF Updates
  <2> QED BY <1>4, <1>5, <2>1, <2>3, <2>4, <2>5
<1>6. pc[s] \in Updates => loc[s].base \in Rows /\ loc[s].data \in Rows /\ (pc[s] \in {"u_copy", "u_flag"} => loc[s].k \in Slots)
  BY DEF Own, Placed
<1>7. CASE URead(s)
  BY <1>0, <1>2, <1>3, <1>5, <1>7 DEF URead
<1>8. CASE UCopy(s)
  <2> DEFINE d == [b \in Boards |-> IF b = Cache(s)[loc[s].k].bid THEN Cache(s)[loc[s].k].list ELSE loc[s].data[b]]
  <2>1. loc' = [loc EXCEPT ![s].data = d] /\ pc'[s] = "u_flag" /\ pc[s] = "u_copy"
    BY <1>0, <1>8 DEF UCopy, Goto
  <2>2. loc[s].data \in Rows /\ loc[s].k \in Slots /\ loc[s].base \in Rows
    BY <1>6, <2>1 DEF Updates
  <2>3. d \in Rows
    <3>1. Cache(s)[loc[s].k] \in Entry
      BY <1>1, <2>2 DEF Own
    <3> QED BY <2>2, <3>1 DEF Rows, Entry
  <2> HIDE DEF d
  <2>4. Stays(s) /\ loc'[s].k = loc[s].k /\ loc'[s].data = d /\ loc'[s].base = loc[s].base
    BY <1>0, <2>1 DEF Local, Stays
  <2>5. pc'[s] \in Updates
    BY <2>1 DEF Updates
  <2> QED BY <1>2, <1>4, <2>2, <2>3, <2>4, <2>5
<1>9. CASE UFlag(s)
  <2>1. ToNext(s, loc[s].k, loc[s].data) /\ pc[s] = "u_flag"
    BY <1>9 DEF UFlag
  <2>2. loc[s].k \in Nat /\ loc[s].data \in Rows /\ loc[s].base \in Rows
    BY <1>6, <2>1, Kinds DEF Updates
  <2> QED BY <1>2, <1>5, <2>1, <2>2
<1>10. CASE UWrite(s)
  <2>1. CASE Goto(s, "u_move") /\ loc' = loc
    <3>1. pc'[s] = "u_move" /\ pc'[s] \in Updates /\ pc[s] \in Updates
      BY <1>0, <1>10, <2>1 DEF Goto, Updates, UWrite
    <3>2. Stays(s) /\ loc'[s].base = loc[s].base /\ loc'[s].data = loc[s].data
      BY <2>1 DEF Stays
    <3> QED BY <1>2, <1>4, <1>6, <3>1, <3>2
  <2> QED BY <1>2, <1>3, <1>10, <2>1 DEF UWrite
<1>11. CASE UMove(s)
  BY <1>2, <1>3, <1>11 DEF UMove
<1> QED BY <1>7, <1>8, <1>9, <1>10, <1>11

LEMMA PlacedMark ==
  ASSUME TypeInv, TypeInv', PlaceInv, NEW s \in Sessions, Own(s),
         Look(s) \/ ReadFind(s) \/ ReadSet(s) \/ ReadTo(s) \/ Clear(s) \/ ListNow(s) \/ ListScan(s)
  PROVE  Placed(s)' /\ Len(maps') = Len(maps)
<1> DEFINE l == Cache(s)[loc[s].cur].list
<1>0. /\ maps' \in Seq([Slots -> Entry]) /\ loc[s] \in Local /\ loc \in [Sessions -> Local] /\ pc \in [Sessions -> Stages]
      /\ pc[s] \in {"op", "set", "scan"} /\ \A b \in Boards : nowid[b] \in Nat
  BY DEF Own, TypeInv, Look, ReadFind, ReadSet, ReadTo, Clear, ListNow, ListScan
<1>1. l \in Lists /\ loc[s].old \in Lists /\ loc[s].cmd.b \in Boards /\ loc[s].cmd.id \in Nat
  BY <1>0, OpType DEF Entry, Local
<1> HIDE DEF l
<1>2. maps' = maps \/ \E x \in Lists : SetList(s, x)
  <2>1. CASE ReadSet(s)
    BY <1>1, <2>1, AddToType DEF ReadSet, l
  <2>2. CASE ReadTo(s)
    BY <1>1, <2>2, ClearsType DEF ReadTo, l
  <2>3. CASE Clear(s)
    BY <1>0, <1>1, <2>3, ClearsType DEF Clear, l
  <2>4. CASE ListScan(s)
    BY <1>0, <1>1, <2>4, ClearsType DEF ListScan, l
  <2> QED BY <2>1, <2>2, <2>3, <2>4 DEF Look, ReadFind, ListNow
<1>3. Len(maps') = Len(maps)
  BY <1>0, <1>2, ListWrites DEF Writes
<1>4. ASSUME Stays(s), loc'[s].data = loc[s].data, pc'[s] \in {"scan", "set"},
             pc'[s] = "set" => loc[s].cmd.op = "read"
      PROVE  Placed(s)'
  BY <1>0, <1>3, <1>4 DEF Own, Placed, Fills, Updates, Stays
<1>5. CASE Done(s)
  BY <1>0, <1>3, <1>5, PlacedDone
<1>6. CASE ReadFind(s) /\ ~Done(s)
  <2>1. loc' = [loc EXCEPT ![s].old = l] /\ pc'[s] = "set" /\ loc[s].cmd.op = "read"
    BY <1>0, <1>6 DEF ReadFind, Goto, l
  <2>2. Stays(s) /\ loc'[s].data = loc[s].data
    BY <1>0, <2>1 DEF Local, Stays
  <2> QED BY <1>3, <1>4, <2>1, <2>2
<1>7. CASE ListNow(s) /\ ~Done(s)
  <2>1. loc' = [loc EXCEPT ![s].now = nowid[loc[s].cmd.b], ![s].last = Last(loc[s].cmd.b)] /\ pc'[s] = "scan"
    BY <1>0, <1>7 DEF ListNow, Goto
  <2>2. Stays(s) /\ loc'[s].data = loc[s].data
    BY <1>0, <2>1 DEF Local, Stays
  <2> QED BY <1>3, <1>4, <2>1, <2>2
<1> QED BY <1>3, <1>5, <1>6, <1>7 DEF Look, ReadSet, ReadTo, Clear, ListScan

-----------------------------------------------------------------------------
(* The sets that the sessions make up, one by one. *)
Row(o, b) == [base |-> loc[o].base[b], data |-> loc[o].data[b]]

LEMMA FillingIs ==
  /\ \A m, i : i \in Filling(m) <=> \E o \in Sessions : pc[o] = "bid" /\ loc[o].map = m /\ loc[o].slot = i
  /\ \A m, i : i \in Filling(m)' <=> \E o \in Sessions : pc'[o] = "bid" /\ loc'[o].map = m /\ loc'[o].slot = i
BY DEF Filling

LEMMA TakenIs ==
  /\ \A i : i \in Taken <=> entry # 0 /\ \E o \in Sessions : pc[o] = "bid" /\ loc[o].map = entry /\ loc[o].slot = i
  /\ \A i : i \in Taken' <=> entry' # 0 /\ \E o \in Sessions : pc'[o] = "bid" /\ loc'[o].map = entry' /\ loc'[o].slot = i
BY DEF Filling, Taken

LEMMA CopiedIs ==
  /\ \A i : i \in Copied <=> \E o \in Sessions : pc[o] = "u_copy" /\ loc[o].k = i
  /\ \A i : i \in Copied' <=> \E o \in Sessions : pc'[o] = "u_copy" /\ loc'[o].k = i
BY DEF Copied

LEMMA UpsIs ==
  ASSUME NEW b
  PROVE  /\ \A u : u \in Ups(b) <=> \E o \in Sessions : pc[o] \in Updates /\ u = Row(o, b)
         /\ \A u : u \in Ups(b)' <=> \E o \in Sessions : pc'[o] \in Updates /\ u = Row(o, b)'
BY DEF Ups, Row

(* What the other sessions make up stays. *)
LEMMA TakenStep ==
  ASSUME NEW s \in Sessions, OthersSame(s), entry' = entry
  PROVE  /\ pc'[s] # "bid" => Taken' \subseteq Taken
         /\ pc'[s] = "bid" => Taken' \subseteq Taken \cup {loc'[s].slot}
         /\ pc[s] # "bid" => Taken \subseteq Taken'
         /\ pc[s] = "bid" => Taken \subseteq Taken' \cup {loc[s].slot}
         /\ pc'[s] = "bid" /\ loc'[s].map = entry /\ entry # 0 => loc'[s].slot \in Taken'
BY TakenIs DEF OthersSame

LEMMA CopiedStep ==
  ASSUME NEW s \in Sessions, OthersSame(s)
  PROVE  /\ pc'[s] # "u_copy" => Copied' \subseteq Copied
         /\ pc'[s] = "u_copy" => Copied' \subseteq Copied \cup {loc'[s].k}
         /\ pc[s] # "u_copy" => Copied \subseteq Copied'
BY CopiedIs DEF OthersSame

UpsBut(s, b) == {u \in Ups(b) : \E o \in Sessions \ {s} : pc[o] \in Updates /\ u = Row(o, b)}

LEMMA UpsStep ==
  ASSUME NEW s \in Sessions, OthersSame(s), NEW b
  PROVE  /\ Ups(b)  = IF pc[s] \in Updates THEN UpsBut(s, b) \cup {Row(s, b)} ELSE UpsBut(s, b)
         /\ Ups(b)' = IF pc'[s] \in Updates THEN UpsBut(s, b) \cup {Row(s, b)'} ELSE UpsBut(s, b)
<1>1. \A o \in Sessions \ {s} : pc'[o] = pc[o] /\ Row(o, b)' = Row(o, b)
  BY DEF OthersSame, Row
<1>2. \A u : u \in UpsBut(s, b) <=> \E o \in Sessions \ {s} : pc[o] \in Updates /\ u = Row(o, b)
  BY UpsIs DEF UpsBut
<1>3. \A u : u \in Ups(b) <=> u \in UpsBut(s, b) \/ (pc[s] \in Updates /\ u = Row(s, b))
  BY <1>2, UpsIs
<1>4. \A u : u \in Ups(b)' <=> u \in UpsBut(s, b) \/ (pc'[s] \in Updates /\ u = Row(s, b)')
  BY <1>1, <1>2, UpsIs
<1>5. Ups(b) = IF pc[s] \in Updates THEN UpsBut(s, b) \cup {Row(s, b)} ELSE UpsBut(s, b)
  BY <1>3
<1>6. Ups(b)' = IF pc'[s] \in Updates THEN UpsBut(s, b) \cup {Row(s, b)'} ELSE UpsBut(s, b)
  BY <1>4
<1> QED BY <1>5, <1>6

(* The boards that met a window are not forgotten. *)
LEMMA HarmGrows ==
  ASSUME NEW s, Step(s)
  PROVE  harmed \subseteq harmed'
BY ZenonT(30) DEF Step, Login, CountIn, LogoutStart, Leave, Unlink, Purge, Command, Stat, Zero, Lookup, Fill, Bid,
       URead, UCopy, UFlag, UWrite, UMove, Look, ReadFind, ReadSet, ReadTo, Clear, ListNow, ListScan

-----------------------------------------------------------------------------
(* The file a session has mapped, and its slot there.                      *)
LEMMA CurIs ==
  ASSUME TypeInv, PlaceInv, NEW o \in Sessions, loc[o].board # NoBoard
  PROVE  loc[o].cur \in Slots /\ loc[o].map # 0 /\ loc[o].board \in Boards
<1>1. Placed(o) /\ loc[o] \in Local
  BY DEF PlaceInv, TypeInv
<1> QED BY <1>1 DEF Placed, Local

LEMMA LoadedIs ==
  ASSUME TypeInv
  PROVE  Loaded \in [Slots -> Entry] /\ (entry # 0 => entry \in DOMAIN maps /\ Loaded = maps[entry])
<1>1. entry # 0 => entry \in DOMAIN maps /\ maps[entry] \in [Slots -> Entry]
  BY DEF TypeInv
<1> QED BY <1>1, Kinds DEF Loaded

(* It stays bound while the slots keep their boards and no more are filled. *)
LEMMA BoundSame ==
  ASSUME TypeInv, PlaceInv, NEW o \in Sessions, harmed \subseteq harmed', Taken' \subseteq Taken,
         \A i \in Slots : Loaded'[i].bid = Loaded[i].bid,
         loc'[o].board = NoBoard \/ (loc'[o].board = loc[o].board /\ loc'[o].cur = loc[o].cur)
  PROVE  Bound(o)'
<1>1. SUFFICES ASSUME loc'[o].board # NoBoard PROVE Bound(o)'
  BY DEF Bound
<1>2. loc'[o].board = loc[o].board /\ loc'[o].cur = loc[o].cur /\ loc[o].cur \in Slots /\ Bound(o)
  BY <1>1, CurIs DEF PlaceInv
<1>3. \A b : Good(b)' => Good(b)
  BY DEF Good
<1>4. Loaded'[loc'[o].cur].bid = Loaded[loc[o].cur].bid
  BY <1>2
<1> QED BY <1>1, <1>2, <1>3, <1>4 DEF Bound

LEMMA PlainPlace ==
  ASSUME TypeInv, PlaceInv, NEW s \in Sessions, OthersSame(s), harmed \subseteq harmed', entry' = entry,
         \A i \in Slots : Loaded'[i].bid = Loaded[i].bid, pc'[s] # "bid",
         loc'[s].map \in {0, loc[s].map, entry}, NEW o \in Sessions
  PROVE  /\ Mapping(o)'
         /\ o # s \/ loc'[s].board = NoBoard \/ (loc'[s].board = loc[s].board /\ loc'[s].cur = loc[s].cur) => Bound(o)'
<1>1. Mapping(o)'
  BY DEF PlaceInv, Mapping, OthersSame
<1>2. Taken' \subseteq Taken
  BY TakenStep
<1>3. ASSUME o # s \/ loc'[s].board = NoBoard \/ (loc'[s].board = loc[s].board /\ loc'[s].cur = loc[s].cur) PROVE Bound(o)'
  BY <1>2, <1>3, BoundSame DEF OthersSame
<1> QED BY <1>1, <1>3

LEMMA ComePlace ==
  ASSUME TypeInv, PlaceInv, NEW s \in Sessions,
         Login(s) \/ CountIn(s) \/ LogoutStart(s) \/ Leave(s) \/ Purge(s) \/ Stat(s) \/ \E c \in todo[s] : Command(s, c),
         NEW o \in Sessions
  PROVE  Mapping(o)' /\ Bound(o)'
<1>0. OthersSame(s) /\ harmed \subseteq harmed' /\ loc \in [Sessions -> Local] /\ pc \in [Sessions -> Stages] /\ loc[s] \in Local
  BY OthersStep, HarmGrows DEF Step, TypeInv
<1>1. maps' = maps /\ entry' = entry
  BY DEF Login, CountIn, LogoutStart, Leave, Purge, Stat, Command
<1>2. \A i \in Slots : Loaded'[i].bid = Loaded[i].bid
  BY <1>1 DEF Loaded
<1>3. pc'[s] # "bid"
  BY <1>0 DEF Login, CountIn, LogoutStart, Leave, Purge, Stat, Command, Goto, Mapped
<1>4. /\ loc'[s].map \in {0, loc[s].map, entry}
      /\ loc'[s].board = NoBoard \/ (loc'[s].board = loc[s].board /\ loc'[s].cur = loc[s].cur)
  <2>1. CASE Login(s) \/ CountIn(s) \/ LogoutStart(s)
    BY <1>0, <2>1 DEF Login, CountIn, LogoutStart, Local
  <2>2. CASE Leave(s) \/ Purge(s)
    BY <1>0, <2>2 DEF Leave, Purge, Start
  <2>3. CASE Stat(s)
    <3>1. CASE entry = 0
      BY <2>3, <3>1 DEF Stat
    <3>2. CASE entry # 0
      <4>1. loc' = [loc EXCEPT ![s].map = entry, ![s].cur = 0] /\ loc[s].board = NoBoard
        BY <2>3, <3>2 DEF Stat, Mapped, PlaceInv, Placed
      <4> QED BY <1>0, <4>1 DEF Local
    <3> QED BY <3>1, <3>2
  <2>4. ASSUME NEW c \in todo[s], Command(s, c)
        PROVE  /\ loc'[s].map = loc[s].map
               /\ loc'[s].board = NoBoard \/ (loc'[s].board = loc[s].board /\ loc'[s].cur = loc[s].cur)
    <3>1. CASE loc[s].board = c.b
      <4>1. loc' = [loc EXCEPT ![s].cmd = c]
        BY <2>4, <3>1 DEF Command
      <4> QED BY <1>0, <4>1 DEF Local
    <3>2. CASE loc[s].board # c.b
      <4>1. loc' = [loc EXCEPT ![s].cmd = c, ![s].cur = 0, ![s].board = NoBoard]
        BY <2>4, <3>2 DEF Command
      <4> QED BY <1>0, <4>1 DEF Local
    <3> QED BY <3>1, <3>2
  <2> QED BY <2>1, <2>2, <2>3, <2>4
<1> QED BY <1>0, <1>1, <1>2, <1>3, <1>4, PlainPlace

(* "entry" is removed: nobody has it, or everything is harmed. *)
LEMMA UnlinkPlace ==
  ASSUME "unlink" \in Windows, TypeInv, PlaceInv, NEW s \in Sessions, Unlink(s), NEW o \in Sessions
  PROVE  Mapping(o)' /\ Bound(o)'
<1>0. OthersSame(s) /\ harmed \subseteq harmed'
  BY OthersStep, HarmGrows DEF Step
<1>1. loc' = loc /\ entry' = 0
  BY DEF Unlink
<1>2. loc[o].map = 0 \/ Boards \subseteq harmed'
  <2>1. SUFFICES ASSUME loc[o].map # 0, ~(Boards \subseteq harmed) PROVE Boards \subseteq harmed'
    BY <1>0
  <2>2. loc[o].map = entry
    BY <2>1 DEF PlaceInv, Mapping
  <2>3. Harm("unlink", Boards) \subseteq harmed'
    BY <2>1, <2>2 DEF Unlink
  <2> QED BY <2>3, Kinds DEF Harm
<1>3. Mapping(o)'
  BY <1>1, <1>2 DEF Mapping
<1>4. loc[o].map = 0 => loc[o].board = NoBoard
  BY CurIs
<1>5. Boards \subseteq harmed' => Bound(o)'
  BY DEF Bound, Good
<1> QED BY <1>1, <1>2, <1>3, <1>4, <1>5 DEF Bound

(* "entry" is made, or filled with zeros: a session that had it is harmed. *)
LEMMA ZeroPlace ==
  ASSUME "zero" \in Windows, TypeInv, PlaceInv, NEW s \in Sessions, Zero(s), NEW o \in Sessions
  PROVE  Mapping(o)' /\ Bound(o)'
<1>0. OthersSame(s) /\ harmed \subseteq harmed' /\ loc \in [Sessions -> Local] /\ pc \in [Sessions -> Stages] /\ loc[s] \in Local
      /\ maps \in Seq([Slots -> Entry]) /\ entry \in 0 .. Len(maps)
  BY OthersStep, HarmGrows DEF Step, TypeInv
<1>1. pc'[s] # "bid" /\ loc'[s].map = entry' /\ loc'[s].board = NoBoard
  <2>1. Mapped(s, entry') /\ pc[s] = "zero"
    BY DEF Zero
  <2>2. loc' = [loc EXCEPT ![s].map = entry', ![s].cur = 0] /\ loc[s].board = NoBoard
    BY <2>1 DEF Mapped, PlaceInv, Placed
  <2> QED BY <1>0, <2>1, <2>2 DEF Mapped, Goto, Local
<1>2. CASE entry = 0
  <2>1. o # s => loc'[o].map = 0 \/ Boards \subseteq harmed'
    BY <1>0, <1>2 DEF PlaceInv, Mapping, OthersSame
  <2>2. o # s => loc'[o].board = NoBoard \/ Boards \subseteq harmed'
    BY <1>0, <1>2, <2>1, CurIs DEF OthersSame
  <2>3. Boards \subseteq harmed' => Bound(o)'
    BY DEF Bound, Good
  <2> QED BY <1>1, <2>1, <2>2, <2>3 DEF Mapping, Bound
<1>3. CASE entry # 0
  <2>1. /\ entry' = entry /\ maps' = [maps EXCEPT ![entry] = ZeroEntry]
        /\ harmed' = harmed \cup Harm("zero", Bids(maps[entry]) \cup {loc[x].cmd.b : x \in Sessions})
    BY <1>3 DEF Zero
  <2>2. Loaded' = ZeroEntry /\ Loaded = maps[entry]
    BY <1>0, <1>3, <2>1 DEF Loaded
  <2>3. Mapping(o)'
    BY <1>0, <1>1, <2>1 DEF PlaceInv, Mapping, OthersSame
  <2>4. \A i \in Slots : Loaded'[i].bid \notin Boards
    BY <2>2, Kinds DEF ZeroEntry
  <2>5. ASSUME o # s, loc[o].board # NoBoard PROVE loc[o].board \in harmed' /\ loc[o].cur \in Slots
    <3>1. loc[o].cur \in Slots /\ loc[o].board \in Boards /\ (Good(loc[o].board) => Loaded[loc[o].cur].bid = loc[o].board)
      BY <2>5, CurIs DEF PlaceInv, Bound
    <3>2. \A i \in Slots : Loaded[i].bid # NoBoard => Loaded[i].bid \in harmed'
      BY <2>1, <2>2 DEF Harm, Bids
    <3>3. CASE loc[o].board \in harmed
      BY <1>0, <3>1, <3>3
    <3>4. CASE loc[o].board \notin harmed
      <4>1. Loaded[loc[o].cur].bid = loc[o].board
        BY <3>1, <3>4 DEF Good
      <4> QED BY <2>5, <3>1, <3>2, <4>1
    <3> QED BY <3>1, <3>3, <3>4
  <2>6. Bound(o)'
    <3>1. CASE o = s
      BY <1>1, <3>1 DEF Bound
    <3>2. CASE o # s
      <4>1. loc'[o] = loc[o]
        BY <1>0, <3>2 DEF OthersSame
      <4> QED BY <2>4, <2>5, <3>2, <4>1 DEF Bound, Good
    <3> QED BY <3>1, <3>2
  <2> QED BY <2>3, <2>6
<1> QED BY <1>2, <1>3

LEMMA LookupPlace ==
  ASSUME "evict" \in Windows, TypeInv, PlaceInv, NEW s \in Sessions, Lookup(s), NEW o \in Sessions
  PROVE  Mapping(o)' /\ Bound(o)'
<1> DEFINE e == Cache(s)
           b == loc[s].cmd.b
           has == {i \in Slots : e[i].bid = b}
<1>0. OthersSame(s) /\ harmed \subseteq harmed' /\ loc \in [Sessions -> Local] /\ pc \in [Sessions -> Stages] /\ loc[s] \in Local
  BY OthersStep, HarmGrows DEF Step, TypeInv
<1>1. maps' = maps /\ entry' = entry /\ pc'[s] # "bid" /\ pc[s] = "lookup"
  BY <1>0 DEF Lookup, Goto
<1>2. \A i \in Slots : Loaded'[i].bid = Loaded[i].bid
  BY <1>1 DEF Loaded
<1>3. /\ loc[s].map # 0 /\ Mapping(s) /\ b \in Boards /\ loc[s].board = NoBoard /\ loc[s].cmd \in Commands
      /\ e \in [Slots -> Entry]
  BY <1>1, OwnIs DEF PlaceInv, Placed, Own, Commands
<1>4. has # {} => Min(has) \in has
  BY Kinds, MinIs
<1> HIDE DEF has, e
<1>5. CASE has # {}
  <2>1. loc' = [loc EXCEPT ![s].cur = Min(has), ![s].board = b]
        /\ harmed' = harmed \cup (IF Min(has) \in Filling(loc[s].map) THEN Harm("evict", {b}) ELSE {})
    BY <1>5 DEF Lookup, has, e
  <2>2. loc'[s].cur = Min(has) /\ loc'[s].board = b /\ loc'[s].map = loc[s].map
    BY <1>0, <2>1 DEF Local
  <2>3. ASSUME ~(Boards \subseteq harmed) PROVE Loaded = e /\ Taken = Filling(loc[s].map)
    <3>1. loc[s].map = entry /\ entry # 0
      BY <1>3, <2>3 DEF Mapping
    <3> QED BY <3>1 DEF Loaded, Taken, e, Cache
  <2>4. Min(has) \in Filling(loc[s].map) => b \in harmed'
    BY <1>3, <2>1, Kinds DEF Harm
  <2>5. Min(has) \in Slots /\ e[Min(has)].bid = b
    BY <1>4, <1>5 DEF has
  <2>6. Taken' \subseteq Taken
    BY <1>0, <1>1, TakenStep
  <2>7. Bound(s)'
    <3>1. CASE Boards \subseteq harmed
      BY <1>0, <3>1 DEF Bound, Good
    <3>2. CASE ~(Boards \subseteq harmed)
      <4>1. Loaded'[Min(has)].bid = b
        BY <1>2, <2>3, <2>5, <3>2
      <4>2. b \notin harmed' => Min(has) \notin Taken'
        BY <2>3, <2>4, <2>6, <3>2
      <4> QED BY <2>2, <4>1, <4>2 DEF Bound, Good
    <3> QED BY <3>1, <3>2
  <2> QED BY <1>0, <1>1, <1>2, <2>2, <2>7, PlainPlace
<1>6. CASE has = {}
  <2>1. loc' = [loc EXCEPT ![s].img = row[b], ![s].slot = Victim(e), ![s].then = "fill"]
    BY <1>6 DEF Lookup, has, e
  <2>2. loc'[s].board = NoBoard /\ loc'[s].map = loc[s].map
    BY <1>0, <1>3, <2>1 DEF Local
  <2> QED BY <1>0, <1>1, <1>2, <2>2, PlainPlace
<1> QED BY <1>5, <1>6

(* The slots keep their boards, but for a session that bids. *)
LEMMA WritesLoaded ==
  ASSUME TypeInv, NEW m, NEW i, NEW x, Writes(m, i, x), entry' = entry
  PROVE  /\ m = entry => Loaded' = [Loaded EXCEPT ![i] = x]
         /\ m # entry => Loaded' = Loaded
         /\ Loaded' \in [Slots -> Entry]
<1>1. Loaded \in [Slots -> Entry] /\ (entry # 0 => entry \in DOMAIN maps /\ Loaded = maps[entry])
  BY LoadedIs
<1>2. m \in DOMAIN maps /\ maps'[m] = [maps[m] EXCEPT ![i] = x] /\ i \in Slots /\ x \in Entry
      /\ \A m2 \in DOMAIN maps \ {m} : maps'[m2] = maps[m2]
  BY DEF Writes
<1>3. m # 0
  BY <1>2 DEF TypeInv
<1>4. m = entry => Loaded' = [Loaded EXCEPT ![i] = x]
  BY <1>1, <1>2, <1>3 DEF Loaded
<1>5. m # entry => Loaded' = Loaded
  BY <1>1, <1>2 DEF Loaded
<1>6. Loaded' \in [Slots -> Entry]
  BY <1>1, <1>2, <1>4, <1>5
<1> QED BY <1>4, <1>5, <1>6

LEMMA BidsKept ==
  ASSUME TypeInv, NEW m, NEW i, NEW x, Writes(m, i, x), entry' = entry, x.bid = maps[m][i].bid
  PROVE  \A j \in Slots : Loaded'[j].bid = Loaded[j].bid
<1>1. Loaded \in [Slots -> Entry] /\ (entry # 0 => entry \in DOMAIN maps /\ Loaded = maps[entry])
  BY LoadedIs
<1>2. i \in Slots /\ m \in DOMAIN maps /\ m # 0
  BY DEF Writes, TypeInv
<1>3. CASE m = entry
  <2>1. Loaded' = [Loaded EXCEPT ![i] = x] /\ Loaded[i].bid = x.bid
    BY <1>1, <1>2, <1>3, WritesLoaded
  <2> QED BY <1>1, <1>2, <2>1
<1>4. CASE m # entry
  BY <1>4, WritesLoaded
<1> QED BY <1>3, <1>4

LEMMA UpdatePlace ==
  ASSUME TypeInv, PlaceInv, NEW s \in Sessions,
         URead(s) \/ UCopy(s) \/ UFlag(s) \/ UWrite(s) \/ UMove(s), NEW o \in Sessions
  PROVE  Mapping(o)' /\ Bound(o)'
<1>0. OthersSame(s) /\ harmed \subseteq harmed' /\ loc \in [Sessions -> Local] /\ pc \in [Sessions -> Stages] /\ loc[s] \in Local
  BY OthersStep, HarmGrows DEF Step, TypeInv
<1>1. entry' = entry
  BY DEF URead, UCopy, UFlag, UWrite, UMove
<1>2. \A i \in Slots : Loaded'[i].bid = Loaded[i].bid
  <2>1. CASE UFlag(s)
    <3> DEFINE x == [Cache(s)[loc[s].k] EXCEPT !.changed = FALSE]
    <3>1. Writes(loc[s].map, loc[s].k, x) /\ Cache(s)[loc[s].k] = maps[loc[s].map][loc[s].k]
      BY <2>1, FlagWrites DEF Cache
    <3>2. maps[loc[s].map][loc[s].k] \in Entry
      BY <3>1 DEF Writes, TypeInv
    <3>3. x.bid = maps[loc[s].map][loc[s].k].bid
      BY <3>1, <3>2 DEF Entry
    <3> HIDE DEF x
    <3> QED BY <1>1, <3>1, <3>3, BidsKept
  <2>2. CASE maps' = maps
    BY <1>1, <2>2 DEF Loaded
  <2> QED BY <2>1, <2>2 DEF URead, UCopy, UWrite, UMove
<1>3. loc'[s].map = loc[s].map /\ loc'[s].board = loc[s].board /\ loc'[s].cur = loc[s].cur
  <2>1. Updated(s) => loc'[s].map = loc[s].map /\ loc'[s].board = loc[s].board /\ loc'[s].cur = loc[s].cur
    BY <1>0 DEF Updated, Local
  <2>2. \A k, d : ToNext(s, k, d) => loc'[s].map = loc[s].map /\ loc'[s].board = loc[s].board /\ loc'[s].cur = loc[s].cur
    BY <1>0 DEF ToNext, Local
  <2>3. CASE UCopy(s)
    BY <1>0, <2>3 DEF UCopy, Local
  <2> QED BY <2>1, <2>2, <2>3 DEF URead, UFlag, UWrite, UMove
<1>4. pc'[s] # "bid"
  <2>1. loc[s].then # "bid"
    BY <1>0 DEF Local
  <2> QED BY <1>0, <2>1 DEF URead, UCopy, UFlag, UWrite, UMove, Updated, ToNext, Goto
<1> QED BY <1>0, <1>1, <1>2, <1>3, <1>4, PlainPlace

(* What a command writes is a list. *)
LEMMA MarkLists ==
  ASSUME TypeInv, PlaceInv, NEW s \in Sessions,
         Look(s) \/ ReadFind(s) \/ ReadSet(s) \/ ReadTo(s) \/ Clear(s) \/ ListNow(s) \/ ListScan(s)
  PROVE  maps' = maps \/ \E x \in Lists : SetList(s, x)
<1> DEFINE l == Cache(s)[loc[s].cur].list
<1>1. pc[s] \in {"op", "set", "scan"} /\ \A b \in Boards : nowid[b] \in Nat
  BY DEF Look, ReadFind, ReadSet, ReadTo, Clear, ListNow, ListScan, TypeInv
<1>2. l \in Lists /\ loc[s].old \in Lists /\ loc[s].cmd.b \in Boards /\ loc[s].cmd.id \in Nat
  BY <1>1, OpType DEF Entry, Local, Own
<1> HIDE DEF l
<1>3. CASE ReadSet(s)
  BY <1>2, <1>3, AddToType DEF ReadSet, l
<1>4. CASE ReadTo(s)
  BY <1>2, <1>4, ClearsType DEF ReadTo, l
<1>5. CASE Clear(s)
  BY <1>1, <1>2, <1>5, ClearsType DEF Clear, l
<1>6. CASE ListScan(s)
  BY <1>1, <1>2, <1>6, ClearsType DEF ListScan, l
<1> QED BY <1>3, <1>4, <1>5, <1>6 DEF Look, ReadFind, ListNow

LEMMA MarkPlace ==
  ASSUME TypeInv, PlaceInv, NEW s \in Sessions,
         Look(s) \/ ReadFind(s) \/ ReadSet(s) \/ ReadTo(s) \/ Clear(s) \/ ListNow(s) \/ ListScan(s),
         NEW o \in Sessions
  PROVE  Mapping(o)' /\ Bound(o)'
<1> DEFINE l == Cache(s)[loc[s].cur].list
<1>0. OthersSame(s) /\ harmed \subseteq harmed' /\ loc \in [Sessions -> Local] /\ pc \in [Sessions -> Stages] /\ loc[s] \in Local
      /\ \A b \in Boards : nowid[b] \in Nat
  BY OthersStep, HarmGrows DEF Step, TypeInv
<1>1. entry' = entry /\ pc[s] \in {"op", "set", "scan"} /\ pc'[s] # "bid"
  BY <1>0 DEF Look, ReadFind, ReadSet, ReadTo, Clear, ListNow, ListScan, Done, Goto
<1>2. l \in Lists /\ loc[s].old \in Lists /\ loc[s].cmd.b \in Boards /\ loc[s].cmd.id \in Nat
      /\ loc[s].board = loc[s].cmd.b
  BY <1>1, OpType DEF Entry, Local, Own
<1> HIDE DEF l
<1>3. maps' = maps \/ \E x \in Lists : SetList(s, x)
  BY MarkLists
<1>4. \A i \in Slots : Loaded'[i].bid = Loaded[i].bid
  <2>1. CASE maps' = maps
    BY <1>1, <2>1 DEF Loaded
  <2>2. ASSUME NEW y \in Lists, SetList(s, y) PROVE \A i \in Slots : Loaded'[i].bid = Loaded[i].bid
    <3> DEFINE x == [Cache(s)[loc[s].cur] EXCEPT !.list = y, !.changed = TRUE]
    <3>1. Writes(loc[s].map, loc[s].cur, x) /\ Cache(s)[loc[s].cur] = maps[loc[s].map][loc[s].cur]
      BY <1>1, <2>2, ListWrites DEF Cache
    <3>2. maps[loc[s].map][loc[s].cur] \in Entry
      BY <3>1 DEF Writes, TypeInv
    <3>3. x.bid = maps[loc[s].map][loc[s].cur].bid
      BY <3>1, <3>2 DEF Entry
    <3> HIDE DEF x
    <3> QED BY <1>1, <3>1, <3>3, BidsKept
  <2> QED BY <1>3, <2>1, <2>2
<1>5. /\ loc'[s].map \in {0, loc[s].map}
      /\ loc'[s].board = NoBoard \/ (loc'[s].board = loc[s].board /\ loc'[s].cur = loc[s].cur)
  <2>1. ASSUME Done(s)
        PROVE  /\ loc'[s].map \in {0, loc[s].map}
               /\ loc'[s].board = NoBoard \/ (loc'[s].board = loc[s].board /\ loc'[s].cur = loc[s].cur)
    <3>1. loc'[s] = Ended(s)
      BY <1>0, <2>1 DEF Done
    <3> QED BY <1>2, <3>1 DEF Ended, Start
  <2>2. CASE ReadFind(s) /\ ~Done(s)
    <3>1. loc' = [loc EXCEPT ![s].old = l]
      BY <2>2 DEF ReadFind, l
    <3> QED BY <1>0, <3>1 DEF Local
  <2>3. CASE ListNow(s) /\ ~Done(s)
    <3>1. loc' = [loc EXCEPT ![s].now = nowid[loc[s].cmd.b], ![s].last = Last(loc[s].cmd.b)]
      BY <2>3 DEF ListNow
    <3> QED BY <1>0, <3>1 DEF Local
  <2> QED BY <2>1, <2>2, <2>3 DEF Look, ReadSet, ReadTo, Clear, ListScan
<1> QED BY <1>0, <1>1, <1>4, <1>5, PlainPlace

(* A slot is filled: a session that has it is harmed. *)
LEMMA UsersIs ==
  ASSUME TypeInv, PlaceInv, NEW s \in Sessions, Fills(s), "evict" \in Windows,
         Harm("evict", Disturbed(s)) \subseteq harmed', ~(Boards \subseteq harmed),
         NEW o \in Sessions \ {s}, loc[o].map = loc[s].map,
         \/ loc[o].cur = loc[s].slot
         \/ pc[o] \in {"fill", "bid"} /\ loc[o].slot = loc[s].slot
  PROVE  {loc[s].cmd.b, Cache(s)[loc[s].slot].bid, loc[o].cmd.b, loc[o].board} \ {NoBoard} \subseteq harmed'
<1>1. o \in Users(s)
  BY DEF Users
<1>2. {loc[s].cmd.b, Cache(s)[loc[s].slot].bid, loc[o].cmd.b, loc[o].board} \subseteq Disturbed(s)
  BY <1>1 DEF Disturbed
<1>3. Harm("evict", Disturbed(s)) = {b \in Disturbed(s) : b # NoBoard}
  BY DEF Harm
<1> QED BY <1>2, <1>3

LEMMA FillPlace ==
  ASSUME "evict" \in Windows, TypeInv, PlaceInv, NEW s \in Sessions, Fill(s), NEW o \in Sessions
  PROVE  Mapping(o)' /\ Bound(o)'
<1> DEFINE x == [Cache(s)[loc[s].slot] EXCEPT !.list = loc[s].img]
<1>0. OthersSame(s) /\ harmed \subseteq harmed' /\ pc \in [Sessions -> Stages]
  BY OthersStep, HarmGrows DEF Step, TypeInv
<1>1. loc' = loc /\ entry' = entry /\ pc[s] = "fill" /\ pc'[s] = "bid"
  BY <1>0 DEF Fill, Goto
<1>2. Fills(s) /\ Placed(s) /\ Harm("evict", Disturbed(s)) \subseteq harmed'
  BY DEF Fills, Fill, PlaceInv
<1>3. \A i \in Slots : Loaded'[i].bid = Loaded[i].bid
  <2>1. Writes(loc[s].map, loc[s].slot, x) /\ Cache(s)[loc[s].slot] = maps[loc[s].map][loc[s].slot]
    BY FillWrites DEF Cache
  <2>2. maps[loc[s].map][loc[s].slot] \in Entry
    BY <2>1 DEF Writes, TypeInv
  <2>3. x.bid = maps[loc[s].map][loc[s].slot].bid
    BY <2>1, <2>2 DEF Entry
  <2> HIDE DEF x
  <2> QED BY <1>1, <2>1, <2>3, BidsKept
<1>4. Mapping(o)'
  BY <1>0, <1>1 DEF PlaceInv, Mapping
<1>5. SUFFICES ASSUME loc[o].board # NoBoard, ~(Boards \subseteq harmed) PROVE Bound(o)'
  BY <1>0, <1>1, <1>4 DEF Bound, Good
<1>6. loc[o].cur \in Slots /\ loc[o].map # 0 /\ loc[o].board \in Boards /\ Bound(o) /\ Mapping(o) /\ Mapping(s)
  BY <1>5, CurIs DEF PlaceInv
<1>7. o # s /\ loc[s].map = entry /\ loc[o].map = entry
  BY <1>1, <1>2, <1>5, <1>6 DEF Mapping, Placed, Fills
<1>8. Taken' \subseteq Taken \cup {loc[s].slot}
  BY <1>0, <1>1, TakenStep
<1>9. loc[o].board \notin harmed' => loc[o].cur \notin Taken'
  <2>1. SUFFICES ASSUME loc[o].board \notin harmed', loc[o].cur \in Taken' PROVE FALSE
    OBVIOUS
  <2>2. loc[o].cur \notin Taken
    BY <1>0, <1>5, <1>6, <2>1 DEF Bound, Good
  <2>3. loc[o].cur = loc[s].slot
    BY <1>8, <2>1, <2>2
  <2> QED BY <1>2, <1>5, <1>7, <2>1, <2>3, UsersIs
<1>10. Loaded'[loc[o].cur].bid = Loaded[loc[o].cur].bid
  BY <1>3, <1>6
<1> QED BY <1>0, <1>1, <1>5, <1>6, <1>9, <1>10 DEF Bound, Good

(* It gets its board: who has it is harmed, the board as well. *)
LEMMA BidPlace ==
  ASSUME "evict" \in Windows, TypeInv, PlaceInv, NEW s \in Sessions, Bid(s), NEW o \in Sessions
  PROVE  Mapping(o)' /\ Bound(o)'
<1> DEFINE i == loc[s].slot
           b == loc[s].cmd.b
           x == [bid |-> b, list |-> Cache(s)[i].list, changed |-> FALSE]
<1>0. OthersSame(s) /\ harmed \subseteq harmed' /\ pc \in [Sessions -> Stages] /\ loc \in [Sessions -> Local] /\ loc[s] \in Local
  BY OthersStep, HarmGrows DEF Step, TypeInv
<1>1. entry' = entry /\ pc[s] = "bid" /\ pc'[s] = "op"
  BY <1>0 DEF Bid, Goto
<1>2. loc'[s].cur = i /\ loc'[s].board = b /\ loc'[s].map = loc[s].map
  <2>1. loc' = [loc EXCEPT ![s].cur = i, ![s].board = b, ![s].slot = 0, ![s].img = NoMarks, ![s].then = "idle"]
    BY DEF Bid
  <2> QED BY <1>0, <2>1 DEF Local
<1>3. Fills(s) /\ Placed(s) /\ Harm("evict", Disturbed(s)) \subseteq harmed'
  BY DEF Fills, Bid, PlaceInv
<1>4. i \in Slots /\ b \in Boards /\ loc[s].map # 0
  BY <1>3, SlotType DEF Placed, Fills
<1>5. Writes(loc[s].map, i, x)
  BY BidWrites
<1>6. x.bid = b
  OBVIOUS
<1> HIDE DEF x
<1>7. Mapping(o)'
  BY <1>0, <1>1, <1>2 DEF PlaceInv, Mapping, OthersSame
<1>8. SUFFICES ASSUME ~(Boards \subseteq harmed) PROVE Bound(o)'
  BY <1>0, <1>7 DEF Bound, Good
<1>9. loc[s].map = entry /\ Loaded \in [Slots -> Entry]
  BY <1>4, <1>8, LoadedIs DEF PlaceInv, Mapping
<1>10. Loaded' = [Loaded EXCEPT ![i] = x]
  BY <1>1, <1>5, <1>9, WritesLoaded
<1>11. Loaded'[i].bid = b /\ \A j \in Slots \ {i} : Loaded'[j] = Loaded[j]
  BY <1>4, <1>6, <1>9, <1>10
<1>12. Taken' \subseteq Taken
  BY <1>0, <1>1, TakenStep
<1>13. CASE o = s
  <2>1. ASSUME i \in Taken' PROVE b \in harmed'
    <3>1. PICK y \in Sessions : pc'[y] = "bid" /\ loc'[y].map = entry /\ loc'[y].slot = i
      BY <1>1, <2>1, TakenIs
    <3>2. y # s
      BY <1>1, <3>1
    <3>3. pc[y] = "bid" /\ loc[y].map = loc[s].map /\ loc[y].slot = i
      BY <1>0, <1>9, <3>1, <3>2 DEF OthersSame
    <3> QED BY <1>3, <1>4, <1>8, <3>2, <3>3, UsersIs, Kinds
  <2> QED BY <1>2, <1>11, <1>13, <2>1 DEF Bound, Good
<1>14. CASE o # s
  <2>1. loc'[o] = loc[o]
    BY <1>0, <1>14 DEF OthersSame
  <2>2. SUFFICES ASSUME loc[o].board # NoBoard PROVE Bound(o)'
    BY <2>1 DEF Bound
  <2>3. loc[o].cur \in Slots /\ loc[o].map # 0 /\ loc[o].board \in Boards /\ Bound(o) /\ Mapping(o)
    BY <2>2, CurIs DEF PlaceInv
  <2>4. loc[o].map = loc[s].map
    BY <1>8, <1>9, <2>3 DEF Mapping
  <2>5. CASE loc[o].cur = i
    <3>1. {b, loc[o].board} \ {NoBoard} \subseteq harmed'
      BY <1>3, <1>8, <1>14, <2>4, <2>5, UsersIs
    <3>2. b \in harmed' /\ loc[o].board \in harmed'
      BY <1>4, <2>2, <3>1, Kinds
    <3> QED BY <1>11, <2>1, <2>5, <3>2 DEF Bound, Good
  <2>6. CASE loc[o].cur # i
    <3>1. Loaded'[loc[o].cur].bid = Loaded[loc[o].cur].bid
      BY <1>11, <2>3, <2>6
    <3> QED BY <1>0, <1>12, <2>1, <2>2, <2>3, <3>1 DEF Bound, Good
  <2> QED BY <2>5, <2>6
<1> QED BY <1>13, <1>14

(* The windows in which a mark may be forgotten. *)
Excepted == {"insert", "evict", "flag", "update", "disk", "zero", "unlink", "purged"} \subseteq Windows

(* A step leaves the slots as they are, writes one, or makes or clears "entry". *)
LEMMA MapsStep ==
  ASSUME TypeInv, PostsInv, PlaceInv, NEW s \in Sessions, Step(s), ~Zero(s)
  PROVE  maps' = maps \/ \E m, i, x : Writes(m, i, x)
<1>1. CASE Fill(s)
  BY <1>1, FillWrites
<1>2. CASE Bid(s)
  BY <1>2, BidWrites
<1>3. CASE UFlag(s)
  BY <1>3, FlagWrites
<1>4. CASE Look(s) \/ ReadFind(s) \/ ReadSet(s) \/ ReadTo(s) \/ Clear(s) \/ ListNow(s) \/ ListScan(s)
  <2>1. maps' = maps \/ \E x \in Lists : SetList(s, x)
    BY <1>4, MarkLists
  <2>2. pc[s] \in {"op", "set", "scan"}
    BY <1>4 DEF Look, ReadFind, ReadSet, ReadTo, Clear, ListNow, ListScan
  <2> QED BY <2>1, <2>2, ListWrites
<1> QED BY <1>1, <1>2, <1>3, <1>4, ZenonT(30)
    DEF Step, Login, CountIn, LogoutStart, Leave, Unlink, Purge, Command, Stat, Lookup, URead, UCopy, UWrite, UMove

LEMMA LenGrows ==
  ASSUME TypeInv, PostsInv, PlaceInv, NEW s \in Sessions, Step(s)
  PROVE  Len(maps) <= Len(maps')
<1>0. maps \in Seq([Slots -> Entry]) /\ entry \in 0 .. Len(maps)
  BY DEF TypeInv
<1>1. Len(maps) \in Nat
  BY <1>0
<1>2. CASE maps' = maps
  BY <1>1, <1>2
<1>3. CASE Zero(s)
  <2>1. maps' = Append(maps, ZeroEntry) \/ (entry # 0 /\ maps' = [maps EXCEPT ![entry] = ZeroEntry])
    BY <1>3 DEF Zero
  <2>2. maps' = Append(maps, ZeroEntry) => Len(maps') = Len(maps) + 1
    BY <1>0, Kinds
  <2>3. entry # 0 /\ maps' = [maps EXCEPT ![entry] = ZeroEntry] => Len(maps') = Len(maps)
    BY <1>0, Kinds
  <2> QED BY <1>1, <2>1, <2>2, <2>3
<1>4. ASSUME NEW m, NEW i, NEW x, Writes(m, i, x) PROVE Len(maps) <= Len(maps')
  <2>1. Len(maps') = Len(maps)
    BY <1>4 DEF Writes
  <2> QED BY <1>1, <2>1
<1> QED BY <1>2, <1>3, <1>4, MapsStep

LEMMA PlaceStep ==
  ASSUME Excepted, TypeInv, TypeInv', PostsInv, PlaceInv, [Next]_vars
  PROVE  PlaceInv'
<1>0. maps \in Seq([Slots -> Entry]) /\ maps' \in Seq([Slots -> Entry])
  BY DEF TypeInv
<1>1. CASE UNCHANGED <<maps, entry, pc, loc, harmed>>
  <2>1. /\ Loaded' = Loaded /\ Taken' = Taken
        /\ \A o \in Sessions : (Placed(o)' <=> Placed(o)) /\ (Mapping(o)' <=> Mapping(o))
    BY <1>1 DEF Loaded, Taken, Filling, Placed, Fills, Mapping
  <2>2. \A b : Good(b)' <=> Good(b)
    BY <1>1 DEF Good
  <2>3. \A o \in Sessions : Bound(o)' <=> Bound(o)
    BY <1>1, <2>1, <2>2 DEF Bound
  <2> QED BY <2>1, <2>3 DEF PlaceInv
<1>2. ASSUME NEW s \in Sessions, Step(s), NEW o \in Sessions PROVE Placed(o)' /\ Mapping(o)' /\ Bound(o)'
  <2>1. Placed(o)'
    <3>1. CASE o = s
      BY <1>2, <3>1, OwnIs, PlacedCome, PlacedMap, PlacedFill, PlacedUpdate, PlacedMark DEF Step
    <3>2. CASE o # s
      <4>1. pc'[o] = pc[o] /\ loc'[o] = loc[o] /\ Placed(o)
        BY <1>2, <3>2, OthersStep DEF OthersSame, PlaceInv
      <4> QED BY <1>0, <1>2, <4>1, LenGrows, PlacedOther
    <3> QED BY <3>1, <3>2
  <2>2. "evict" \in Windows /\ "zero" \in Windows /\ "unlink" \in Windows
    BY DEF Excepted
  <2>3. CASE Login(s) \/ CountIn(s) \/ LogoutStart(s) \/ Leave(s) \/ Purge(s) \/ Stat(s) \/ \E c \in todo[s] : Command(s, c)
    BY <2>1, <2>3, ComePlace
  <2>4. CASE Unlink(s)
    BY <2>1, <2>2, <2>4, UnlinkPlace
  <2>5. CASE Zero(s)
    BY <2>1, <2>2, <2>5, ZeroPlace
  <2>6. CASE Lookup(s) \/ Fill(s) \/ Bid(s)
    BY <2>1, <2>2, <2>6, LookupPlace, FillPlace, BidPlace
  <2>7. CASE URead(s) \/ UCopy(s) \/ UFlag(s) \/ UWrite(s) \/ UMove(s)
    BY <2>1, <2>7, UpdatePlace
  <2>8. CASE Look(s) \/ ReadFind(s) \/ ReadSet(s) \/ ReadTo(s) \/ Clear(s) \/ ListNow(s) \/ ListScan(s)
    BY <2>1, <2>8, MarkPlace
  <2> QED BY <1>2, <2>3, <2>4, <2>5, <2>6, <2>7, <2>8 DEF Step
<1>3. ASSUME NEW b \in Boards, Number(b) \/ Appear(b) PROVE UNCHANGED <<maps, entry, pc, loc, harmed>>
  BY <1>3 DEF Number, Appear
<1> QED BY <1>1, <1>2, <1>3, NextIs DEF PlaceInv, vars
-----------------------------------------------------------------------------
(* What a board outside the windows keeps, at each step.                   *)
KeptAt(b) == Kept(row[b], Loaded, Taken, Copied, Ups(b), nowid[b], seen[b], b)
Typed(b)  == KeptTypes(row[b], Loaded, Taken, Ups(b), nowid[b], seen[b])

LEMMA RowsIs ==
  ASSUME NEW b \in Boards, NEW d \in Rows
  PROVE  d[b] \in Lists /\ d # NoRows
<1>1. DOMAIN d = Boards /\ DOMAIN NoRows = 1 .. 0
  BY DEF Rows, NoRows
<1>2. 1 .. 0 = {}
  OBVIOUS
<1> QED BY <1>1, <1>2 DEF Rows

(* Where the sessions are while there is such a board. *)
LEMMA KeptNow ==
  ASSUME TypeInv, PostsInv, PlaceInv, KeptInv, NEW b \in Boards \ harmed
  PROVE  /\ Typed(b) /\ KeptAt(b) /\ Loaded \in [Slots -> Entry] /\ Taken \subseteq Slots
         /\ \A o \in Sessions : Own(o) /\ loc[o].map \in {0, entry}
         /\ \A o \in Sessions : loc[o].map # 0 => entry # 0 /\ loc[o].map = entry /\ Cache(o) = Loaded
         /\ \A o \in Sessions : pc[o] \in Updates => loc[o].base[b] \in Lists /\ loc[o].data[b] \in Lists /\ loc[o].data # NoRows
<1>1. \A o \in Sessions : Own(o) /\ loc[o].map \in {0, entry}
  BY OwnIs DEF PlaceInv, Mapping
<1>2. \A o \in Sessions : loc[o].map # 0 => entry # 0 /\ loc[o].map = entry /\ Cache(o) = Loaded
  BY <1>1 DEF Cache, Loaded
<1>3. ASSUME NEW o \in Sessions, pc[o] \in Updates
      PROVE  loc[o].base[b] \in Lists /\ loc[o].data[b] \in Lists /\ loc[o].data # NoRows
  <2>1. loc[o].base \in Rows /\ loc[o].data \in Rows
    BY <1>3 DEF PlaceInv, Placed
  <2> QED BY <2>1, RowsIs
<1>4. Loaded \in [Slots -> Entry]
  BY LoadedIs
<1>5. Taken \subseteq Slots
  <2>1. ASSUME NEW o \in Sessions, pc[o] = "bid" PROVE loc[o].slot \in Slots
    BY <2>1, SlotType DEF Fills
  <2> QED BY <2>1, TakenIs
<1>6. Ups(b) \in SUBSET [base : Lists, data : Lists]
  <2>1. ASSUME NEW o \in Sessions, pc[o] \in Updates PROVE Row(o, b) \in [base : Lists, data : Lists]
    BY <1>3, <2>1 DEF Row
  <2> QED BY <2>1, UpsIs
<1>7. row[b] \in Lists /\ nowid[b] \in Nat /\ seen[b] \in SUBSET (1 .. nowid[b])
  BY DEF TypeInv, Rows, PostsInv
<1>8. Typed(b)
  BY <1>4, <1>5, <1>6, <1>7 DEF Typed, KeptTypes
<1>9. KeptAt(b)
  BY DEF KeptInv, KeptAt
<1> QED BY <1>1, <1>2, <1>3, <1>4, <1>5, <1>8, <1>9

LEMMA SetsSame ==
  ASSUME NEW s \in Sessions, OthersSame(s), NEW b, entry' = entry
  PROVE  /\ pc[s] # "bid" /\ pc'[s] # "bid" => Taken' = Taken
         /\ pc[s] # "u_copy" /\ pc'[s] # "u_copy" => Copied' = Copied
         /\ pc[s] \notin Updates /\ pc'[s] \notin Updates => Ups(b)' = Ups(b)
<1>1. pc[s] # "bid" /\ pc'[s] # "bid" => Taken' = Taken
  BY TakenStep
<1>2. pc[s] # "u_copy" /\ pc'[s] # "u_copy" => Copied' = Copied
  BY CopiedStep
<1>3. pc[s] \notin Updates /\ pc'[s] \notin Updates => Ups(b)' = Ups(b)
  BY UpsStep
<1> QED BY <1>1, <1>2, <1>3

(* A step that touches nothing of it. *)
LEMMA KeptPlain ==
  ASSUME NEW s \in Sessions, OthersSame(s), NEW b, KeptAt(b),
         UNCHANGED <<row, maps, entry, nowid, seen>>,
         pc[s] \notin {"bid"} \cup Updates, pc'[s] \notin {"bid"} \cup Updates
  PROVE  KeptAt(b)'
<1>1. Taken' = Taken /\ Copied' = Copied /\ Ups(b)' = Ups(b)
  BY SetsSame DEF Updates
<1>2. Loaded' = Loaded
  BY DEF Loaded
<1> QED BY <1>1, <1>2 DEF KeptAt

LEMMA PlainKept ==
  ASSUME TypeInv, PostsInv, PlaceInv, KeptInv, NEW s \in Sessions, NEW b \in Boards \ harmed',
         \/ Login(s) \/ CountIn(s) \/ LogoutStart(s) \/ Leave(s) \/ Stat(s) \/ \E c \in todo[s] : Command(s, c)
         \/ Lookup(s) \/ Look(s) \/ ListNow(s)
  PROVE  KeptAt(b)'
<1>0. OthersSame(s) /\ b \in Boards \ harmed /\ pc \in [Sessions -> Stages]
  BY OthersStep, HarmGrows DEF Step, TypeInv
<1>1. KeptAt(b)
  BY <1>0, KeptNow
<1>2. UNCHANGED <<row, maps, entry, nowid, seen>>
  BY ZenonT(30) DEF Login, CountIn, LogoutStart, Leave, Stat, Command, Lookup, Look, ListNow, articles, files
<1>3. pc[s] \notin {"bid"} \cup Updates
  BY ZenonT(30) DEF Login, CountIn, LogoutStart, Leave, Stat, Command, Lookup, Look, ListNow, Updates
<1>4. pc'[s] \notin {"bid"} \cup Updates
  BY <1>0, ZenonT(30) DEF Login, CountIn, LogoutStart, Leave, Stat, Command, Lookup, Look, ListNow, Updates, Goto, Mapped, Done
<1> QED BY <1>0, <1>1, <1>2, <1>3, <1>4, KeptPlain

(* Somebody posts: an id is given, which no list can have; the article comes. *)
LEMMA PostKept ==
  ASSUME TypeInv, PostsInv, PlaceInv, KeptInv, NEW x \in Boards, Number(x) \/ Appear(x), NEW b \in Boards \ harmed'
  PROVE  KeptAt(b)'
<1>1. UNCHANGED <<row, maps, entry, pc, loc, seen, harmed>>
  BY DEF Number, Appear, files
<1>2. KeptAt(b) /\ Typed(b)
  BY <1>1, KeptNow
<1>3. Loaded' = Loaded /\ Taken' = Taken /\ Copied' = Copied /\ Ups(b)' = Ups(b)
  BY <1>1 DEF Loaded, Taken, Filling, Copied, Ups
<1>4. nowid'[b] = nowid[b] \/ nowid'[b] = nowid[b] + 1
  BY DEF Number, Appear, TypeInv
<1>5. Kept(row[b], Loaded, Taken, Copied, Ups(b), nowid'[b], seen[b], b)
  BY <1>2, <1>4, KeptNumber DEF KeptAt, Typed
<1> QED BY <1>1, <1>3, <1>5 DEF KeptAt

(* A session dies.  What it was about to write is in the file already, or  *)
(* the board is harmed; so is the board whose slot it was giving away.     *)
LEMMA PurgeKept ==
  ASSUME "purged" \in Windows, TypeInv, PostsInv, PlaceInv, KeptInv, NEW s \in Sessions, Purge(s), NEW b \in Boards \ harmed'
  PROVE  KeptAt(b)'
<1>0. OthersSame(s) /\ b \in Boards \ harmed /\ pc \in [Sessions -> Stages]
  BY OthersStep, HarmGrows DEF Step, TypeInv
<1>1. UNCHANGED <<row, maps, entry, nowid, seen>> /\ Loaded' = Loaded
  BY DEF Purge, articles, files, Loaded
<1>2. pc'[s] = "leave"
  BY <1>0 DEF Purge, Goto
<1>3. KeptAt(b) /\ Taken \subseteq Slots /\ Own(s) /\ (loc[s].map # 0 => Cache(s) = Loaded)
  BY <1>0, KeptNow
<1>4. b \notin Halfway(s)
  BY Kinds DEF Purge, Harm
<1>5. CASE pc[s] \notin {"bid"} \cup Updates
  BY <1>0, <1>1, <1>2, <1>3, <1>5, KeptPlain DEF Updates
<1>6. CASE pc[s] \in Updates
  <2>1. Taken' = Taken /\ Copied' \subseteq Copied
    BY <1>0, <1>1, <1>2, <1>6, SetsSame, CopiedStep DEF Updates
  <2>2. Ups(b) = UpsBut(s, b) \cup {Row(s, b)} /\ Ups(b)' = UpsBut(s, b)
    BY <1>0, <1>2, <1>6, UpsStep DEF Updates
  <2>3. Row(s, b).data = Row(s, b).base
    <3>1. loc[s].data[b] = loc[s].base[b]
      BY <1>4, <1>6 DEF Halfway, Updates
    <3> QED BY <3>1 DEF Row
  <2>4. Kept(row[b], Loaded, Taken, Copied, UpsBut(s, b) \cup {Row(s, b)}, nowid[b], seen[b], b)
    BY <1>3, <2>2 DEF KeptAt
  <2>5. Kept(row[b], Loaded, Taken, Copied', UpsBut(s, b), nowid[b], seen[b], b)
    BY <2>1, <2>3, <2>4, KeptDrop
  <2> QED BY <1>1, <2>1, <2>2, <2>5 DEF KeptAt
<1>7. CASE pc[s] = "bid"
  <2>1. Ups(b)' = Ups(b) /\ Copied' = Copied
    BY <1>0, <1>1, <1>2, <1>7, SetsSame DEF Updates
  <2>2. Taken' \subseteq Taken /\ Taken \subseteq Taken' \cup {loc[s].slot}
    BY <1>0, <1>1, <1>2, <1>7, TakenStep
  <2>3. Loaded[loc[s].slot].bid # b
    <3>1. loc[s].map # 0
      BY <1>3, <1>7 DEF Own, Placed
    <3> QED BY <1>3, <1>4, <1>7, <3>1 DEF Halfway
  <2>4. HasSlot(Loaded, Taken', b) = HasSlot(Loaded, Taken, b)
    BY <2>2, <2>3 DEF HasSlot
  <2>5. \A i \in Taken' : Loaded[i].bid = b => ~Loaded[i].changed /\ i \notin Copied
    BY <1>3, <2>2 DEF KeptAt, Kept
  <2>6. Kept(row[b], Loaded, Taken', Copied, Ups(b), nowid[b], seen[b], b)
    BY <1>3, <2>4, <2>5, KeptFrame DEF KeptAt
  <2> QED BY <1>1, <2>1, <2>6 DEF KeptAt
<1> QED BY <1>5, <1>6, <1>7

(* "entry" is removed while nobody has it, or everything is harmed. *)
LEMMA NobodyMaps ==
  ASSUME "unlink" \in Windows, TypeInv, PostsInv, PlaceInv, KeptInv, NEW s \in Sessions, Unlink(s),
         NEW b \in Boards \ harmed', b \notin harmed
  PROVE  \A o \in Sessions : loc[o].map = 0
<1>1. SUFFICES ASSUME NEW o \in Sessions, loc[o].map # 0 PROVE FALSE
  OBVIOUS
<1>2. loc[o].map = entry
  BY <1>1, KeptNow
<1>3. Harm("unlink", Boards) \subseteq harmed'
  BY <1>1, <1>2 DEF Unlink
<1> QED BY <1>3, Kinds DEF Harm

(* "entry" is removed: nobody has it mapped, and no slot was flagged. *)
LEMMA UnlinkKept ==
  ASSUME "purged" \in Windows, "unlink" \in Windows, TypeInv, PostsInv, PlaceInv, KeptInv, ChangedInv,
         NEW s \in Sessions, Unlink(s), NEW b \in Boards \ harmed'
  PROVE  KeptAt(b)'
<1>0. OthersSame(s) /\ b \in Boards \ harmed /\ pc \in [Sessions -> Stages]
  BY OthersStep, HarmGrows DEF Step, TypeInv
<1>1. UNCHANGED <<row, maps, nowid, seen, loc>> /\ entry' = 0 /\ Loaded' = ZeroEntry /\ Taken' = {}
  BY DEF Unlink, articles, files, Loaded, Taken
<1>2. KeptAt(b) /\ Typed(b)
  BY <1>0, KeptNow
<1>3. \A o \in Sessions : loc[o].map = 0
  BY <1>0, NobodyMaps
<1>4. \A o \in Sessions : pc[o] \notin {"bid"} \cup Updates
  BY <1>0, <1>3, KeptNow DEF Own, Placed
<1>5. Taken = {} /\ Ups(b) = {}
  BY <1>4, TakenIs, UpsIs
<1>6. Ups(b)' = {}
  <2>1. pc'[s] = "over" /\ pc[s] = "unlink"
    BY <1>0 DEF Unlink, Goto
  <2>2. \A o \in Sessions : pc'[o] \notin Updates
    BY <1>0, <1>4, <2>1 DEF OthersSame, Updates
  <2> QED BY <2>2, UpsIs
<1>7. \A i \in Slots : ZeroEntry[i].bid # b
  BY Kinds DEF ZeroEntry
<1>8. ASSUME NEW i \in Slots, Loaded[i].bid = b PROVE ~Loaded[i].changed
  <2>1. SUFFICES ASSUME Loaded[i].changed PROVE FALSE
    OBVIOUS
  <2>2. entry # 0 /\ Loaded = maps[entry]
    BY <1>7, <1>8 DEF Loaded
  <2>3. PICK o \in Sessions : Dead(o) \/ Saves(o, i)
    BY <1>0, <1>8, <2>1 DEF ChangedInv, Good
  <2>4. o \in {x \in Sessions : loc[x].purged} \/ o \in {x \in Sessions : Working(x)}
    BY <2>3 DEF Dead, Saves
  <2>5. \A os : os # {} => b \in Unsaved(os)
    BY <1>8, <2>1, <2>2 DEF Unsaved, Changed
  <2>6. \E w \in {"purged", "unlink"} : \E os : os # {} /\ Harm(w, Unsaved(os)) \subseteq harmed'
    BY <2>4 DEF Unlink
  <2> QED BY <2>5, <2>6, Kinds DEF Harm
<1>9. HasSlot(ZeroEntry, {}, b) = {}
  BY <1>7 DEF HasSlot
<1>10. Kept(row[b], ZeroEntry, {}, Copied', Ups(b), nowid[b], seen[b], b)
  <2>1. \A i \in HasSlot(Loaded, Taken, b) : ~Loaded[i].changed /\ Ups(b) = {}
    BY <1>5, <1>8 DEF HasSlot
  <2> QED BY <1>2, <1>7, <1>9, <2>1, KeptLost DEF KeptAt, Typed
<1> QED BY <1>1, <1>5, <1>6, <1>10 DEF KeptAt

(* It is made, or filled with zeros: the boards that had a slot are harmed. *)
LEMMA ZeroKept ==
  ASSUME "zero" \in Windows, TypeInv, PostsInv, PlaceInv, KeptInv, NEW s \in Sessions, Zero(s), NEW b \in Boards \ harmed'
  PROVE  KeptAt(b)'
<1>0. OthersSame(s) /\ b \in Boards \ harmed /\ pc \in [Sessions -> Stages]
      /\ maps \in Seq([Slots -> Entry]) /\ entry \in 0 .. Len(maps)
  BY OthersStep, HarmGrows DEF Step, TypeInv
<1>1. UNCHANGED <<row, nowid, seen>>
  BY DEF Zero, articles, files
<1>2. KeptAt(b) /\ \A o \in Sessions : Own(o) /\ loc[o].map \in {0, entry}
  BY <1>0, KeptNow
<1>3. pc[s] = "zero" /\ pc'[s] \in {"update", "lookup"}
  BY <1>0 DEF Zero, Mapped, Goto
<1>4. Copied' = Copied /\ Ups(b)' = Ups(b)
  <2>1. Copied' = Copied
    BY <1>0, <1>3, CopiedStep
  <2> QED BY <1>0, <1>3, <2>1, UpsStep DEF Updates
<1>5. \A i \in Slots : ZeroEntry[i].bid # b
  BY Kinds DEF ZeroEntry
<1>6. CASE entry = 0
  <2>1. maps' = Append(maps, ZeroEntry) /\ entry' = Len(maps) + 1
    BY <1>6 DEF Zero
  <2>2. Loaded = ZeroEntry /\ Loaded' = ZeroEntry
    BY <1>0, <1>6, <2>1 DEF Loaded
  <2>3. \A o \in Sessions : pc'[o] # "bid"
    BY <1>0, <1>2, <1>3, <1>6 DEF OthersSame, Own, Placed
  <2>4. Taken = {} /\ Taken' = {}
    BY <1>6, <2>3, TakenIs
  <2> QED BY <1>1, <1>2, <1>4, <2>2, <2>4 DEF KeptAt
<1>7. CASE entry # 0
  <2>1. /\ entry' = entry /\ maps' = [maps EXCEPT ![entry] = ZeroEntry]
        /\ harmed' = harmed \cup Harm("zero", Bids(maps[entry]) \cup {loc[x].cmd.b : x \in Sessions})
    BY <1>7 DEF Zero
  <2>2. Loaded' = ZeroEntry /\ Loaded = maps[entry]
    BY <1>0, <1>7, <2>1 DEF Loaded
  <2>3. Taken' = Taken
    BY <1>0, <1>3, <2>1, TakenStep
  <2>4. \A i \in Slots : Loaded[i].bid # b
    BY <2>1, <2>2, Kinds DEF Harm, Bids
  <2>5. HasSlot(ZeroEntry, Taken, b) = HasSlot(Loaded, Taken, b)
    BY <1>5, <2>4 DEF HasSlot
  <2>6. Taken \subseteq Slots
    BY <1>0, KeptNow
  <2>7. Kept(row[b], ZeroEntry, Taken, Copied, Ups(b), nowid[b], seen[b], b)
    BY <1>2, <1>5, <2>5, <2>6, KeptFrame DEF KeptAt
  <2> QED BY <1>1, <1>4, <2>2, <2>3, <2>7 DEF KeptAt
<1> QED BY <1>6, <1>7

(* A slot is filled: the board that had it is harmed, or has its list in   *)
(* the file.                                                               *)
LEMMA FillKept ==
  ASSUME "evict" \in Windows, "update" \in Windows, TypeInv, PostsInv, PlaceInv, KeptInv, ChangedInv,
         NEW s \in Sessions, Fill(s), NEW b \in Boards \ harmed'
  PROVE  KeptAt(b)'
<1> DEFINE i == loc[s].slot
           e == Cache(s)[i]
           x == [e EXCEPT !.list = loc[s].img]
<1>0. OthersSame(s) /\ b \in Boards \ harmed /\ pc \in [Sessions -> Stages] /\ b # NoBoard
  BY OthersStep, HarmGrows, Kinds DEF Step, TypeInv
<1>1. UNCHANGED <<row, nowid, seen, entry, loc>> /\ pc[s] = "fill"
  BY DEF Fill, articles, files
<1>2. pc'[s] = "bid"
  BY <1>0 DEF Fill, Goto
<1>3. /\ KeptAt(b) /\ Typed(b) /\ Loaded \in [Slots -> Entry] /\ Taken \subseteq Slots /\ Own(s)
      /\ \A o \in Sessions : Own(o) /\ loc[o].map \in {0, entry}
  BY <1>0, KeptNow
<1>4. loc[s].map # 0
  BY <1>1, <1>3 DEF Own, Placed
<1>5. loc[s].map = entry /\ entry # 0 /\ Cache(s) = Loaded
  BY <1>0, <1>4, KeptNow
<1>6. Writes(entry, i, x)
  BY <1>5, FillWrites
<1>7. i \in Slots /\ e = Loaded[i]
  BY <1>5, <1>6 DEF Writes
<1>8. /\ e.changed \/ i \in Copying(loc[s].map) => e.bid # b
      /\ Updating(s) /\ e.bid = b => e.list = row[b]
  <2>1. i \in Copying(loc[s].map) => e.bid # b
    BY <1>0 DEF Fill, Harm
  <2>2. Updating(s) /\ e.bid = b => e.list = row[b]
    BY <1>0 DEF Fill, Harm
  <2>3. Chose(s)
    BY <1>1 DEF Chose
  <2>4. e.changed => e.bid # b
    BY <1>0, <1>7, <2>3 DEF ChangedInv, Good
  <2> QED BY <2>1, <2>2, <2>4
<1>9. x.bid = e.bid /\ x.changed = e.changed
  <2>1. e \in Entry
    BY <1>3, <1>7
  <2> QED BY <2>1 DEF Entry
<1> HIDE DEF e, i, x
<1>10. Loaded' = [Loaded EXCEPT ![i] = x]
  BY <1>1, <1>6, WritesLoaded
<1>11. Loaded'[i] = x /\ \A j \in Slots \ {i} : Loaded'[j] = Loaded[j]
  BY <1>3, <1>7, <1>10
<1>12. Taken \subseteq Taken' /\ Taken' \subseteq Taken \cup {i} /\ i \in Taken'
  <2>1. loc'[s] = loc[s]
    BY <1>1
  <2> QED BY <1>0, <1>1, <1>2, <1>5, <2>1, TakenStep DEF i
<1>13. Copied' = Copied /\ Ups(b)' = Ups(b)
  BY <1>0, <1>1, <1>2, SetsSame DEF Updates
<1>14. i \in Copied => i \in Copying(loc[s].map)
  <2>1. \A o \in Sessions : pc[o] = "u_copy" => loc[o].map = loc[s].map
    BY <1>3, <1>5 DEF Own, Placed, Updates
  <2> QED BY <2>1, CopiedIs DEF Copying
<1>15. CASE e.bid = b
  <2>1. \A j \in Slots : Loaded[j].bid = b => j = i
    BY <1>3, <1>7, <1>15 DEF KeptAt, Kept
  <2>2. \A j \in Slots : Loaded'[j].bid = b => j = i
    BY <1>11, <2>1
  <2>3. HasSlot(Loaded', Taken', b) = {}
    BY <1>12, <2>2 DEF HasSlot
  <2>4. ~x.changed /\ i \notin Copied
    BY <1>8, <1>9, <1>14, <1>15
  <2>5. Ups(b) = {} \/ Loaded[i].list = row[b]
    <3>1. CASE Updating(s)
      BY <1>7, <1>8, <1>15, <3>1
    <3>2. CASE ~Updating(s)
      <4>1. \A o \in Sessions : pc[o] \in Updates => o # s /\ loc[o].data # NoRows
        BY <1>0, <1>1, KeptNow DEF Updates
      <4>2. \A o \in Sessions : pc[o] \notin Updates
        BY <3>2, <4>1 DEF Updating
      <4> QED BY <4>2, UpsIs
    <3> QED BY <3>1, <3>2
  <2>6. \A j \in HasSlot(Loaded, Taken, b) : (~Loaded[j].changed /\ Ups(b) = {}) \/ Loaded[j].list = row[b]
    BY <1>7, <1>9, <2>1, <2>4, <2>5 DEF HasSlot
  <2>7. \A j \in Taken' : Loaded'[j].bid = b => ~Loaded'[j].changed /\ j \notin Copied
    BY <1>3, <1>7, <1>11, <1>12, <2>2, <2>4
  <2>8. \A j \in Slots : Loaded'[j].bid = b => Loaded[j].bid = b
    BY <1>7, <1>15, <2>2
  <2>9. Kept(row[b], Loaded', Taken', Copied, Ups(b), nowid[b], seen[b], b)
    BY <1>3, <2>3, <2>6, <2>7, <2>8, KeptLost DEF KeptAt, Typed
  <2> QED BY <1>1, <1>13, <2>9 DEF KeptAt
<1>16. CASE e.bid # b
  <2>1. \A j \in Slots : Loaded'[j].bid = b => j # i /\ Loaded[j] = Loaded'[j]
    BY <1>9, <1>11, <1>16
  <2>2. HasSlot(Loaded', Taken', b) = HasSlot(Loaded, Taken, b)
    BY <1>7, <1>11, <1>12, <1>16, <2>1 DEF HasSlot
  <2>3. \A j \in Taken' : Loaded'[j].bid = b => ~Loaded'[j].changed /\ j \notin Copied
    <3>1. \A j \in Taken : Loaded[j].bid = b => ~Loaded[j].changed /\ j \notin Copied
      BY <1>3 DEF KeptAt, Kept
    <3> QED BY <1>3, <1>7, <1>12, <2>1, <3>1
  <2>4. Kept(row[b], Loaded', Taken', Copied, Ups(b), nowid[b], seen[b], b)
    BY <1>3, <2>1, <2>2, <2>3, KeptFrame DEF KeptAt
  <2> QED BY <1>1, <1>13, <2>4 DEF KeptAt
<1> QED BY <1>15, <1>16

(* It gets the board of the session: with the row as it still is.          *)
LEMMA BidKept ==
  ASSUME "evict" \in Windows, "update" \in Windows, TypeInv, PostsInv, PlaceInv, KeptInv,
         NEW s \in Sessions, Bid(s), NEW b \in Boards \ harmed'
  PROVE  KeptAt(b)'
<1> DEFINE i == loc[s].slot
           c == loc[s].cmd.b
           e == Cache(s)[i]
           x == [bid |-> c, list |-> e.list, changed |-> FALSE]
<1>0. OthersSame(s) /\ b \in Boards \ harmed /\ pc \in [Sessions -> Stages] /\ b # NoBoard
  BY OthersStep, HarmGrows, Kinds DEF Step, TypeInv
<1>1. UNCHANGED <<row, nowid, seen, entry>> /\ pc[s] = "bid"
  BY DEF Bid, articles, files
<1>2. pc'[s] = "op"
  BY <1>0 DEF Bid, Goto
<1>3. /\ KeptAt(b) /\ Typed(b) /\ Loaded \in [Slots -> Entry] /\ Taken \subseteq Slots /\ Own(s)
      /\ \A o \in Sessions : Own(o) /\ loc[o].map \in {0, entry}
  BY <1>0, KeptNow
<1>4. loc[s].map # 0
  BY <1>1, <1>3 DEF Own, Placed
<1>5. loc[s].map = entry /\ entry # 0 /\ Cache(s) = Loaded
  BY <1>0, <1>4, KeptNow
<1>6. Writes(entry, i, x)
  BY <1>5, BidWrites
<1>7. i \in Slots /\ e = Loaded[i] /\ Fills(s)
  BY <1>1, <1>5, <1>6 DEF Writes, Fills
<1>8. /\ b = c => \A j \in Slots \ {i} : Loaded[j].bid # b
      /\ b = c => e.list = loc[s].img /\ row[b] = loc[s].img
      /\ Harm("evict", Disturbed(s)) \subseteq harmed'
  BY <1>0, <1>5 DEF Bid, Harm
<1>9. x.bid = c /\ x.changed = FALSE /\ x.list = e.list
  OBVIOUS
<1>10. Loaded' = [Loaded EXCEPT ![i] = x]
  <2> HIDE DEF x, e
  <2> QED BY <1>1, <1>6, WritesLoaded
<1>11. Loaded'[i] = x /\ \A j \in Slots \ {i} : Loaded'[j] = Loaded[j]
  <2> HIDE DEF x, e
  <2> QED BY <1>3, <1>7, <1>10
<1>12. Taken' \subseteq Taken /\ Taken \subseteq Taken' \cup {i} /\ i \in Taken
  <2>1. i \in Taken
    BY <1>1, <1>5, TakenIs
  <2> QED BY <1>0, <1>1, <1>2, <2>1, TakenStep
<1>13. Copied' = Copied /\ Ups(b)' = Ups(b)
  BY <1>0, <1>1, <1>2, SetsSame DEF Updates
<1>14. CASE b = c
  <2>1. i \notin Taken'
    <3>1. SUFFICES ASSUME i \in Taken' PROVE FALSE
      OBVIOUS
    <3>2. PICK y \in Sessions : pc'[y] = "bid" /\ loc'[y].map = entry /\ loc'[y].slot = i
      BY <1>1, <3>1, TakenIs
    <3>3. y # s
      BY <1>2, <3>2
    <3>4. pc[y] = "bid" /\ loc[y].map = loc[s].map /\ loc[y].slot = i
      BY <1>0, <1>5, <3>2, <3>3 DEF OthersSame
    <3>5. ~(Boards \subseteq harmed)
      BY <1>0
    <3> QED BY <1>0, <1>7, <1>8, <1>14, <3>3, <3>4, <3>5, UsersIs
  <2>2. x = [bid |-> b, list |-> row[b], changed |-> FALSE]
    BY <1>8, <1>14
  <2>3. Taken' \in SUBSET (Taken \ {i})
    BY <1>12, <2>1
  <2>4. Loaded' = [Loaded EXCEPT ![i] = [bid |-> b, list |-> row[b], changed |-> FALSE]]
    BY <1>10, <2>2
  <2>5. \A j \in Slots \ {i} : Loaded[j].bid # b
    BY <1>8, <1>14
  <2>6. Kept(row[b], Loaded', Taken', Copied, Ups(b), nowid[b], seen[b], b)
    <3> HIDE DEF x, e, c, i
    <3> QED BY <1>3, <1>12, <2>3, <2>4, <2>5, KeptBid DEF KeptAt, Typed
  <2> QED BY <1>1, <1>13, <2>6 DEF KeptAt
<1>15. CASE b # c
  <2> HIDE DEF x, e, c, i
  <2>1. \A j \in Slots : Loaded'[j].bid = b => j # i /\ Loaded[j] = Loaded'[j]
    BY <1>9, <1>11, <1>15
  <2>2. HasSlot(Loaded', Taken', b) = HasSlot(Loaded, Taken, b)
    BY <1>7, <1>11, <1>12, <1>15, <2>1 DEF HasSlot
  <2>3. \A j \in Taken' : Loaded'[j].bid = b => ~Loaded'[j].changed /\ j \notin Copied
    <3>1. \A j \in Taken : Loaded[j].bid = b => ~Loaded[j].changed /\ j \notin Copied
      BY <1>3 DEF KeptAt, Kept
    <3> QED BY <1>3, <1>7, <1>12, <2>1, <3>1
  <2>4. Kept(row[b], Loaded', Taken', Copied, Ups(b), nowid[b], seen[b], b)
    BY <1>3, <2>1, <2>2, <2>3, KeptFrame DEF KeptAt
  <2> QED BY <1>1, <1>13, <2>4 DEF KeptAt
<1> QED BY <1>14, <1>15

(* The next slot to copy is a flagged one. *)
LEMMA NextIsChanged ==
  ASSUME NEW s \in Sessions, Cache(s) \in [Slots -> Entry], NEW k \in Nat
  PROVE  NextChanged(s, k) <= CacheNum => NextChanged(s, k) \in Slots /\ Cache(s)[NextChanged(s, k)].changed
BY NextChangedType DEF NextChanged, Changed

(* A session reads the file. *)
LEMMA UReadKept ==
  ASSUME TypeInv, PostsInv, PlaceInv, KeptInv, NEW s \in Sessions, URead(s), NEW b \in Boards \ harmed'
  PROVE  KeptAt(b)'
<1>0. /\ OthersSame(s) /\ b \in Boards \ harmed /\ pc \in [Sessions -> Stages]
      /\ loc \in [Sessions -> Local] /\ loc[s] \in Local
  BY OthersStep, HarmGrows DEF Step, TypeInv
<1>1. UNCHANGED <<row, maps, nowid, seen, entry>> /\ pc[s] = "update" /\ Loaded' = Loaded
  BY DEF URead, articles, files, Loaded
<1>2. KeptAt(b) /\ Own(s)
  BY <1>0, KeptNow
<1>3. loc[s].map # 0 /\ loc[s].then \in {"fill", "leave"}
  BY <1>0, <1>1, <1>2 DEF Own, Placed, Local
<1>4. Cache(s) = Loaded /\ Cache(s) \in [Slots -> Entry]
  BY <1>0, <1>3, KeptNow
<1>5. CASE Changed(Cache(s)) = {}
  <2>1. pc'[s] = loc[s].then
    BY <1>0, <1>5 DEF URead, Updated, Goto
  <2> QED BY <1>0, <1>1, <1>2, <1>3, <2>1, KeptPlain DEF Updates
<1>6. CASE Changed(Cache(s)) # {}
  <2> DEFINE n == NextChanged(s, 0)
  <2>1. loc' = [loc EXCEPT ![s].k = n, ![s].base = row, ![s].data = row]
        /\ Goto(s, IF n > CacheNum THEN "u_write" ELSE "u_copy")
    BY <1>6 DEF URead, ToNext
  <2>2. loc'[s].k = n /\ loc'[s].base = row /\ loc'[s].data = row
    BY <1>0, <2>1 DEF Local
  <2>3. pc'[s] = "u_write" \/ (pc'[s] = "u_copy" /\ ~(n > CacheNum))
    BY <1>0, <2>1 DEF Goto
  <2>4. n \in 1 .. CacheNum + 1 /\ (n <= CacheNum => Loaded[n].changed)
    BY <1>4, NextIsChanged, NextChangedType DEF NextChanged
  <2> HIDE DEF n
  <2>5. Taken' = Taken
    BY <1>0, <1>1, <2>3, SetsSame
  <2>6. Row(s, b)' = [base |-> row[b], data |-> row[b]]
    BY <2>2 DEF Row
  <2>7. Ups(b)' = Ups(b) \cup {[base |-> row[b], data |-> row[b]]}
    BY <1>0, <1>1, <2>3, <2>6, UpsStep DEF Updates
  <2>8. \A i \in Copied' : i \in Copied \/ Loaded[i].changed
    <3>1. ~(n > CacheNum) => n <= CacheNum
      BY <2>4, Kinds
    <3> QED BY <1>0, <2>2, <2>3, <2>4, <3>1, CopiedStep
  <2>9. \A i \in Taken : Loaded[i].bid = b => i \notin Copied'
    BY <1>2, <2>8 DEF KeptAt, Kept
  <2>10. Kept(row[b], Loaded, Taken, Copied', Ups(b) \cup {[base |-> row[b], data |-> row[b]]}, nowid[b], seen[b], b)
    BY <1>2, <2>9, KeptRead DEF KeptAt
  <2> QED BY <1>1, <2>5, <2>7, <2>10 DEF KeptAt
<1> QED BY <1>5, <1>6

(* It copies a slot: that of the board, or of another. *)
LEMMA UCopyKept ==
  ASSUME TypeInv, PostsInv, PlaceInv, KeptInv, NEW s \in Sessions, UCopy(s), NEW b \in Boards \ harmed'
  PROVE  KeptAt(b)'
<1> DEFINE k == loc[s].k
<1>0. /\ OthersSame(s) /\ b \in Boards \ harmed /\ pc \in [Sessions -> Stages]
      /\ loc \in [Sessions -> Local] /\ loc[s] \in Local
  BY OthersStep, HarmGrows DEF Step, TypeInv
<1>1. UNCHANGED <<row, maps, nowid, seen, entry>> /\ pc[s] = "u_copy" /\ Loaded' = Loaded
  BY DEF UCopy, articles, files, Loaded
<1>2. KeptAt(b) /\ Own(s) /\ Typed(b)
  BY <1>0, KeptNow
<1>3. loc[s].map # 0 /\ k \in Slots
  BY <1>1, <1>2 DEF Own, Placed, Updates
<1>4. Cache(s) = Loaded
  BY <1>0, <1>3, KeptNow
<1>5. pc'[s] = "u_flag"
  BY <1>0 DEF UCopy, Goto
<1>6. loc'[s].base = loc[s].base
      /\ loc'[s].data[b] = IF Loaded[k].bid = b THEN Loaded[k].list ELSE loc[s].data[b]
  <2>1. loc' = [loc EXCEPT ![s].data = [y \in Boards |-> IF y = Loaded[k].bid THEN Loaded[k].list ELSE @[y]]]
    BY <1>4 DEF UCopy
  <2>2. loc'[s].data = [y \in Boards |-> IF y = Loaded[k].bid THEN Loaded[k].list ELSE loc[s].data[y]]
        /\ loc'[s].base = loc[s].base
    BY <1>0, <2>1 DEF Local
  <2> QED BY <1>0, <2>2
<1>7. Taken' = Taken /\ Copied' \in SUBSET Copied /\ k \in Copied
  <2>1. k \in Copied
    BY <1>1, CopiedIs
  <2>2. Taken' = Taken
    BY <1>0, <1>1, <1>5, SetsSame
  <2> QED BY <1>0, <1>5, <2>1, <2>2, CopiedStep
<1>8. Ups(b) = UpsBut(s, b) \cup {Row(s, b)} /\ Ups(b)' = UpsBut(s, b) \cup {Row(s, b)'}
  BY <1>0, <1>1, <1>5, UpsStep DEF Updates
<1> HIDE DEF k
<1>9. CASE Loaded[k].bid = b
  <2>1. k \in HasSlot(Loaded, Taken, b)
    BY <1>2, <1>3, <1>7, <1>9 DEF KeptAt, Kept, HasSlot
  <2>2. Row(s, b)'.base = Row(s, b).base /\ Row(s, b)'.data = Loaded[k].list
    BY <1>6, <1>9 DEF Row
  <2> DEFINE u  == Row(s, b)
             u2 == Row(s, b)'
             us == UpsBut(s, b)
  <2>3. Kept(row[b], Loaded, Taken, Copied, us \cup {u}, nowid[b], seen[b], b)
    BY <1>2, <1>8 DEF KeptAt
  <2>4. u2.base = u.base /\ u2.data = Loaded[k].list
    BY <2>2
  <2>5. Kept(row[b], Loaded, Taken, Copied', us \cup {u2}, nowid[b], seen[b], b)
    <3> HIDE DEF u, u2, us
    <3> QED BY <1>7, <2>1, <2>3, <2>4, KeptCopy
  <2> QED BY <1>1, <1>7, <1>8, <2>5 DEF KeptAt
<1>10. CASE Loaded[k].bid # b
  <2>1. Row(s, b)' = Row(s, b)
    BY <1>6, <1>10 DEF Row
  <2>2. \A i \in Taken : Loaded[i].bid = b => ~Loaded[i].changed /\ i \notin Copied'
    BY <1>2, <1>7 DEF KeptAt, Kept
  <2>3. Kept(row[b], Loaded, Taken, Copied', Ups(b), nowid[b], seen[b], b)
    BY <1>2, <2>2, KeptFrame DEF KeptAt
  <2> QED BY <1>1, <1>7, <1>8, <2>1, <2>3 DEF KeptAt
<1> QED BY <1>9, <1>10

(* It clears the flag of the slot, after it has copied what is there. *)
LEMMA UFlagKept ==
  ASSUME "flag" \in Windows, TypeInv, PostsInv, PlaceInv, KeptInv, NEW s \in Sessions, UFlag(s), NEW b \in Boards \ harmed'
  PROVE  KeptAt(b)'
<1> DEFINE k == loc[s].k
           e == Cache(s)[k]
           x == [e EXCEPT !.changed = FALSE]
           n == NextChanged(s, k)
<1>0. /\ OthersSame(s) /\ b \in Boards \ harmed /\ pc \in [Sessions -> Stages] /\ b # NoBoard
      /\ loc \in [Sessions -> Local] /\ loc[s] \in Local
  BY OthersStep, HarmGrows, Kinds DEF Step, TypeInv
<1>1. UNCHANGED <<row, nowid, seen, entry>> /\ pc[s] = "u_flag"
  BY DEF UFlag, articles, files
<1>2. KeptAt(b) /\ Own(s) /\ Typed(b) /\ Loaded \in [Slots -> Entry]
  BY <1>0, KeptNow
<1>3. loc[s].map # 0 /\ k \in Slots
  BY <1>1, <1>2 DEF Own, Placed, Updates
<1>4. Cache(s) = Loaded /\ loc[s].map = entry
  BY <1>0, <1>3, KeptNow
<1>5. /\ loc' = [loc EXCEPT ![s].k = n, ![s].base = IF k = 0 THEN row ELSE @, ![s].data = loc[s].data]
      /\ Goto(s, IF n > CacheNum THEN "u_write" ELSE "u_copy")
  BY DEF UFlag, ToNext
<1>6. loc'[s].k = n /\ loc'[s].base = loc[s].base /\ loc'[s].data = loc[s].data
  <2>1. k # 0
    BY <1>3, BoardsAssumption DEF Slots
  <2>2. loc'[s] = [loc[s] EXCEPT !.k = n, !.base = loc[s].base, !.data = loc[s].data]
    BY <1>0, <1>5, <2>1
  <2> QED BY <1>0, <2>2 DEF Local
<1>7. pc'[s] = "u_write" \/ (pc'[s] = "u_copy" /\ ~(n > CacheNum))
  BY <1>0, <1>5 DEF Goto
<1>8. n \in 1 .. CacheNum + 1 /\ (n <= CacheNum => Loaded[n].changed)
  BY <1>2, <1>3, <1>4, Kinds, NextIsChanged, NextChangedType DEF NextChanged
<1>9. Writes(entry, k, x) /\ e = Loaded[k]
  BY <1>4, FlagWrites
<1>10. e.bid = b => loc[s].data[b] = e.list
  BY <1>0 DEF UFlag, Harm
<1> HIDE DEF n, x, k
<1>11. Loaded' = [Loaded EXCEPT ![k] = x]
  BY <1>1, <1>9, WritesLoaded
<1>12. x.bid = Loaded[k].bid /\ x.list = Loaded[k].list /\ x.changed = FALSE
  <2>1. Loaded[k] \in Entry /\ x = [Loaded[k] EXCEPT !.changed = FALSE]
    BY <1>2, <1>3, <1>9 DEF x
  <2> QED BY <2>1 DEF Entry
<1>13. Taken' = Taken
  BY <1>0, <1>1, <1>7, SetsSame
<1>14. Row(s, b)' = Row(s, b)
  BY <1>6 DEF Row
<1>15. Ups(b)' = Ups(b) /\ Row(s, b) \in Ups(b)
  BY <1>0, <1>1, <1>7, <1>14, UpsStep DEF Updates
<1>16. \A i \in Copied' : i \in Copied \/ Loaded[i].changed
  <2>1. ~(n > CacheNum) => n <= CacheNum
    BY <1>8, Kinds
  <2> QED BY <1>0, <1>6, <1>7, <1>8, <2>1, CopiedStep
<1>17. \A i \in Taken : Loaded[i].bid = b => i \notin Copied'
  BY <1>2, <1>16 DEF KeptAt, Kept
<1>18. Loaded[k].bid = b => Row(s, b).data = Loaded[k].list
  BY <1>9, <1>10 DEF Row
<1>19. Kept(row[b], Loaded', Taken, Copied', Ups(b), nowid[b], seen[b], b)
  <2> DEFINE u == Row(s, b)
  <2>1. u \in Ups(b) /\ (Loaded[k].bid = b => u.data = Loaded[k].list)
    BY <1>15, <1>18
  <2> HIDE DEF u
  <2>2. KeptTypes(row[b], Loaded, Taken, Ups(b), nowid[b], seen[b])
        /\ Kept(row[b], Loaded, Taken, Copied, Ups(b), nowid[b], seen[b], b)
    BY <1>2 DEF KeptAt, Typed
  <2> QED BY <1>3, <1>11, <1>12, <1>17, <2>1, <2>2, KeptFlag
<1> QED BY <1>1, <1>13, <1>15, <1>19 DEF KeptAt

(* It writes the temporary file, or the disk is full. *)
LEMMA UWriteKept ==
  ASSUME "disk" \in Windows, TypeInv, PostsInv, PlaceInv, KeptInv, NEW s \in Sessions, UWrite(s), NEW b \in Boards \ harmed'
  PROVE  KeptAt(b)'
<1>0. /\ OthersSame(s) /\ b \in Boards \ harmed /\ pc \in [Sessions -> Stages] /\ b # NoBoard
      /\ loc \in [Sessions -> Local] /\ loc[s] \in Local
  BY OthersStep, HarmGrows, Kinds DEF Step, TypeInv
<1>1. UNCHANGED <<row, maps, nowid, seen, entry>> /\ pc[s] = "u_write" /\ Loaded' = Loaded
  BY DEF UWrite, articles, Loaded
<1>2. KeptAt(b) /\ Own(s)
  BY <1>0, KeptNow
<1>3. loc[s].then \in {"fill", "leave"}
  BY <1>0, <1>1, <1>2 DEF Own, Placed, Local, Updates
<1>4. CASE pc' = [pc EXCEPT ![s] = "u_move"] /\ loc' = loc
  <2>1. pc'[s] = "u_move" /\ Row(s, b)' = Row(s, b)
    BY <1>0, <1>4 DEF Row
  <2>2. Taken' = Taken /\ Copied' = Copied
    BY <1>0, <1>1, <2>1, SetsSame
  <2>3. Ups(b)' = Ups(b)
    BY <1>0, <1>1, <2>1, UpsStep DEF Updates
  <2> QED BY <1>1, <1>2, <2>2, <2>3 DEF KeptAt
<1>5. CASE Updated(s) /\ harmed' = harmed \cup Harm("disk", {y \in Boards : loc[s].data[y] # row[y]})
  <2>1. pc'[s] = loc[s].then
    BY <1>0, <1>5 DEF Updated, Goto
  <2>2. Taken' = Taken /\ Copied' = Copied
    BY <1>0, <1>1, <1>3, <2>1, SetsSame
  <2>3. Ups(b) = UpsBut(s, b) \cup {Row(s, b)} /\ Ups(b)' = UpsBut(s, b)
    BY <1>0, <1>1, <1>3, <2>1, UpsStep DEF Updates
  <2>4. Row(s, b).data = row[b]
    BY <1>0, <1>5 DEF Row, Harm
  <2> DEFINE u  == Row(s, b)
             us == UpsBut(s, b)
  <2>5. Kept(row[b], Loaded, Taken, Copied, us \cup {u}, nowid[b], seen[b], b) /\ u.data = row[b]
    BY <1>2, <2>3, <2>4 DEF KeptAt
  <2>6. Kept(row[b], Loaded, Taken, Copied, us, nowid[b], seen[b], b)
    <3> HIDE DEF u, us
    <3> QED BY <2>5, KeptDrop
  <2> QED BY <1>1, <2>2, <2>3, <2>6 DEF KeptAt
<1> QED BY <1>4, <1>5 DEF UWrite, Goto

(* It moves the temporary file over the file. *)
LEMMA UMoveKept ==
  ASSUME "update" \in Windows, TypeInv, PostsInv, PlaceInv, KeptInv, NEW s \in Sessions, UMove(s), NEW b \in Boards \ harmed'
  PROVE  KeptAt(b)'
<1>0. /\ OthersSame(s) /\ b \in Boards \ harmed /\ pc \in [Sessions -> Stages] /\ b # NoBoard
      /\ loc \in [Sessions -> Local] /\ loc[s] \in Local
  BY OthersStep, HarmGrows, Kinds DEF Step, TypeInv
<1>1. UNCHANGED <<maps, nowid, seen, entry>> /\ pc[s] = "u_move" /\ Loaded' = Loaded
  BY DEF UMove, articles, Loaded
<1>2. KeptAt(b) /\ Own(s) /\ Typed(b)
  BY <1>0, KeptNow
<1>3. pc'[s] \in {"fill", "leave"}
  <2>1. loc[s].then \in {"fill", "leave"}
    BY <1>0, <1>1, <1>2 DEF Own, Placed, Local, Updates
  <2> QED BY <1>0, <2>1 DEF UMove, Updated, Goto
<1>4. loc[s].base[b] = row[b] /\ loc[s].data[b] = row'[b]
  BY <1>0 DEF UMove, Harm
<1>5. Taken' = Taken /\ Copied' = Copied
  BY <1>0, <1>1, <1>3, SetsSame
<1>6. Ups(b) = UpsBut(s, b) \cup {Row(s, b)} /\ Ups(b)' = UpsBut(s, b)
  BY <1>0, <1>1, <1>3, UpsStep DEF Updates
<1> DEFINE u  == Row(s, b)
           us == UpsBut(s, b)
           r2 == row'[b]
<1>7. u.base = row[b] /\ u.data = r2
  BY <1>4 DEF Row
<1>8. Kept(row[b], Loaded, Taken, Copied, us \cup {u}, nowid[b], seen[b], b)
  BY <1>2, <1>6 DEF KeptAt
<1>9. KeptTypes(row[b], Loaded, Taken, us, nowid[b], seen[b])
  BY <1>2, <1>6 DEF Typed, KeptTypes
<1>10. Kept(r2, Loaded, Taken, Copied, us, nowid[b], seen[b], b)
  <2> HIDE DEF u, us, r2
  <2> QED BY <1>7, <1>8, <1>9, KeptMove
<1> QED BY <1>1, <1>5, <1>6, <1>10 DEF KeptAt

(* The slot of a session is that of its board, and of no other. *)
LEMMA CurHas ==
  ASSUME TypeInv, PostsInv, PlaceInv, KeptInv, NEW s \in Sessions, pc[s] \in {"op", "set", "scan"},
         NEW b \in Boards \ harmed
  PROVE  /\ Cache(s) = Loaded /\ loc[s].map = entry /\ loc[s].cur \in Slots /\ Loaded[loc[s].cur] \in Entry
         /\ loc[s].cmd.b \in Boards /\ loc[s].cmd.id \in Nat
         /\ loc[s].cmd.b = b => loc[s].cur \in HasSlot(Loaded, Taken, b) /\ Valid(s)
         /\ loc[s].cmd.b # b => Loaded[loc[s].cur].bid # b
<1>1. /\ Own(s) /\ loc[s].cmd.b \in Boards /\ loc[s].cmd.id \in Nat
      /\ loc[s].board = loc[s].cmd.b /\ loc[s].cur \in Slots /\ Cache(s)[loc[s].cur] \in Entry
  BY OpType
<1>2. loc[s].map # 0
  BY <1>1 DEF Own, Placed
<1>3. Cache(s) = Loaded /\ loc[s].map = entry
  BY <1>2, KeptNow
<1>4. loc[s].board # NoBoard /\ Bound(s) /\ loc[s].cur # 0
  BY <1>1, BoardsAssumption DEF PlaceInv, Slots
<1>5. CASE loc[s].cmd.b = b
  <2>1. Loaded[loc[s].cur].bid = b /\ loc[s].cur \notin Taken
    BY <1>1, <1>4, <1>5 DEF Bound, Good
  <2> QED BY <1>1, <1>3, <1>4, <1>5, <2>1 DEF HasSlot, Valid
<1>6. CASE loc[s].cmd.b # b
  <2>1. Loaded[loc[s].cur].bid # b
    BY <1>1, <1>4, <1>6 DEF Bound, Good
  <2> QED BY <1>1, <1>3, <1>6, <2>1
<1> QED BY <1>5, <1>6

(* A command that leaves the slots alone, and what its board has read. *)
LEMMA SeeKept ==
  ASSUME TypeInv, PostsInv, PlaceInv, KeptInv, NEW s \in Sessions, OthersSame(s), NEW b \in Boards \ harmed,
         pc[s] \in {"op", "set", "scan"}, pc'[s] \in {"idle", "set", "scan"}, UNCHANGED <<row, maps, entry, nowid>>,
         seen'[b] = seen[b] \/ (loc[s].cmd.b = b /\ Remembers(Loaded[loc[s].cur].list, seen'[b]))
  PROVE  KeptAt(b)'
<1>1. Taken' = Taken /\ Copied' = Copied /\ Ups(b)' = Ups(b) /\ Loaded' = Loaded
  BY SetsSame DEF Updates, Loaded
<1>2. KeptAt(b)
  BY KeptNow
<1>3. CASE seen'[b] = seen[b]
  BY <1>1, <1>2, <1>3 DEF KeptAt
<1>4. CASE loc[s].cmd.b = b /\ Remembers(Loaded[loc[s].cur].list, seen'[b])
  <2>1. loc[s].cur \in HasSlot(Loaded, Taken, b)
    BY <1>4, CurHas
  <2> DEFINE i   == loc[s].cur
             fs2 == seen'[b]
  <2>2. i \in HasSlot(Loaded, Taken, b) /\ Remembers(Loaded[i].list, fs2)
    BY <1>4, <2>1
  <2>3. Kept(row[b], Loaded, Taken, Copied, Ups(b), nowid[b], seen[b], b)
    BY <1>2 DEF KeptAt
  <2>4. Kept(row[b], Loaded, Taken, Copied, Ups(b), nowid[b], fs2, b)
    <3> HIDE DEF i, fs2
    <3> QED BY <2>2, <2>3, KeptSeen
  <2> QED BY <1>1, <2>4 DEF KeptAt
<1> QED BY <1>3, <1>4

(* A command that writes a list: for its board, one that has more as read. *)
LEMMA SetKept ==
  ASSUME TypeInv, PostsInv, PlaceInv, KeptInv, NEW s \in Sessions, OthersSame(s), NEW b \in Boards \ harmed,
         pc[s] \in {"op", "set", "scan"}, pc'[s] = "idle", UNCHANGED <<row, entry, nowid>>,
         NEW y \in Lists, SetList(s, y),
         loc[s].cmd.b # b => seen'[b] = seen[b],
         loc[s].cmd.b = b => /\ Fit(y, nowid[b]) /\ Within(Loaded[loc[s].cur].list, y, nowid[b])
                             /\ Remembers(y, seen'[b])
  PROVE  KeptAt(b)'
<1> DEFINE i == loc[s].cur
           x == [Loaded[i] EXCEPT !.list = y, !.changed = TRUE]
<1>1. Taken' = Taken /\ Copied' = Copied /\ Ups(b)' = Ups(b)
  BY SetsSame DEF Updates
<1>2. KeptAt(b) /\ Typed(b) /\ Loaded \in [Slots -> Entry] /\ Taken \subseteq Slots
  BY KeptNow
<1>3. Cache(s) = Loaded /\ loc[s].map = entry /\ i \in Slots /\ Loaded[i] \in Entry
  BY CurHas
<1>4. Writes(entry, i, x)
  BY <1>3, ListWrites
<1>5. x.bid = Loaded[i].bid /\ x.list = y /\ x.changed = TRUE
  BY <1>3 DEF Entry
<1> HIDE DEF x, i
<1>6. Loaded' = [Loaded EXCEPT ![i] = x]
  BY <1>4, WritesLoaded
<1>7. CASE loc[s].cmd.b = b
  <2> DEFINE fs2 == seen'[b]
  <2>1. i \in HasSlot(Loaded, Taken, b)
    BY <1>7, CurHas DEF i
  <2>2. KeptTypes(row[b], Loaded, Taken, Ups(b), nowid[b], seen[b])
        /\ Kept(row[b], Loaded, Taken, Copied, Ups(b), nowid[b], seen[b], b)
    BY <1>2 DEF KeptAt, Typed
  <2>3. Fit(y, nowid[b]) /\ Within(Loaded[i].list, y, nowid[b]) /\ Remembers(y, fs2)
    BY <1>7 DEF i
  <2>4. Kept(row[b], Loaded', Taken, Copied, Ups(b), nowid[b], fs2, b)
    <3> HIDE DEF fs2
    <3> QED BY <1>5, <1>6, <2>1, <2>2, <2>3, KeptMark
  <2> QED BY <1>1, <2>4 DEF KeptAt
<1>8. CASE loc[s].cmd.b # b
  <2>1. Loaded[i].bid # b
    BY <1>8, CurHas DEF i
  <2>2. Loaded'[i] = x /\ \A j \in Slots \ {i} : Loaded'[j] = Loaded[j]
    BY <1>2, <1>3, <1>6
  <2>3. \A j \in Slots : Loaded'[j].bid = b => j # i /\ Loaded[j] = Loaded'[j]
    BY <1>5, <2>1, <2>2
  <2>4. HasSlot(Loaded', Taken, b) = HasSlot(Loaded, Taken, b)
    BY <2>1, <2>2, <2>3 DEF HasSlot
  <2>5. \A j \in Taken : Loaded'[j].bid = b => ~Loaded'[j].changed /\ j \notin Copied
    <3>1. \A j \in Taken : Loaded[j].bid = b => ~Loaded[j].changed /\ j \notin Copied
      BY <1>2 DEF KeptAt, Kept
    <3> QED BY <1>2, <2>3, <3>1
  <2>6. Kept(row[b], Loaded', Taken, Copied, Ups(b), nowid[b], seen[b], b)
    BY <1>2, <2>3, <2>4, <2>5, KeptFrame DEF KeptAt
  <2> QED BY <1>1, <1>8, <2>6 DEF KeptAt
<1> QED BY <1>7, <1>8

(* What the session has of its board. *)
LEMMA CurKept ==
  ASSUME TypeInv, PostsInv, PlaceInv, KeptInv, NEW s \in Sessions, pc[s] \in {"op", "set", "scan"},
         NEW b \in Boards \ harmed, loc[s].cmd.b = b
  PROVE  /\ Loaded[loc[s].cur].list \in Lists /\ Fit(Loaded[loc[s].cur].list, nowid[b])
         /\ Remembers(Loaded[loc[s].cur].list, seen[b])
         /\ nowid[b] \in Nat /\ posts[b] \subseteq 1 .. nowid[b] /\ seen[b] \subseteq 1 .. nowid[b]
         /\ loc[s].cmd.op \in {"read", "to"} => loc[s].cmd.id \in 1 .. nowid[b]
<1>1. loc[s].cur \in HasSlot(Loaded, Taken, b) /\ Loaded[loc[s].cur] \in Entry /\ KeptAt(b)
  BY CurHas, KeptNow
<1>2. SlotRight(row[b], Loaded, loc[s].cur, Ups(b), nowid[b], seen[b])
  BY <1>1 DEF KeptAt, Kept
<1>3. nowid[b] \in Nat /\ posts[b] \subseteq 1 .. nowid[b] /\ seen[b] \subseteq 1 .. nowid[b]
      /\ (loc[s].cmd.op \in {"read", "to"} => loc[s].cmd.id \in posts[b])
  BY DEF TypeInv, PostsInv
<1>4. Loaded[loc[s].cur].list \in Lists
  BY <1>1 DEF Entry
<1> QED BY <1>2, <1>3, <1>4 DEF SlotRight

(* An article is read: it is in the list already, or is put there. *)
LEMMA AddKeeps ==
  ASSUME NEW l \in Lists, NEW n \in Nat, NEW f \in 1 .. n, NEW fs \in SUBSET (1 .. n), Fit(l, n), Remembers(l, fs)
  PROVE  /\ AddRead(l, f) \in Lists /\ Fit(AddRead(l, f), n) /\ Within(l, AddRead(l, f), n)
         /\ Remembers(AddRead(l, f), fs \cup {f})
<1>1. AddRead(l, f) \in Lists
  BY AddToType DEF AddRead
<1>2. \A g \in 1 .. n : ~Unread(l, g) => ~Unread(AddRead(l, f), g)
  BY ReadStaysRead
<1>3. ~Unread(AddRead(l, f), f)
  BY AddedIsRead
<1>4. Fit(AddRead(l, f), n)
  BY FitKept
<1> QED BY <1>1, <1>2, <1>3, <1>4 DEF Within, Remembers

LEMMA ReadKept ==
  ASSUME "insert" \in Windows, TypeInv, PostsInv, PlaceInv, KeptInv, NEW s \in Sessions, ReadFind(s) \/ ReadSet(s),
         NEW b \in Boards \ harmed'
  PROVE  KeptAt(b)'
<1> DEFINE l == Loaded[loc[s].cur].list
           f == loc[s].cmd.id
<1>0. OthersSame(s) /\ b \in Boards \ harmed /\ pc \in [Sessions -> Stages] /\ b # NoBoard /\ seen \in [Boards -> SUBSET Nat]
  BY OthersStep, HarmGrows, Kinds DEF Step, TypeInv
<1>1. /\ UNCHANGED <<row, entry, nowid>> /\ pc[s] \in {"op", "set", "scan"} /\ pc'[s] \in {"idle", "set"}
      /\ loc[s].cmd.op \in {"read", "to"}
  <2>1. UNCHANGED <<row, entry, nowid>> /\ pc[s] \in {"op", "set", "scan"}
    BY DEF ReadFind, ReadSet, articles, files
  <2>2. pc'[s] \in {"idle", "set"}
    BY <1>0 DEF ReadFind, ReadSet, Done, Goto
  <2>3. loc[s].cmd.op = "read"
    BY DEF ReadFind, ReadSet, PlaceInv, Placed
  <2> QED BY <2>1, <2>2, <2>3
<1>2. Cache(s) = Loaded /\ loc[s].cmd.b \in Boards /\ (loc[s].cmd.b = b => Valid(s))
  BY <1>0, <1>1, CurHas
<1>3. loc[s].cmd.b = b => /\ l \in Lists /\ Fit(l, nowid[b]) /\ Remembers(l, seen[b]) /\ nowid[b] \in Nat
                          /\ f \in 1 .. nowid[b] /\ seen[b] \in SUBSET (1 .. nowid[b])
  BY <1>0, <1>1, CurKept
<1> HIDE DEF l, f
<1>4. CASE ReadFind(s)
  <2>1. maps' = maps
    BY <1>4 DEF ReadFind
  <2>2. CASE Valid(s) /\ Adds(l, f)
    <3>1. seen' = seen
      BY <1>2, <1>4, <2>2 DEF ReadFind, l, f
    <3> QED BY <1>0, <1>1, <2>1, <3>1, SeeKept
  <2>3. CASE ~(Valid(s) /\ Adds(l, f))
    <3>1. seen' = [seen EXCEPT ![loc[s].cmd.b] = @ \cup {f}]
      BY <1>2, <1>4, <2>3 DEF ReadFind, See, l, f
    <3>2. CASE loc[s].cmd.b # b
      <4>1. seen'[b] = seen[b]
        BY <1>0, <3>1, <3>2
      <4> QED BY <1>0, <1>1, <2>1, <4>1, SeeKept
    <3>3. CASE loc[s].cmd.b = b
      <4>1. seen'[b] = seen[b] \cup {f}
        BY <1>0, <3>1, <3>3
      <4>2. AddRead(l, f) = l
        BY <1>2, <2>3, <3>3 DEF Adds, AddRead, AddTo
      <4>3. Remembers(AddRead(l, f), seen[b] \cup {f})
        BY <1>3, <3>3, AddKeeps
      <4> QED BY <1>0, <1>1, <2>1, <3>3, <4>1, <4>2, <4>3, SeeKept DEF l
    <3> QED BY <3>2, <3>3
  <2> QED BY <2>2, <2>3
<1>5. CASE ReadSet(s)
  <2> DEFINE y == AddTo(loc[s].old, l, f)
  <2>1. /\ SetList(s, y) /\ pc'[s] = "idle" /\ seen' = [seen EXCEPT ![loc[s].cmd.b] = @ \cup {f}]
        /\ loc[s].cmd.b = b => l = loc[s].old
    <3>1. SetList(s, y) /\ seen' = [seen EXCEPT ![loc[s].cmd.b] = @ \cup {f}]
          /\ harmed' = harmed \cup Late(s) \cup (IF l # loc[s].old THEN Harm("insert", {loc[s].cmd.b}) ELSE {})
      BY <1>2, <1>5 DEF ReadSet, See, l, f
    <3>2. pc'[s] = "idle"
      BY <1>0, <1>5 DEF ReadSet, Done, Goto
    <3> QED BY <1>0, <3>1, <3>2 DEF Harm
  <2>2. y \in Lists
    <3>1. Own(s) /\ Loaded[loc[s].cur] \in Entry /\ f \in Nat
      BY <1>0, <1>1, CurHas, OwnIs DEF f
    <3>2. loc[s].old \in Lists /\ l \in Lists
      BY <3>1 DEF Own, Local, Entry, l
    <3> QED BY <3>1, <3>2, AddToType
  <2>3. loc[s].cmd.b # b => seen'[b] = seen[b]
    BY <1>0, <2>1
  <2>4. loc[s].cmd.b = b => Fit(y, nowid[b]) /\ Within(l, y, nowid[b]) /\ Remembers(y, seen'[b])
    <3>1. SUFFICES ASSUME loc[s].cmd.b = b PROVE Fit(y, nowid[b]) /\ Within(l, y, nowid[b]) /\ Remembers(y, seen'[b])
      OBVIOUS
    <3>2. y = AddRead(l, f) /\ seen'[b] = seen[b] \cup {f}
      BY <1>0, <2>1, <3>1 DEF AddRead
    <3> HIDE DEF y
    <3>3. Fit(AddRead(l, f), nowid[b]) /\ Within(l, AddRead(l, f), nowid[b]) /\ Remembers(AddRead(l, f), seen[b] \cup {f})
      BY <1>3, <3>1, AddKeeps
    <3> QED BY <3>2, <3>3
  <2> HIDE DEF y
  <2> QED BY <1>0, <1>1, <2>1, <2>2, <2>3, <2>4, SetKept DEF l
<1> QED BY <1>4, <1>5

(* All up to an article are marked as read. *)
LEMMA ToKeeps ==
  ASSUME NEW l \in Lists, NEW n \in Nat, NEW f \in 1 .. n, NEW fs \in SUBSET (1 .. n), Fit(l, n), Remembers(l, fs)
  PROVE  /\ ClearTo(l, f) \in Lists /\ Fit(ClearTo(l, f), n) /\ Within(l, ClearTo(l, f), n)
         /\ Remembers(ClearTo(l, f), fs \cup {g \in 1 .. n : g <= f})
<1>1. ClearTo(l, f) \in Lists
  BY ClearsType
<1>2. \A g \in 1 .. n : g <= f \/ ~Unread(l, g) => ~Unread(ClearTo(l, f), g)
  BY ClearToReads
<1>3. Fit(ClearTo(l, f), n)
  BY FitKept
<1> QED BY <1>1, <1>2, <1>3 DEF Within, Remembers

LEMMA ReadToKept ==
  ASSUME TypeInv, PostsInv, PlaceInv, KeptInv, NEW s \in Sessions, ReadTo(s), NEW b \in Boards \ harmed'
  PROVE  KeptAt(b)'
<1> DEFINE l == Loaded[loc[s].cur].list
           f == loc[s].cmd.id
           y == ClearTo(l, f)
           S == {g \in posts[loc[s].cmd.b] : g <= f}
<1>0. OthersSame(s) /\ b \in Boards \ harmed /\ pc \in [Sessions -> Stages] /\ seen \in [Boards -> SUBSET Nat]
  BY OthersStep, HarmGrows, Kinds DEF Step, TypeInv
<1>1. /\ UNCHANGED <<row, entry, nowid>> /\ pc[s] = "op" /\ loc[s].cmd.op = "to"
      /\ seen' = [seen EXCEPT ![loc[s].cmd.b] = @ \cup S]
  BY DEF ReadTo, articles, files, See
<1>2. pc'[s] = "idle"
  BY <1>0 DEF ReadTo, Done, Goto
<1>3. Cache(s) = Loaded /\ loc[s].cmd.b \in Boards /\ (loc[s].cmd.b = b => Valid(s))
      /\ Loaded[loc[s].cur] \in Entry /\ f \in Nat
  BY <1>0, <1>1, CurHas
<1>4. loc[s].cmd.b = b => /\ l \in Lists /\ Fit(l, nowid[b]) /\ Remembers(l, seen[b]) /\ nowid[b] \in Nat
                          /\ f \in 1 .. nowid[b] /\ seen[b] \in SUBSET (1 .. nowid[b]) /\ posts[b] \subseteq 1 .. nowid[b]
  BY <1>0, <1>1, CurKept
<1>5. loc[s].cmd.b # b => seen'[b] = seen[b]
  BY <1>0, <1>1
<1>6. loc[s].cmd.b = b => seen'[b] \subseteq seen[b] \cup {g \in 1 .. nowid[b] : g <= f}
  <2>1. loc[s].cmd.b = b => seen'[b] = seen[b] \cup {g \in posts[b] : g <= f}
    BY <1>0, <1>1
  <2> QED BY <1>4, <2>1
<1>7. loc[s].cmd.b = b => Fit(y, nowid[b]) /\ Within(l, y, nowid[b]) /\ Remembers(y, seen'[b])
  <2>1. SUFFICES ASSUME loc[s].cmd.b = b PROVE Fit(y, nowid[b]) /\ Within(l, y, nowid[b]) /\ Remembers(y, seen'[b])
    OBVIOUS
  <2>2. Fit(y, nowid[b]) /\ Within(l, y, nowid[b]) /\ Remembers(y, seen[b] \cup {g \in 1 .. nowid[b] : g <= f})
    BY <1>4, <2>1, ToKeeps
  <2> QED BY <1>6, <2>1, <2>2 DEF Remembers
<1>8. y \in Lists
  BY <1>3, ClearsType DEF Entry
<1>9. CASE Valid(s) /\ Clears(l, f)
  <2>1. SetList(s, y)
    BY <1>3, <1>9 DEF ReadTo
  <2> HIDE DEF y
  <2> QED BY <1>0, <1>1, <1>2, <1>5, <1>7, <1>8, <2>1, SetKept
<1>10. CASE ~(Valid(s) /\ Clears(l, f))
  <2>1. maps' = maps
    BY <1>3, <1>10 DEF ReadTo
  <2>2. loc[s].cmd.b = b => y = l
    BY <1>3, <1>10 DEF ClearTo
  <2>3. loc[s].cmd.b = b => Remembers(l, seen'[b])
    BY <1>7, <2>2
  <2> HIDE DEF y
  <2> QED BY <1>0, <1>1, <1>2, <1>5, <2>1, <2>3, SeeKept
<1> QED BY <1>9, <1>10

(* The whole board is marked as read: up to nowid. *)
LEMMA AllKeeps ==
  ASSUME NEW l \in Lists, NEW n \in Nat, NEW fs \in SUBSET (1 .. n), Fit(l, n)
  PROVE  /\ ClearAll(l, n) \in Lists /\ Fit(ClearAll(l, n), n) /\ Within(l, ClearAll(l, n), n)
         /\ Remembers(ClearAll(l, n), fs)
<1>1. ClearAll(l, n) \in Lists
  BY ClearsType
<1>2. \A g \in 1 .. n : ~Unread(ClearAll(l, n), g)
  BY ClearAllReads
<1>3. Fit(ClearAll(l, n), n)
  BY FitClearAll
<1> QED BY <1>1, <1>2, <1>3 DEF Within, Remembers

LEMMA ClearKept ==
  ASSUME TypeInv, PostsInv, PlaceInv, KeptInv, NEW s \in Sessions, Clear(s) \/ ListScan(s), NEW b \in Boards \ harmed'
  PROVE  KeptAt(b)'
<1> DEFINE l == Loaded[loc[s].cur].list
           y == ClearAll(l, nowid[loc[s].cmd.b])
<1>0. OthersSame(s) /\ b \in Boards \ harmed /\ pc \in [Sessions -> Stages] /\ seen \in [Boards -> SUBSET Nat]
      /\ \A x \in Boards : nowid[x] \in Nat
  BY OthersStep, HarmGrows, Kinds DEF Step, TypeInv
<1>1. UNCHANGED <<row, entry, nowid>> /\ pc[s] \in {"op", "scan"}
  BY DEF Clear, ListScan, articles, files
<1>2. pc'[s] = "idle"
  BY <1>0 DEF Clear, ListScan, Done, Goto
<1>3. Cache(s) = Loaded /\ loc[s].cmd.b \in Boards /\ (loc[s].cmd.b = b => Valid(s)) /\ Loaded[loc[s].cur] \in Entry
  BY <1>0, <1>1, CurHas
<1>4. loc[s].cmd.b = b => /\ l \in Lists /\ Fit(l, nowid[b]) /\ nowid[b] \in Nat
                          /\ seen[b] \in SUBSET (1 .. nowid[b]) /\ posts[b] \in SUBSET (1 .. nowid[b])
  BY <1>0, <1>1, CurKept
<1>5. seen' = seen \/ seen' = [seen EXCEPT ![loc[s].cmd.b] = @ \cup posts[loc[s].cmd.b]]
  BY DEF Clear, ListScan, See
<1>6. /\ loc[s].cmd.b # b => seen'[b] = seen[b]
      /\ loc[s].cmd.b = b => seen'[b] \in SUBSET (1 .. nowid[b])
  <2>1. loc[s].cmd.b # b => seen'[b] = seen[b]
    BY <1>0, <1>5
  <2>2. loc[s].cmd.b = b => seen'[b] = seen[b] \/ seen'[b] = seen[b] \cup posts[b]
    BY <1>0, <1>5
  <2> QED BY <1>4, <2>1, <2>2
<1>7. loc[s].cmd.b = b => Fit(y, nowid[b]) /\ Within(l, y, nowid[b]) /\ Remembers(y, seen'[b])
  BY <1>4, <1>6, AllKeeps
<1>8. y \in Lists
  BY <1>0, <1>3, ClearsType DEF Entry
<1>9. CASE SetList(s, y)
  <2> HIDE DEF y
  <2> QED BY <1>0, <1>1, <1>2, <1>6, <1>7, <1>8, <1>9, SetKept
<1>10. CASE maps' = maps /\ (seen' = seen \/ ~Valid(s))
  <2>1. seen'[b] = seen[b]
    BY <1>3, <1>6, <1>10
  <2> HIDE DEF y
  <2> QED BY <1>0, <1>1, <1>2, <1>10, <2>1, SeeKept
<1>11. CASE Clear(s)
  <2>1. SetList(s, y) \/ (maps' = maps /\ ~Valid(s))
    BY <1>3, <1>11 DEF Clear
  <2> QED BY <1>9, <1>10, <2>1
<1>12. CASE ListScan(s)
  <2>1. SetList(s, y) \/ (maps' = maps /\ seen' = seen)
    BY <1>3, <1>12 DEF ListScan
  <2> QED BY <1>9, <1>10, <2>1
<1> QED BY <1>11, <1>12

LEMMA KeptStep ==
  ASSUME Excepted, TypeInv, PostsInv, PlaceInv, KeptInv, ChangedInv, [Next]_vars
  PROVE  KeptInv'
<1>0. /\ "insert" \in Windows /\ "evict" \in Windows /\ "flag" \in Windows /\ "update" \in Windows
      /\ "disk" \in Windows /\ "zero" \in Windows /\ "unlink" \in Windows /\ "purged" \in Windows
  BY DEF Excepted
<1>1. SUFFICES ASSUME NEW b \in Boards \ harmed' PROVE KeptAt(b)'
  BY DEF KeptInv, KeptAt
<1>2. CASE UNCHANGED vars
  <2>1. b \in Boards \ harmed /\ UNCHANGED <<row, maps, entry, pc, loc, nowid, seen>>
    BY <1>2 DEF vars, articles, files
  <2>2. Loaded' = Loaded /\ Taken' = Taken /\ Copied' = Copied /\ Ups(b)' = Ups(b)
    BY <2>1 DEF Loaded, Taken, Filling, Copied, Ups
  <2> QED BY <2>1, <2>2, KeptNow DEF KeptAt
<1>3. ASSUME NEW x \in Boards, Number(x) \/ Appear(x) PROVE KeptAt(b)'
  BY <1>3, PostKept
<1>4. ASSUME NEW s \in Sessions, Step(s) PROVE KeptAt(b)'
  <2>1. CASE \/ Login(s) \/ CountIn(s) \/ LogoutStart(s) \/ Leave(s) \/ Stat(s) \/ \E c \in todo[s] : Command(s, c)
             \/ Lookup(s) \/ Look(s) \/ ListNow(s)
    BY <2>1, PlainKept
  <2>2. CASE Unlink(s) \/ Purge(s) \/ Zero(s) \/ Fill(s) \/ Bid(s)
    BY <1>0, <2>2, UnlinkKept, PurgeKept, ZeroKept, FillKept, BidKept
  <2>3. CASE URead(s) \/ UCopy(s) \/ UFlag(s) \/ UWrite(s) \/ UMove(s)
    BY <1>0, <2>3, UReadKept, UCopyKept, UFlagKept, UWriteKept, UMoveKept
  <2>4. CASE ReadFind(s) \/ ReadSet(s) \/ ReadTo(s) \/ Clear(s) \/ ListScan(s)
    BY <1>0, <2>4, ReadKept, ReadToKept, ClearKept
  <2> QED BY <1>4, <2>1, <2>2, <2>3, <2>4 DEF Step
<1> QED BY <1>2, <1>3, <1>4, NextIs

-----------------------------------------------------------------------------
(* A slot that is changed: who chose another, and who will write it back.  *)
LEMMA NextIsLeast ==
  ASSUME NEW s \in Sessions, Cache(s) \in [Slots -> Entry], NEW k \in Nat, NEW i \in Slots, Cache(s)[i].changed, i > k
  PROVE  NextChanged(s, k) <= i
<1> DEFINE T == {j \in Changed(Cache(s)) : j > k} \cup {CacheNum + 1}
<1>1. T \in SUBSET Nat /\ i \in T
  BY BoardsAssumption DEF Changed, Slots
<1> HIDE DEF T
<1>2. \A j \in T : Min(T) <= j
  BY <1>1, LeastNat DEF Min
<1> QED BY <1>1, <1>2 DEF NextChanged, T

LEMMA VictimUnchanged ==
  ASSUME NEW e \in [Slots -> Entry], ~AllChanged(e), e[Victim(e)].changed
  PROVE  e[Victim(e)].bid = NoBoard
<1>1. Slots \in SUBSET Nat /\ CacheNum \in Nat
  BY BoardsAssumption DEF Slots
<1>2. CASE Free(e) # {}
  <2>1. Min(Free(e)) \in Free(e)
    BY <1>1, <1>2, MinIs DEF Free
  <2> QED BY <1>2, <2>1 DEF Victim, Free
<1>3. CASE Free(e) = {}
  <2>1. Changed(e) # Slots /\ Victim(e) = Max(Slots \ Changed(e))
    BY <1>3 DEF AllChanged, Victim
  <2>2. Slots \ Changed(e) \in SUBSET (0 .. CacheNum) /\ Slots \ Changed(e) # {}
    BY <1>1, <2>1 DEF Changed, Slots
  <2>3. Max(Slots \ Changed(e)) \in Slots \ Changed(e)
    BY <1>1, <2>2, MaxIs
  <2> QED BY <2>1, <2>3 DEF Changed
<1> QED BY <1>2, <1>3

(* A step that marks nothing: what is changed after it was so before. *)
NoneMarked == \A i \in Slots : Loaded'[i].changed => Loaded[i].changed /\ Loaded'[i].bid = Loaded[i].bid

LEMMA WritesNone ==
  ASSUME TypeInv, NEW m, NEW i, NEW x, Writes(m, i, x), entry' = entry,
         x.changed => maps[m][i].changed /\ x.bid = maps[m][i].bid
  PROVE  NoneMarked
<1>1. Loaded \in [Slots -> Entry] /\ (entry # 0 => entry \in DOMAIN maps /\ Loaded = maps[entry])
  BY LoadedIs
<1>2. i \in Slots /\ m \in DOMAIN maps /\ m # 0
  BY DEF Writes, TypeInv
<1>3. CASE m = entry
  <2>1. Loaded' = [Loaded EXCEPT ![i] = x] /\ (x.changed => Loaded[i].changed /\ x.bid = Loaded[i].bid)
    BY <1>1, <1>2, <1>3, WritesLoaded
  <2> QED BY <1>1, <1>2, <2>1 DEF NoneMarked
<1>4. CASE m # entry
  BY <1>4, WritesLoaded DEF NoneMarked
<1> QED BY <1>3, <1>4

LEMMA PlainNone ==
  ASSUME TypeInv, PlaceInv, NEW s \in Sessions, Step(s),
         ~(Look(s) \/ ReadFind(s) \/ ReadSet(s) \/ ReadTo(s) \/ Clear(s) \/ ListNow(s) \/ ListScan(s))
  PROVE  NoneMarked
<1>1. CASE UNCHANGED <<maps, entry>>
  BY <1>1 DEF NoneMarked, Loaded
<1>2. CASE Unlink(s)
  <2>1. Loaded' = ZeroEntry
    BY <1>2 DEF Unlink, Loaded
  <2> QED BY <2>1 DEF NoneMarked, ZeroEntry
<1>3. CASE Zero(s)
  <2>1. maps \in Seq([Slots -> Entry]) /\ entry \in 0 .. Len(maps)
    BY DEF TypeInv
  <2>2. Loaded' = ZeroEntry
    <3>1. CASE entry = 0
      <4>1. maps' = Append(maps, ZeroEntry) /\ entry' = Len(maps) + 1
        BY <1>3, <3>1 DEF Zero
      <4> QED BY <2>1, <4>1 DEF Loaded
    <3>2. CASE entry # 0
      <4>1. entry' = entry /\ maps' = [maps EXCEPT ![entry] = ZeroEntry]
        BY <1>3, <3>2 DEF Zero
      <4> QED BY <2>1, <3>2, <4>1 DEF Loaded
    <3> QED BY <3>1, <3>2
  <2> QED BY <2>2 DEF NoneMarked, ZeroEntry
<1>4. CASE Fill(s)
  <2> DEFINE x == [Cache(s)[loc[s].slot] EXCEPT !.list = loc[s].img]
  <2>1. Writes(loc[s].map, loc[s].slot, x) /\ Cache(s)[loc[s].slot] = maps[loc[s].map][loc[s].slot] /\ entry' = entry
    BY <1>4, FillWrites DEF Cache, Fill
  <2>2. maps[loc[s].map][loc[s].slot] \in Entry
    BY <2>1 DEF Writes, TypeInv
  <2>3. x.bid = maps[loc[s].map][loc[s].slot].bid /\ x.changed = maps[loc[s].map][loc[s].slot].changed
    BY <2>1, <2>2 DEF Entry
  <2> HIDE DEF x
  <2> QED BY <2>1, <2>3, WritesNone
<1>5. CASE Bid(s)
  <2> DEFINE x == [bid |-> loc[s].cmd.b, list |-> Cache(s)[loc[s].slot].list, changed |-> FALSE]
  <2>1. Writes(loc[s].map, loc[s].slot, x) /\ entry' = entry
    BY <1>5, BidWrites DEF Bid
  <2>2. ~x.changed
    OBVIOUS
  <2> HIDE DEF x
  <2> QED BY <2>1, <2>2, WritesNone
<1>6. CASE UFlag(s)
  <2> DEFINE x == [Cache(s)[loc[s].k] EXCEPT !.changed = FALSE]
  <2>1. Writes(loc[s].map, loc[s].k, x) /\ Cache(s)[loc[s].k] = maps[loc[s].map][loc[s].k] /\ entry' = entry
    BY <1>6, FlagWrites DEF Cache, UFlag
  <2>2. maps[loc[s].map][loc[s].k] \in Entry
    BY <2>1 DEF Writes, TypeInv
  <2>3. ~x.changed
    BY <2>1, <2>2 DEF Entry
  <2> HIDE DEF x
  <2> QED BY <2>1, <2>3, WritesNone
<1>7. CASE \/ Login(s) \/ CountIn(s) \/ LogoutStart(s) \/ Leave(s) \/ Purge(s) \/ Stat(s) \/ Lookup(s)
           \/ (\E c \in todo[s] : Command(s, c)) \/ URead(s) \/ UCopy(s) \/ UWrite(s) \/ UMove(s)
  <2>1. UNCHANGED <<maps, entry>>
    BY <1>7, ZenonT(30) DEF Login, CountIn, LogoutStart, Leave, Purge, Stat, Lookup, Command, URead, UCopy, UWrite, UMove
  <2> QED BY <1>1, <2>1
<1> QED BY <1>2, <1>3, <1>4, <1>5, <1>6, <1>7 DEF Step

LEMMA FlagCleared ==
  ASSUME TypeInv, PostsInv, PlaceInv, KeptInv, NEW s \in Sessions, UFlag(s), NEW b \in Boards \ harmed
  PROVE  ~Loaded'[loc[s].k].changed
<1> DEFINE x == [Cache(s)[loc[s].k] EXCEPT !.changed = FALSE]
<1>1. Writes(loc[s].map, loc[s].k, x) /\ entry' = entry /\ pc[s] = "u_flag"
  BY FlagWrites DEF UFlag
<1>2. Own(s) /\ Loaded \in [Slots -> Entry] /\ (loc[s].map # 0 => loc[s].map = entry /\ Cache(s) = Loaded)
  BY KeptNow
<1>3. loc[s].map # 0 /\ loc[s].k \in Slots
  BY <1>1, <1>2 DEF Own, Placed, Updates
<1>4. ~x.changed
  BY <1>2, <1>3 DEF Entry
<1> HIDE DEF x
<1>5. Loaded' = [Loaded EXCEPT ![loc[s].k] = x]
  BY <1>1, <1>2, <1>3, WritesLoaded
<1> QED BY <1>2, <1>3, <1>4, <1>5

(* Where the walk of brc_update goes from a slot.                           *)
LEMMA NextSlot ==
  ASSUME NEW s, Own(s), loc[s].map # 0, NEW i \in Slots, Cache(s)[i].changed, NEW k \in Nat, NEW d, ToNext(s, k, d), k < i
  PROVE  /\ pc'[s] = "u_copy" /\ loc'[s].k <= i /\ loc'[s].slot = loc[s].slot /\ loc'[s].then = loc[s].then
<1>1. s \in Sessions /\ Cache(s) \in [Slots -> Entry] /\ loc[s] \in Local /\ loc \in [Sessions -> Local] /\ pc \in [Sessions -> Stages]
  BY DEF Own
<1>2. NextChanged(s, k) \in Nat /\ NextChanged(s, k) <= i /\ i <= CacheNum /\ CacheNum \in Nat /\ i \in Nat
  <2>1. NextChanged(s, k) \in 1 .. CacheNum + 1
    BY <1>1, NextChangedType DEF NextChanged
  <2>2. i \in Nat /\ i <= CacheNum /\ CacheNum \in Nat
    BY Kinds DEF Slots
  <2> QED BY <1>1, <2>1, <2>2, NextIsLeast, Kinds
<1>3. pc'[s] = "u_copy"
  BY <1>1, <1>2 DEF ToNext, Goto
<1>4. loc'[s].k = NextChanged(s, k) /\ loc'[s].slot = loc[s].slot /\ loc'[s].then = loc[s].then
  BY <1>1 DEF ToNext, Local
<1> QED BY <1>2, <1>3, <1>4

(* A slot a session chooses to fill is not changed, or it copies it first.  *)
LEMMA ChoseStep ==
  ASSUME TypeInv, PostsInv, PlaceInv, KeptInv, ChangedInv, NEW s \in Sessions, Step(s), NEW b \in Boards \ harmed,
         NEW i \in Slots, Loaded[i].changed, Loaded[i].bid = b, UFlag(s) => i # loc[s].k, Chose(s)'
  PROVE  loc'[s].slot # i
<1>0. /\ Own(s) /\ pc \in [Sessions -> Stages] /\ loc \in [Sessions -> Local] /\ loc[s] \in Local /\ b # NoBoard
      /\ loc[s].map # 0 => Cache(s) = Loaded
  BY KeptNow, Kinds DEF Own
<1>1. Chose(s) => loc[s].slot # i
  BY DEF ChangedInv, Good
<1>2. CASE Lookup(s)
  <2> DEFINE e == Cache(s)
  <2>1. loc[s].map # 0 /\ pc[s] = "lookup"
    BY <1>0, <1>2 DEF Own, Placed, Lookup
  <2>2. e = Loaded /\ e \in [Slots -> Entry]
    BY <1>0, <2>1 DEF Own
  <2> HIDE DEF e
  <2>3. pc'[s] = "fill"
    <3>1. pc'[s] \in {"op", "update", "fill"}
      BY <1>0, <1>2 DEF Lookup, Goto
    <3> QED BY <3>1 DEF Chose
  <2>4. ~AllChanged(e)
    BY <1>0, <1>2, <2>3 DEF Lookup, Goto, e
  <2>5. loc'[s].slot = Victim(e)
    <3>1. pc'[s] # "op"
      BY <2>3
    <3>2. loc' = [loc EXCEPT ![s].img = row[loc[s].cmd.b], ![s].slot = Victim(e), ![s].then = "fill"]
      BY <1>0, <1>2, <3>1 DEF Lookup, Goto, e
    <3> QED BY <1>0, <3>2 DEF Local
  <2>6. e[Victim(e)].changed => e[Victim(e)].bid = NoBoard
    BY <2>2, <2>4, VictimUnchanged
  <2> QED BY <1>0, <2>2, <2>5, <2>6
<1>3. CASE URead(s)
  <2>1. loc[s].map # 0
    BY <1>0, <1>3 DEF Own, Placed, URead
  <2>2. Changed(Cache(s)) # {}
    BY <1>0, <2>1 DEF Changed
  <2>3. ToNext(s, 0, row)
    BY <1>3, <2>2 DEF URead
  <2>4. pc'[s] = "u_copy" /\ loc'[s].k <= i
    BY <1>0, <2>1, <2>3, NextSlot, Kinds DEF Slots
  <2>5. loc'[s].slot < loc'[s].k
    BY <2>4 DEF Chose
  <2>6. loc'[s].k \in Nat /\ i \in Nat
    <3>1. loc'[s].k = NextChanged(s, 0)
      BY <1>0, <2>3 DEF ToNext, Local
    <3>2. NextChanged(s, 0) \in 1 .. CacheNum + 1
      BY <1>0, <2>1, NextChangedType DEF NextChanged, Own
    <3> QED BY <3>1, <3>2, Kinds
  <2> QED BY <2>4, <2>5, <2>6
<1>4. CASE UCopy(s)
  <2>1. pc'[s] = "u_flag" /\ pc[s] = "u_copy"
    BY <1>0, <1>4 DEF UCopy, Goto
  <2>2. loc'[s].slot = loc[s].slot /\ loc'[s].k = loc[s].k /\ loc'[s].then = loc[s].then
    BY <1>0, <1>4 DEF UCopy, Local
  <2> QED BY <1>1, <2>1, <2>2 DEF Chose
<1>5. CASE UFlag(s)
  <2>1. pc[s] = "u_flag" /\ ToNext(s, loc[s].k, loc[s].data) /\ i # loc[s].k
    BY <1>5 DEF UFlag
  <2>2. loc[s].map # 0 /\ loc[s].k \in Slots /\ loc[s].k \in Nat /\ i \in Nat
    BY <1>0, <2>1, Kinds DEF Own, Placed, Updates
  <2>3. loc'[s].slot = loc[s].slot /\ loc'[s].then = loc[s].then /\ loc'[s].k = NextChanged(s, loc[s].k)
    BY <1>0, <2>1 DEF ToNext, Local
  <2>4. CASE loc[s].k < i
    <3>1. pc'[s] = "u_copy" /\ loc'[s].k <= i
      BY <1>0, <2>1, <2>2, <2>4, NextSlot
    <3>2. loc'[s].slot < loc'[s].k
      BY <3>1 DEF Chose
    <3>3. loc'[s].k \in Nat
      <4>1. NextChanged(s, loc[s].k) \in 1 .. CacheNum + 1
        BY <1>0, <2>2, NextChangedType DEF NextChanged, Own
      <4> QED BY <2>3, <4>1, Kinds
    <3> QED BY <2>2, <3>1, <3>2, <3>3
  <2>5. CASE i < loc[s].k
    <3>1. pc'[s] \in {"u_copy", "u_write"}
      BY <1>0, <2>1 DEF ToNext, Goto
    <3>2. loc[s].then = "fill"
      BY <2>3, <3>1 DEF Chose
    <3> QED BY <1>1, <2>1, <2>3, <2>5, <3>2 DEF Chose
  <2> QED BY <2>1, <2>2, <2>4, <2>5
<1>6. CASE UWrite(s) \/ UMove(s)
  <2>1. pc[s] \in {"u_write", "u_move"}
    BY <1>6 DEF UWrite, UMove
  <2>2. (pc'[s] = "u_move" /\ loc' = loc) \/ Updated(s)
    BY <1>0, <1>6 DEF UWrite, UMove, Goto
  <2>3. loc'[s].slot = loc[s].slot /\ ((pc'[s] = "u_move" /\ loc' = loc) \/ pc'[s] = loc[s].then)
    BY <1>0, <2>2 DEF Updated, Goto, Local
  <2>4. loc[s].then \in {"idle", "fill", "leave"}
    BY <1>0 DEF Local
  <2>5. loc[s].then = "fill"
    BY <2>3, <2>4 DEF Chose
  <2> QED BY <1>1, <2>1, <2>3, <2>5 DEF Chose
<1>7. CASE ~Lookup(s) /\ ~URead(s) /\ ~UCopy(s) /\ ~UFlag(s) /\ ~UWrite(s) /\ ~UMove(s)
  <2>1. pc'[s] \in {"counted", "idle", "update", "stat", "leave", "unlink", "over", "op", "lookup", "zero", "bid", "set", "scan"}
    BY <1>0, <1>7, ZenonT(30) DEF Step, Login, CountIn, LogoutStart, Leave, Unlink, Purge, Command, Stat, Zero, Mapped, Fill,
       Bid, Look, ReadFind, ReadSet, ReadTo, Clear, ListNow, ListScan, Done, Goto
  <2> QED BY <2>1 DEF Chose
<1> QED BY <1>2, <1>3, <1>4, <1>5, <1>6, <1>7

(* A session at the end of a command will write back, as a telnet session  *)
(* keeps the file mapped and one of the web maps it again.                 *)
LEMMA DoneSaves ==
  ASSUME NEW s, Own(s), pc[s] \in {"op", "set", "scan"}, Done(s)
  PROVE  ~Chose(s)' /\ \A i : Saves(s, i)'
<1>1. pc'[s] = "idle" /\ loc'[s] = Ended(s)
  BY DEF Own, Done, Goto
<1>2. loc[s].map # 0
  BY DEF Own, Placed
<1>3. s \in Telnet => loc'[s].map # 0
  BY <1>1, <1>2, SessionsAssumption DEF Ended, Start
<1>4. loc'[s].then = "idle"
  BY <1>1 DEF Ended, Start
<1> QED BY <1>1, <1>3, <1>4 DEF Chose, Saves, Working, Updates

(* Who is to write the slot back is so after the step, unless he is dead.   *)
LEMMA SavesStep ==
  ASSUME TypeInv, PostsInv, PlaceInv, KeptInv, NEW s \in Sessions, Step(s), NEW b \in Boards \ harmed,
         NEW i \in Slots, Loaded[i].changed, UFlag(s) => i # loc[s].k, Dead(s) \/ Saves(s, i)
  PROVE  (Dead(s) \/ Saves(s, i))'
<1>0. /\ Own(s) /\ pc \in [Sessions -> Stages] /\ loc \in [Sessions -> Local] /\ loc[s] \in Local
      /\ loc[s].map # 0 => Cache(s) = Loaded
  BY KeptNow DEF Own
<1>1. CASE Login(s) \/ CountIn(s) \/ Leave(s) \/ Unlink(s)
  <2>1. pc[s] \in {"off", "counted", "leave", "unlink"}
    BY <1>1 DEF Login, CountIn, Leave, Unlink
  <2>2. Dead(s)
    BY <2>1 DEF Saves, Working
  <2>3. Leave(s) \/ Unlink(s)
    BY <1>1, <2>2 DEF Dead, Login, CountIn
  <2>4. pc'[s] \in {"unlink", "over"}
    BY <1>0, <2>3 DEF Leave, Unlink, Goto
  <2>5. loc'[s].purged = loc[s].purged
    BY <1>0, <2>3 DEF Leave, Unlink, Local, Start
  <2> QED BY <2>2, <2>4, <2>5 DEF Dead
<1>2. CASE Purge(s)
  <2>1. pc'[s] = "leave" /\ loc'[s].purged
    BY <1>0, <1>2 DEF Purge, Goto, Start
  <2> QED BY <2>1 DEF Dead
<1>3. CASE ~Login(s) /\ ~CountIn(s) /\ ~Leave(s) /\ ~Unlink(s) /\ ~Purge(s)
  <2>1. pc[s] \notin {"leave", "unlink", "over"}
    BY <1>3, ZenonT(30) DEF Step, LogoutStart, Command, Stat, Zero, Lookup, Fill, Bid, URead, UCopy, UFlag, UWrite, UMove,
       Look, ReadFind, ReadSet, ReadTo, Clear, ListNow, ListScan
  <2>2. Saves(s, i)
    BY <2>1 DEF Dead
  <2>3. CASE LogoutStart(s)
    <3>1. pc[s] = "idle" /\ pc'[s] = (IF loc[s].map # 0 THEN "update" ELSE IF s \in Web THEN "stat" ELSE "leave")
      BY <1>0, <2>3 DEF LogoutStart, Goto
    <3>2. loc[s].map # 0 \/ s \in Web
      BY <2>2, <3>1 DEF Saves, Sessions
    <3>3. pc'[s] \in {"update", "stat"}
      BY <3>1, <3>2
    <3> QED BY <3>3 DEF Saves, Working, Updates
  <2>4. CASE (\E c \in todo[s] : Command(s, c)) \/ Stat(s) \/ Zero(s) \/ Lookup(s) \/ Fill(s) \/ Bid(s)
    <3>1. pc'[s] \in {"op", "stat", "lookup", "zero", "update", "fill", "bid"}
      BY <1>0, <2>4, ZenonT(30) DEF Command, Stat, Zero, Mapped, Lookup, Fill, Bid, Goto
    <3> QED BY <3>1 DEF Saves, Working, Updates
  <2>5. CASE URead(s)
    <3>1. loc[s].map # 0
      BY <1>0, <2>5 DEF Own, Placed, URead
    <3>2. Changed(Cache(s)) # {}
      BY <1>0, <3>1 DEF Changed
    <3>3. ToNext(s, 0, row)
      BY <2>5, <3>2 DEF URead
    <3>4. pc'[s] = "u_copy" /\ loc'[s].k <= i
      <4>1. Cache(s)[i].changed /\ 0 < i
        BY <1>0, <3>1, Kinds DEF Slots
      <4> QED BY <1>0, <3>1, <3>3, <4>1, NextSlot
    <3> QED BY <3>4 DEF Saves, Working, Updates
  <2>6. CASE UCopy(s)
    <3>1. pc'[s] = "u_flag" /\ pc[s] = "u_copy"
      BY <1>0, <2>6 DEF UCopy, Goto
    <3>2. loc'[s].k = loc[s].k /\ loc'[s].then = loc[s].then
      BY <1>0, <2>6 DEF UCopy, Local
    <3> QED BY <2>2, <3>1, <3>2 DEF Saves, Working, Updates
  <2>7. CASE UFlag(s)
    <3>1. pc[s] = "u_flag" /\ ToNext(s, loc[s].k, loc[s].data) /\ i # loc[s].k
      BY <2>7 DEF UFlag
    <3>2. loc[s].map # 0 /\ loc[s].k \in Slots /\ loc[s].k \in Nat /\ i \in Nat
      BY <1>0, <3>1, Kinds DEF Own, Placed, Updates
    <3>3. CASE loc[s].then = "leave"
      <4>1. loc[s].k < i
        BY <2>2, <3>1, <3>2, <3>3 DEF Saves, Updates
      <4>2. pc'[s] = "u_copy" /\ loc'[s].k <= i
        BY <1>0, <3>1, <3>2, <4>1, NextSlot
      <4> QED BY <4>2 DEF Saves, Working, Updates
    <3>4. CASE loc[s].then # "leave"
      <4>1. pc'[s] \in {"u_copy", "u_write"} /\ loc'[s].then = loc[s].then
        BY <1>0, <3>1 DEF ToNext, Goto, Local
      <4> QED BY <3>4, <4>1 DEF Saves, Working, Updates
    <3> QED BY <3>3, <3>4
  <2>8. CASE UWrite(s) \/ UMove(s)
    <3>1. pc[s] \in {"u_write", "u_move"}
      BY <2>8 DEF UWrite, UMove
    <3>2. loc[s].then = "fill"
      BY <1>0, <2>2, <3>1 DEF Saves, Updates, Own, Placed, Local
    <3>3. (pc'[s] = "u_move" /\ loc' = loc) \/ Updated(s)
      BY <1>0, <2>8 DEF UWrite, UMove, Goto
    <3>4. (pc'[s] = "u_move" /\ loc' = loc) \/ pc'[s] = "fill"
      BY <1>0, <3>2, <3>3 DEF Updated, Goto
    <3> QED BY <3>2, <3>4 DEF Saves, Working, Updates
  <2>9. CASE Look(s) \/ ReadFind(s) \/ ReadSet(s) \/ ReadTo(s) \/ Clear(s) \/ ListNow(s) \/ ListScan(s)
    <3>1. pc[s] \in {"op", "set", "scan"}
      BY <2>9 DEF Look, ReadFind, ReadSet, ReadTo, Clear, ListNow, ListScan
    <3>2. CASE Done(s)
      BY <1>0, <3>1, <3>2, DoneSaves
    <3>3. CASE ~Done(s)
      <4>1. pc'[s] \in {"set", "scan"}
        BY <1>0, <2>9, <3>3 DEF Look, ReadFind, ReadSet, ReadTo, Clear, ListNow, ListScan, Goto
      <4> QED BY <4>1 DEF Saves, Working, Updates
    <3> QED BY <3>2, <3>3
  <2> QED BY <1>3, <2>3, <2>4, <2>5, <2>6, <2>7, <2>8, <2>9 DEF Step
<1> QED BY <1>1, <1>2, <1>3

(* A session that marks a slot. *)
Marks(s) == Done(s) /\ Late(s) \subseteq harmed' /\ \E y \in Lists : SetList(s, y)

LEMMA MarksIs ==
  ASSUME TypeInv, PlaceInv, NEW s \in Sessions,
         Look(s) \/ ReadFind(s) \/ ReadSet(s) \/ ReadTo(s) \/ Clear(s) \/ ListNow(s) \/ ListScan(s)
  PROVE  maps' = maps \/ Marks(s)
<1>1. maps' = maps \/ \E y \in Lists : SetList(s, y)
  BY MarkLists
<1>2. CASE ReadSet(s)
  <2>1. Done(s) /\ Late(s) \subseteq harmed'
    BY <1>2 DEF ReadSet
  <2> QED BY <1>1, <2>1 DEF Marks
<1>3. CASE ReadTo(s)
  <2>1. Done(s) /\ (maps' = maps \/ Late(s) \subseteq harmed')
    BY <1>3 DEF ReadTo
  <2> QED BY <1>1, <2>1 DEF Marks
<1>4. CASE Clear(s)
  <2>1. Done(s) /\ (maps' = maps \/ Late(s) \subseteq harmed')
    BY <1>4 DEF Clear
  <2> QED BY <1>1, <2>1 DEF Marks
<1>5. CASE ListScan(s)
  <2>1. Done(s) /\ (maps' = maps \/ Late(s) \subseteq harmed')
    BY <1>5 DEF ListScan
  <2> QED BY <1>1, <2>1 DEF Marks
<1> QED BY <1>2, <1>3, <1>4, <1>5 DEF Look, ReadFind, ListNow

LEMMA MarkedSlot ==
  ASSUME TypeInv, PostsInv, PlaceInv, KeptInv, NEW s \in Sessions, pc[s] \in {"op", "set", "scan"}, Marks(s),
         entry' = entry, NEW b \in Boards \ harmed
  PROVE  /\ loc[s].map = entry /\ loc[s].map # 0 /\ Cache(s) = Loaded
         /\ \A i \in Slots : Loaded'[i].bid = Loaded[i].bid /\ (i # loc[s].cur => Loaded'[i] = Loaded[i])
<1>1. PICK y \in Lists : SetList(s, y)
  BY DEF Marks
<1> DEFINE i == loc[s].cur
           x == [Loaded[i] EXCEPT !.list = y, !.changed = TRUE]
<1>2. Cache(s) = Loaded /\ loc[s].map = entry /\ i \in Slots /\ Loaded[i] \in Entry /\ Loaded \in [Slots -> Entry]
  BY CurHas, KeptNow
<1>3. Writes(entry, i, x) /\ loc[s].map # 0
  BY <1>1, <1>2, ListWrites, OpType DEF Own, Placed
<1>4. x.bid = Loaded[i].bid
  BY <1>2 DEF Entry
<1> HIDE DEF x, i
<1>5. Loaded' = [Loaded EXCEPT ![i] = x]
  BY <1>3, WritesLoaded
<1> QED BY <1>2, <1>3, <1>4, <1>5 DEF i

LEMMA ChangedStep ==
  ASSUME Excepted, TypeInv, PostsInv, PlaceInv, KeptInv, ChangedInv, [Next]_vars
  PROVE  ChangedInv'
<1>1. SUFFICES ASSUME NEW i \in Slots, NEW b \in Boards \ harmed', Loaded'[i].bid = b, Loaded'[i].changed
               PROVE  /\ \A o \in Sessions : Chose(o)' => loc'[o].slot # i
                      /\ \E o \in Sessions : (Dead(o) \/ Saves(o, i))'
  <2>1. \A c : Good(c)' <=> c \in Boards \ harmed'
    BY DEF Good
  <2> QED BY <2>1 DEF ChangedInv
<1>2. ASSUME UNCHANGED <<maps, entry, pc, loc, harmed>>
      PROVE  /\ \A o \in Sessions : Chose(o)' => loc'[o].slot # i
             /\ \E o \in Sessions : (Dead(o) \/ Saves(o, i))'
  <2>1. Loaded' = Loaded
    BY <1>2 DEF Loaded
  <2>2. b \in Boards \ harmed
    BY <1>2
  <2>3. /\ \A o \in Sessions : Chose(o) => loc[o].slot # i
        /\ \E o \in Sessions : Dead(o) \/ Saves(o, i)
    BY <1>1, <2>1, <2>2 DEF ChangedInv, Good
  <2>4. \A o \in Sessions : (Chose(o)' <=> Chose(o)) /\ (Dead(o)' <=> Dead(o)) /\ (Saves(o, i)' <=> Saves(o, i))
    BY <1>2 DEF Chose, Dead, Saves, Working
  <2> QED BY <1>2, <2>3, <2>4
<1>3. ASSUME NEW s \in Sessions, Step(s)
      PROVE  /\ \A o \in Sessions : Chose(o)' => loc'[o].slot # i
             /\ \E o \in Sessions : (Dead(o) \/ Saves(o, i))'
  <2>0. OthersSame(s) /\ b \in Boards \ harmed /\ "evict" \in Windows /\ b # NoBoard
    BY <1>3, OthersStep, HarmGrows, Kinds DEF Excepted
  <2>1. \A o \in Sessions \ {s} : (Chose(o)' <=> Chose(o)) /\ (Dead(o)' <=> Dead(o)) /\ (Saves(o, i)' <=> Saves(o, i))
                                 /\ loc'[o] = loc[o]
    BY <2>0 DEF OthersSame, Chose, Dead, Saves, Working
  <2>2. CASE Loaded[i].changed /\ Loaded[i].bid = b /\ (UFlag(s) => i # loc[s].k)
    <3>1. /\ \A o \in Sessions : Chose(o) => loc[o].slot # i
          /\ \E o \in Sessions : Dead(o) \/ Saves(o, i)
      BY <2>0, <2>2 DEF ChangedInv, Good
    <3>2. Chose(s)' => loc'[s].slot # i
      BY <1>3, <2>0, <2>2, ChoseStep
    <3>3. Dead(s) \/ Saves(s, i) => (Dead(s) \/ Saves(s, i))'
      BY <1>3, <2>0, <2>2, SavesStep
    <3> QED BY <2>1, <3>1, <3>2, <3>3
  <2>3. CASE ~(Look(s) \/ ReadFind(s) \/ ReadSet(s) \/ ReadTo(s) \/ Clear(s) \/ ListNow(s) \/ ListScan(s))
    <3>1. NoneMarked
      BY <1>3, <2>3, PlainNone
    <3>2. Loaded[i].changed /\ Loaded[i].bid = b
      BY <1>1, <3>1 DEF NoneMarked
    <3>3. UFlag(s) => i # loc[s].k
      BY <1>1, <2>0, FlagCleared
    <3> QED BY <2>2, <3>2, <3>3
  <2>4. CASE Look(s) \/ ReadFind(s) \/ ReadSet(s) \/ ReadTo(s) \/ Clear(s) \/ ListNow(s) \/ ListScan(s)
    <3>1. pc[s] \in {"op", "set", "scan"} /\ entry' = entry
      BY <2>4 DEF Look, ReadFind, ReadSet, ReadTo, Clear, ListNow, ListScan
    <3>2. ~UFlag(s)
      BY <3>1 DEF UFlag
    <3>3. CASE maps' = maps
      <4>1. Loaded' = Loaded
        BY <3>1, <3>3 DEF Loaded
      <4> QED BY <1>1, <2>2, <3>2, <4>1
    <3>4. CASE Marks(s)
      <4>1. /\ loc[s].map = entry /\ loc[s].map # 0 /\ Cache(s) = Loaded
            /\ Loaded'[i].bid = Loaded[i].bid /\ (i # loc[s].cur => Loaded'[i] = Loaded[i])
        BY <2>0, <3>1, <3>4, MarkedSlot
      <4>2. Own(s)
        BY OwnIs
      <4>3. ~Chose(s)' /\ Saves(s, i)'
        BY <3>1, <3>4, <4>2, DoneSaves DEF Marks
      <4>4. CASE i # loc[s].cur
        BY <1>1, <2>2, <3>2, <4>1, <4>4
      <4>5. CASE i = loc[s].cur
        <5>1. ASSUME NEW o \in Sessions \ {s}, Chose(o), loc[o].slot = i PROVE FALSE
          <6>1. loc[o].map # 0
            BY <5>1, OwnIs DEF Own, Placed, Chose, Updates
          <6>2. loc[o].map = loc[s].map
            BY <2>0, <4>1, <6>1, KeptNow
          <6>3. Late(s) = Harm("evict", {Cache(s)[loc[s].cur].bid})
            BY <4>5, <5>1, <6>2 DEF Late
          <6>4. b \in Late(s)
            BY <1>1, <2>0, <4>1, <4>5, <6>3 DEF Harm
          <6> QED BY <3>4, <6>4 DEF Marks
        <5> QED BY <2>1, <4>3, <5>1
      <4> QED BY <4>4, <4>5
    <3> QED BY <2>4, <3>3, <3>4, MarksIs
  <2> QED BY <2>3, <2>4
<1>4. ASSUME NEW x \in Boards, Number(x) \/ Appear(x) PROVE UNCHANGED <<maps, entry, pc, loc, harmed>>
  BY <1>4 DEF Number, Appear
<1> QED BY <1>2, <1>3, <1>4, NextIs DEF vars

-----------------------------------------------------------------------------
(* The other lists: what is written was right when it was copied, and what *)
(* is removed stays as it was.                                             *)
LEMMA LoadedSorted ==
  ASSUME TypeInv, PostsInv, PlaceInv, KeptInv, NEW b \in Boards \ harmed,
         NEW i \in Slots \ Taken, Loaded[i].bid = b
  PROVE  Sorted(Loaded[i].list)
<1>1. i \in HasSlot(Loaded, Taken, b) /\ KeptAt(b)
  BY KeptNow DEF HasSlot
<1> QED BY <1>1 DEF KeptAt, Kept, SlotRight, Fit

LEMMA TmpStep ==
  ASSUME TypeInv, PostsInv, PlaceInv, KeptInv, RestSorted, NEW s \in Sessions, Step(s), NEW b \in Boards \ harmed'
  PROVE  tmp' # NoRows => Sorted(tmp'[b])
<1>0. OthersSame(s) /\ b \in Boards \ harmed
  BY OthersStep, HarmGrows
<1>1. tmp # NoRows => Sorted(tmp[b])
  BY <1>0 DEF RestSorted
<1>2. CASE UWrite(s)
  <2>1. pc[s] \in Updates
    BY <1>2 DEF UWrite, Updates
  <2>2. Row(s, b) \in Ups(b)
    BY <2>1, UpsIs
  <2>3. Fit(Row(s, b).data, nowid[b])
    BY <1>0, <2>2, KeptNow DEF KeptAt, Kept, UpsRight
  <2>4. Sorted(loc[s].data[b])
    BY <2>3 DEF Row, Fit
  <2> QED BY <1>2, <2>4 DEF UWrite
<1>3. tmp' = tmp \/ tmp' = NoRows \/ UWrite(s)
  BY ZenonT(30) DEF Step, Login, CountIn, LogoutStart, Leave, Unlink, Purge, Command, Stat, Zero, Lookup, Fill, Bid,
         URead, UCopy, UFlag, UMove, Look, ReadFind, ReadSet, ReadTo, Clear, ListNow, ListScan, files
<1> QED BY <1>1, <1>2, <1>3

(* While there is a board outside the windows, a session writes to "entry". *)
LEMMA EntryStep ==
  ASSUME TypeInv, TypeInv', PostsInv, PlaceInv, KeptInv, NEW s \in Sessions, Step(s), ~Zero(s), NEW b \in Boards \ harmed
  PROVE  /\ DOMAIN maps' = DOMAIN maps /\ \A m \in DOMAIN maps \ {entry} : maps'[m] = maps[m]
<1>0. maps \in Seq([Slots -> Entry]) /\ maps' \in Seq([Slots -> Entry])
  BY DEF TypeInv
<1>1. \A o \in Sessions : loc[o].map \in {0, entry}
  BY KeptNow
<1>2. 0 \notin DOMAIN maps
  BY <1>0
<1>3. maps' = maps \/ \E i, x : Writes(loc[s].map, i, x)
  <2>1. CASE Fill(s)
    BY <2>1, FillWrites
  <2>2. CASE Bid(s)
    BY <2>2, BidWrites
  <2>3. CASE UFlag(s)
    BY <2>3, FlagWrites
  <2>4. CASE Look(s) \/ ReadFind(s) \/ ReadSet(s) \/ ReadTo(s) \/ Clear(s) \/ ListNow(s) \/ ListScan(s)
    <3>1. maps' = maps \/ \E x \in Lists : SetList(s, x)
      BY <2>4, MarkLists
    <3>2. pc[s] \in {"op", "set", "scan"}
      BY <2>4 DEF Look, ReadFind, ReadSet, ReadTo, Clear, ListNow, ListScan
    <3> QED BY <3>1, <3>2, ListWrites, Zenon
  <2>5. CASE maps' = maps
    BY <2>5
  <2> QED BY <2>1, <2>2, <2>3, <2>4, <2>5, Zenon
      DEF Step, Login, CountIn, LogoutStart, Leave, Unlink, Purge, Command, Stat, Lookup, URead, UCopy, UWrite, UMove
<1>4. ASSUME NEW i, NEW x, Writes(loc[s].map, i, x)
      PROVE  DOMAIN maps' = DOMAIN maps /\ \A m \in DOMAIN maps \ {entry} : maps'[m] = maps[m]
  <2>1. loc[s].map = entry /\ Len(maps') = Len(maps)
        /\ \A m \in DOMAIN maps \ {loc[s].map} : maps'[m] = maps[m]
    BY <1>1, <1>2, <1>4 DEF Writes
  <2> QED BY <1>0, <2>1
<1> QED BY <1>3, <1>4

LEMMA RestStep ==
  ASSUME Excepted, TypeInv, TypeInv', PostsInv, PlaceInv, KeptInv, RestSorted, [Next]_vars
  PROVE  RestSorted'
<1>1. CASE UNCHANGED <<tmp, maps, entry, harmed>>
  BY <1>1 DEF RestSorted
<1>2. ASSUME NEW s \in Sessions, Step(s), NEW b \in Boards \ harmed'
      PROVE  /\ tmp' # NoRows => Sorted(tmp'[b])
             /\ \A m \in DOMAIN maps' : m # entry' => \A i \in Slots : maps'[m][i].bid = b => Sorted(maps'[m][i].list)
  <2>0. /\ OthersSame(s) /\ b \in Boards \ harmed /\ maps \in Seq([Slots -> Entry]) /\ entry \in 0 .. Len(maps)
        /\ maps' \in Seq([Slots -> Entry])
    BY <1>2, OthersStep, HarmGrows DEF TypeInv
  <2>1. tmp' # NoRows => Sorted(tmp'[b])
    BY <1>2, TmpStep
  <2>2. \A m \in DOMAIN maps \ {entry} : \A i \in Slots : maps[m][i].bid = b => Sorted(maps[m][i].list)
    BY <2>0 DEF RestSorted
  <2>3. CASE Zero(s)
    <3>1. CASE entry = 0
      <4>1. maps' = Append(maps, ZeroEntry) /\ entry' = Len(maps) + 1
        BY <2>3, <3>1 DEF Zero
      <4>2. \A m \in DOMAIN maps' : m # entry' => m \in DOMAIN maps \ {entry} /\ maps'[m] = maps[m]
        BY <2>0, <3>1, <4>1
      <4> QED BY <2>1, <2>2, <4>2
    <3>2. CASE entry # 0
      <4>1. maps' = [maps EXCEPT ![entry] = ZeroEntry] /\ entry' = entry
        BY <2>3, <3>2 DEF Zero
      <4>2. \A m \in DOMAIN maps' : m # entry' => m \in DOMAIN maps \ {entry} /\ maps'[m] = maps[m]
        BY <2>0, <4>1
      <4> QED BY <2>1, <2>2, <4>2
    <3> QED BY <3>1, <3>2
  <2>4. CASE Unlink(s)
    <3>1. maps' = maps /\ loc' = loc /\ pc[s] = "unlink"
      BY <2>4 DEF Unlink
    <3>2. \A o \in Sessions : loc[o].map = 0
      BY <1>2, <2>0, <2>4, NobodyMaps DEF Excepted
    <3>3. Taken = {}
      <4>1. \A o \in Sessions : pc[o] # "bid"
        BY <2>0, <3>2, KeptNow DEF Own, Placed
      <4> QED BY <4>1, TakenIs
    <3>4. ASSUME NEW i \in Slots, entry # 0, maps[entry][i].bid = b PROVE Sorted(maps[entry][i].list)
      <4>1. Loaded = maps[entry]
        BY <3>4 DEF Loaded
      <4>2. i \in Slots \ Taken /\ Loaded[i].bid = b
        BY <3>3, <3>4, <4>1
      <4>3. Sorted(Loaded[i].list)
        BY <2>0, <4>2, LoadedSorted
      <4> QED BY <4>1, <4>3
    <3>5. 0 \notin DOMAIN maps
      BY <2>0
    <3> QED BY <2>1, <2>2, <3>1, <3>4, <3>5
  <2>5. CASE ~Zero(s) /\ ~Unlink(s)
    <3>1. entry' = entry
      BY <1>2, <2>5, ZenonT(30)
         DEF Step, Login, CountIn, LogoutStart, Leave, Purge, Command, Stat, Lookup, Fill, Bid, URead, UCopy, UFlag,
             UWrite, UMove, Look, ReadFind, ReadSet, ReadTo, Clear, ListNow, ListScan
    <3>2. DOMAIN maps' = DOMAIN maps /\ \A m \in DOMAIN maps \ {entry} : maps'[m] = maps[m]
      BY <1>2, <2>0, <2>5, EntryStep
    <3> QED BY <2>1, <2>2, <3>1, <3>2
  <2> QED BY <2>3, <2>4, <2>5
<1>3. ASSUME NEW b \in Boards, Number(b) \/ Appear(b) PROVE UNCHANGED <<tmp, maps, entry, harmed>>
  BY <1>3 DEF Number, Appear, files
<1>4. CASE UNCHANGED vars
  BY <1>1, <1>4 DEF vars, files
<1>5. CASE \E s \in Sessions : Step(s)
  BY <1>2, <1>5 DEF RestSorted
<1> QED BY <1>1, <1>3, <1>4, <1>5, NextIs

-----------------------------------------------------------------------------
(* The invariant, and what it says of what the user sees.                  *)
Inv == TypeInv /\ PostsInv /\ PlaceInv /\ KeptInv /\ ChangedInv /\ RestSorted

LEMMA InitInv == Init => Inv
<1>1. SUFFICES ASSUME Init PROVE Inv
  OBVIOUS
<1>2. TypeInv
  BY <1>1, InitType
<1>3. /\ nowid = OldNowid /\ posts = [b \in Boards |-> 1 .. OldPosts[b]] /\ coming = {}
      /\ row = [b \in Boards |-> NoMarks] /\ tmp = NoRows /\ maps = <<>> /\ entry = 0
      /\ pc = [s \in Sessions |-> "off"] /\ loc = [s \in Sessions |-> Start] /\ seen = [b \in Boards |-> {}]
  BY <1>1 DEF Init
<1>4. PostsInv
  <2>1. \A b \in Boards : seen[b] \subseteq posts[b] /\ posts[b] \subseteq 1 .. nowid[b]
    BY <1>3, PostsAssumption, OlderAssumption
  <2>2. \A s \in Sessions : loc[s].cmd.op = "logout"
    BY <1>3 DEF Start, Logout
  <2> QED BY <1>3, <2>1, <2>2 DEF PostsInv
<1>5. PlaceInv
  <2>1. ASSUME NEW s \in Sessions PROVE Placed(s) /\ Mapping(s) /\ Bound(s)
    <3>1. pc[s] = "off" /\ loc[s] = Start
      BY <1>3
    <3>2. Len(maps) = 0
      BY <1>3
    <3> QED BY <3>1, <3>2 DEF Placed, Fills, Updates, Mapping, Bound, Start
  <2> QED BY <2>1 DEF PlaceInv
<1>6. KeptInv
  <2>1. Taken = {} /\ Loaded = ZeroEntry
    BY <1>3 DEF Taken, Loaded
  <2>2. ASSUME NEW b \in Boards PROVE Kept(row[b], Loaded, Taken, Copied, Ups(b), nowid[b], seen[b], b)
    <3>1. Ups(b) = {}
      <4>1. \A s \in Sessions : pc[s] \notin Updates
        BY <1>3 DEF Updates
      <4> QED BY <4>1, UpsIs
    <3>2. \A i \in Slots : Loaded[i].bid # b
      BY <2>1, Kinds DEF ZeroEntry
    <3>3. row[b] = NoMarks /\ seen[b] = {} /\ nowid[b] \in Nat
      BY <1>2, <1>3 DEF TypeInv
    <3> QED BY <2>1, <3>1, <3>2, <3>3, FitNoMarks DEF Kept, HasSlot, UpsRight, RowRight, Remembers
  <2> QED BY <2>2 DEF KeptInv
<1>7. RestSorted
  BY <1>3 DEF RestSorted
<1>8. ChangedInv
  <2>1. \A i \in Slots : ~Loaded[i].changed
    BY <1>3 DEF Loaded, ZeroEntry
  <2> QED BY <2>1 DEF ChangedInv
<1> QED BY <1>2, <1>4, <1>5, <1>6, <1>7, <1>8 DEF Inv

LEMMA InvStep == Excepted /\ Inv /\ [Next]_vars => Inv'
<1>1. SUFFICES ASSUME Excepted, Inv, [Next]_vars PROVE Inv'
  OBVIOUS
<1>2. TypeInv /\ PostsInv /\ PlaceInv /\ KeptInv /\ ChangedInv /\ RestSorted
  BY <1>1 DEF Inv
<1>3. TypeInv'
  BY <1>1, <1>2, TypeStep
<1>4. PostsInv'
  BY <1>1, <1>2, <1>3, PostsStep
<1>5. PlaceInv'
  BY <1>1, <1>2, <1>3, PlaceStep
<1>6. KeptInv'
  BY <1>1, <1>2, KeptStep
<1>7. ChangedInv'
  BY <1>1, <1>2, ChangedStep
<1>8. RestSorted'
  BY <1>1, <1>2, <1>3, RestStep
<1> QED BY <1>3, <1>4, <1>5, <1>6, <1>7, <1>8 DEF Inv

LEMMA InvSorted == Inv => MarksSorted
<1>1. SUFFICES ASSUME Inv PROVE MarksSorted
  OBVIOUS
<1>2. TypeInv /\ PostsInv /\ PlaceInv /\ KeptInv /\ RestSorted /\ maps \in Seq([Slots -> Entry])
  BY <1>1 DEF Inv, TypeInv
<1>3. ASSUME NEW b \in Boards \ harmed PROVE Sorted(row[b]) /\ (tmp # NoRows => Sorted(tmp[b]))
  <2>1. Fit(row[b], nowid[b])
    BY <1>2 DEF KeptInv, Kept
  <2> QED BY <1>2, <2>1 DEF Fit, RestSorted
<1>4. ASSUME NEW m \in DOMAIN maps, NEW i \in Slots \ Filling(m), maps[m][i].bid \in Boards \ harmed
      PROVE  Sorted(maps[m][i].list)
  <2>1. CASE m = entry
    <3>1. Loaded = maps[m] /\ Taken = Filling(m)
      BY <1>2, <2>1 DEF Loaded, Taken
    <3> QED BY <1>2, <1>4, <3>1, LoadedSorted
  <2>2. CASE m # entry
    BY <1>2, <1>4, <2>2 DEF RestSorted
  <2> QED BY <2>1, <2>2
<1> QED BY <1>3, <1>4 DEF MarksSorted

LEMMA InvRemembers == Inv => NothingForgotten
<1>1. SUFFICES ASSUME Inv, NEW b \in Boards \ harmed, NEW f \in seen[b] PROVE ~Unread(Shown(b), f)
  BY DEF NothingForgotten
<1>2. TypeInv /\ PostsInv /\ PlaceInv /\ KeptInv
  BY <1>1 DEF Inv
<1>3. KeptAt(b) /\ Loaded \in [Slots -> Entry] /\ b # NoBoard
  BY <1>2, KeptNow, Kinds
<1>4. CachedAt(b) = HasSlot(Loaded, Taken, b)
  <2>1. CASE entry = 0
    BY <1>3, <2>1 DEF CachedAt, HasSlot, Loaded, ZeroEntry
  <2>2. CASE entry # 0
    BY <2>2 DEF CachedAt, HasSlot, Loaded, Taken
  <2> QED BY <2>1, <2>2
<1>5. CASE CachedAt(b) = {}
  <2>1. RowRight(row[b], Ups(b), nowid[b], seen[b])
    BY <1>3, <1>4, <1>5 DEF KeptAt, Kept
  <2> QED BY <1>5, <2>1 DEF Shown, RowRight, Remembers
<1>6. CASE CachedAt(b) # {}
  <2> DEFINE i == Min(CachedAt(b))
  <2>1. CachedAt(b) \in SUBSET Nat
    BY <1>4, Kinds DEF HasSlot
  <2>2. i \in CachedAt(b)
    BY <1>6, <2>1, MinIs
  <2> HIDE DEF i
  <2>3. SlotRight(row[b], Loaded, i, Ups(b), nowid[b], seen[b])
    BY <1>3, <1>4, <2>2 DEF KeptAt, Kept
  <2>4. entry # 0 /\ Loaded = maps[entry]
    BY <2>2 DEF CachedAt, Loaded
  <2>5. Shown(b) = Loaded[i].list
    BY <1>6, <2>4 DEF Shown, i
  <2> QED BY <2>3, <2>5 DEF SlotRight, Remembers
<1> QED BY <1>5, <1>6

(* Whatever the sessions of the user do, the marks of a board outside the  *)
(* windows go down: in .boardrc.gz, in the temporary file, in "entry" and  *)
(* in every file of that name that has been removed (brc_add_read,         *)
(* brc_update, brc_initial).                                               *)
THEOREM MarksStaySorted == ASSUME Excepted PROVE Spec => []MarksSorted
<1>1. Init => Inv
  BY InitInv
<1>2. Inv /\ [Next]_vars => Inv'
  BY InvStep
<1>3. Inv => MarksSorted
  BY InvSorted
<1> QED BY <1>1, <1>2, <1>3, PTL DEF Spec

(* What the user has read on such a board is not shown as unread again,    *)
(* whichever session loads, marks, evicts or writes back its slot, and     *)
(* whether "entry" is there or has been removed with his last session.     *)
THEOREM NothingIsForgotten == ASSUME Excepted PROVE Spec => []NothingForgotten
<1>1. Init => Inv
  BY InitInv
<1>2. Inv /\ [Next]_vars => Inv'
  BY InvStep
<1>3. Inv => NothingForgotten
  BY InvRemembers
<1> QED BY <1>1, <1>2, <1>3, PTL DEF Spec

-----------------------------------------------------------------------------
(* What a list shows as read without being read.                           *)
LEMMA CrowdedMore ==
  ASSUME NEW n \in Nat, NEW fs, NEW fs2 \in SUBSET (1 .. n), fs \subseteq fs2, NEW g \in Nat, Crowded(fs, g)
  PROVE  Crowded(fs2, g)
<1> DEFINE S == {f \in fs : f > g}
           T == {f \in fs2 : f > g}
<1>1. S \in SUBSET T /\ T \in SUBSET (1 .. n)
  OBVIOUS
<1>2. IsFiniteSet(1 .. n)
  BY FS_Interval
<1> HIDE DEF S, T
<1>3. IsFiniteSet(T)
  BY <1>1, <1>2, FS_Subset
<1>4. Cardinality(S) \in Nat /\ Cardinality(T) \in Nat /\ Cardinality(S) <= Cardinality(T)
  <2>1. IsFiniteSet(S) /\ Cardinality(S) <= Cardinality(T)
    BY <1>1, <1>3, FS_Subset
  <2> QED BY <1>3, <2>1, FS_CardinalityType
<1>5. Cardinality(S) >= MaxNum
  BY DEF Crowded, S
<1>6. Cardinality(T) >= MaxNum
  BY <1>4, <1>5, MaxNumAssumption
<1> QED BY <1>6 DEF Crowded, T

(* A full list of articles that have been read, all above g. *)
LEMMA FullIsCrowded ==
  ASSUME NEW l \in Lists, Sorted(l), NEW n \in Nat, NEW fs \in SUBSET (1 .. n), NEW g \in Nat \ {0},
         \A i \in Places : l[i] > g /\ l[i] \in fs
  PROVE  Crowded(fs, g)
<1> DEFINE T == {f \in fs : f > g}
<1>1. T \in SUBSET (1 .. n) /\ \A i \in Places : l[i] \in T
  OBVIOUS
<1>2. IsFiniteSet(1 .. n)
  BY FS_Interval
<1> HIDE DEF T
<1>3. IsFiniteSet(T) /\ Cardinality(T) \in Nat
  BY <1>1, <1>2, FS_Subset, FS_CardinalityType
<1>4. \A i \in Places : l[i] \in Nat /\ l[i] > 1 /\ Visible(l, i)
  <2>1. \A i \in Places : l[i] \in Nat /\ l[i] > 1
    BY DEF Lists
  <2> QED BY <2>1 DEF Visible
<1>5. \A i, j \in Places : i < j => l[j] < l[i]
  BY <1>4 DEF Sorted
<1>6. \A i, j \in Places : l[i] = l[j] => i = j
  <2>1. SUFFICES ASSUME NEW i \in Places, NEW j \in Places, l[i] = l[j] PROVE i = j
    OBVIOUS
  <2>2. i \in Nat /\ j \in Nat /\ l[i] \in Nat /\ l[j] \in Nat
    BY <1>4 DEF Places
  <2>3. ~(i < j) /\ ~(j < i)
    BY <1>5, <2>1, <2>2
  <2> QED BY <2>2, <2>3
<1>7. l \in [Places -> T] /\ DOMAIN l = Places
  BY <1>1 DEF Lists
<1>8. l \in Injection(Places, T)
  BY <1>6, <1>7 DEF Injection, IsInjective
<1>9. Cardinality(Places) <= Cardinality(T)
  BY <1>3, <1>8, FS_Injection
<1>10. Cardinality(Places) = MaxNum
  <2>1. 0 \in Int /\ MaxNum - 1 \in Int /\ ~(0 > MaxNum - 1) /\ (MaxNum - 1) - 0 + 1 = MaxNum
    BY MaxNumAssumption
  <2> QED BY <2>1, FS_Interval DEF Places
<1>11. Cardinality(T) >= MaxNum
  BY <1>3, <1>9, <1>10, MaxNumAssumption
<1> QED BY <1>11 DEF Crowded, T

LEMMA HonestMore ==
  ASSUME NEW l, NEW n \in Nat, NEW fs, NEW fs2 \in SUBSET (1 .. n), fs \subseteq fs2, NEW ids \in SUBSET Nat,
         Honest(l, fs, ids)
  PROVE  Honest(l, fs2, ids)
<1>1. \A m : Backed(m, fs, ids) => Backed(m, fs2, ids)
  BY DEF Backed
<1>2. \A g \in ids : Crowded(fs, g) => Crowded(fs2, g)
  BY CrowdedMore
<1> QED BY <1>1, <1>2 DEF Honest

(* An article gets its id, which is above every mark. *)
LEMMA HonestNumber ==
  ASSUME NEW l \in Lists, NEW n \in Nat, Fit(l, n), NEW fs, NEW ids, Honest(l, fs, ids)
  PROVE  Honest(l, fs, ids \cup {n + 1})
<1>1. \A i \in Places : l[i] \in Nat /\ l[i] <= n
  BY DEF Fit, Lists
<1>2. \A i \in Places : ~(n + 1 <= l[i])
  BY <1>1
<1>3. ASSUME NEW i \in Places, Backed(l[i], fs, ids) PROVE Backed(l[i], fs, ids \cup {n + 1})
  BY <1>2, <1>3 DEF Backed
<1>4. Unread(l, n + 1)
  BY <1>1, BoundedUnread
<1> QED BY <1>3, <1>4 DEF Honest

LEMMA HonestNone ==
  ASSUME NEW fs, NEW ids \in SUBSET Nat
  PROVE  Honest(NoMarks, fs, ids)
<1>1. 0 \in Places /\ NoMarks[0] = 0 /\ \A i \in Places : 0 <= i /\ ~(i < 0)
  BY MaxNumAssumption DEF NoMarks, Places
<1>2. \A i \in Places : ~Visible(NoMarks, i)
  BY <1>1 DEF Visible
<1>3. \A g \in ids : StopsAt(NoMarks, g, 0)
  BY <1>1 DEF StopsAt
<1>4. \A g \in ids : Unread(NoMarks, g)
  BY <1>1, <1>3 DEF Unread
<1> QED BY <1>2, <1>4 DEF Honest

(* brc_add_read: what it makes read by pushing the last mark out is below  *)
(* as many articles as the list has places (libBBS/boards.c:971-1001).     *)
LEMMA AddBacked ==
  ASSUME NEW l \in Lists, NEW f \in Nat, NEW fs, NEW ids \in SUBSET Nat, f \in fs, Honest(l, fs, ids),
         NEW i \in Places, Visible(AddRead(l, f), i)
  PROVE  Backed(AddRead(l, f)[i], fs, ids)
<1>0. 0 \in Places /\ 1 \in Places /\ 2 \in Places /\ Places \subseteq Nat
  BY MaxNumAssumption DEF Places
<1>1. Backed(f, fs, ids) /\ Backed(1, fs, ids)
  BY DEF Backed
<1>2. \A k \in Places : Visible(l, k) => Backed(l[k], fs, ids)
  BY DEF Honest
<1>3. CASE l[0] = 0 /\ AddRead(l, f) = FirstMark(l, f)
  <2>1. /\ FirstMark(l, f)[0] = f /\ FirstMark(l, f)[1] = 1 /\ FirstMark(l, f)[2] = 0
    BY <1>0 DEF FirstMark, Lists
  <2>2. ~(2 <= i)
    BY <1>0, <1>3, <2>1 DEF Visible
  <2>3. i = 0 \/ i = 1
    BY <1>0, <2>2
  <2> QED BY <1>1, <1>3, <2>1, <2>3
<1>4. CASE \E p \in Places : StopsAt(l, f, p) /\ l[p] # 0 /\ f > l[p] /\ AddRead(l, f) = Insert(l, p, f)
  <2>1. PICK p \in Places : StopsAt(l, f, p) /\ l[p] # 0 /\ f > l[p] /\ AddRead(l, f) = Insert(l, p, f)
    BY <1>4
  <2> DEFINE new == Insert(l, p, f)
  <2>2. \A m \in Places : new[m] = IF m < p THEN l[m] ELSE IF m = p THEN f ELSE l[m - 1]
    BY DEF Insert
  <2>3. Visible(new, i)
    BY <2>1
  <2> HIDE DEF new
  <2>4. CASE i < p
    <3>1. \A k \in Places : k <= i => new[k] = l[k]
      BY <1>0, <2>2, <2>4
    <3>2. Visible(l, i)
      BY <2>3, <3>1 DEF Visible
    <3>3. new[i] = l[i]
      BY <1>0, <3>1
    <3> QED BY <1>2, <2>1, <3>2, <3>3 DEF new
  <2>5. CASE i = p
    <3>1. new[i] = f
      BY <1>0, <2>2, <2>5
    <3> QED BY <1>1, <2>1, <3>1 DEF new
  <2>6. CASE i > p
    <3>1. i - 1 \in Places /\ new[i] = l[i - 1]
      BY <2>2, <2>6, MaxNumAssumption DEF Places
    <3>2. Visible(l, i - 1)
      <4>1. SUFFICES ASSUME NEW k \in Places, k <= i - 1 PROVE l[k] # 0
        BY DEF Visible
      <4>2. CASE k < p
        BY <1>0, <2>2, <2>3, <4>1, <4>2 DEF Visible
      <4>3. CASE k >= p
        <5>1. k + 1 \in Places /\ k + 1 <= i
          BY <4>1, MaxNumAssumption DEF Places
        <5>2. new[k + 1] = l[k]
          BY <1>0, <2>2, <4>3, <5>1
        <5> QED BY <2>3, <5>1, <5>2 DEF Visible
      <4> QED BY <1>0, <4>2, <4>3
    <3> QED BY <1>2, <2>1, <3>1, <3>2 DEF new
  <2> QED BY <1>0, <2>4, <2>5, <2>6
<1>5. CASE l[0] # 0 /\ ~Inserts(l, f) /\ AddRead(l, f) = l
  BY <1>2, <1>5
<1> QED BY <1>3, <1>4, <1>5, AddCases

(* What it makes read, and is not f, was at the last place of a full list. *)
LEMMA AddFull ==
  ASSUME NEW l \in Lists, NEW f \in Nat, NEW g \in Nat \ {0, 1, f}, Unread(l, g), ~Unread(AddRead(l, f), g)
  PROVE  \A i \in Places : AddRead(l, f)[i] > g
<1>0. 0 \in Places /\ 1 \in Places /\ 2 \in Places /\ Places \subseteq Nat /\ MaxNum - 1 \in Places
      /\ \A m \in Places : m <= MaxNum - 1
  BY MaxNumAssumption DEF Places
<1>1. StopsAt(l, g, MaxNum - 1)
  BY UnreadStaysUnread
<1> DEFINE z == MaxNum - 1
<1>2. z \in Places /\ z \in Nat /\ z > 1 /\ \A m \in Places : m <= z
  BY <1>0, MaxNumAssumption
<1>3. StopsAt(l, g, z)
  BY <1>1
<1> HIDE DEF z
<1>4. \A m \in Places : m < z => l[m] # 0 /\ g < l[m]
  BY <1>3 DEF StopsAt
<1>5. l[z] # 0 /\ g > l[z]
  <2>1. PICK k \in Places : StopsAt(l, g, k) /\ (IF l[k] = 0 THEN k = 0 ELSE g > l[k])
    BY DEF Unread
  <2>2. k = z
    BY <1>2, <1>3, <2>1, StopsOnce
  <2> QED BY <1>2, <2>1, <2>2
<1>6. l[0] # 0
  BY <1>0, <1>2, <1>4
<1>7. PICK p \in Places : StopsAt(l, f, p) /\ l[p] # 0 /\ f > l[p] /\ AddRead(l, f) = Insert(l, p, f)
  BY <1>6, AddCases
<1> DEFINE new == Insert(l, p, f)
<1>8. \A m \in Places : new[m] = IF m < p THEN l[m] ELSE IF m = p THEN f ELSE l[m - 1]
  BY DEF Insert
<1>9. ~Unread(new, g) /\ new \in Lists
  BY <1>7, InsertType
<1> HIDE DEF new
<1>10. f > g
  <2>1. CASE p = z
    <3>1. SUFFICES ASSUME g > f PROVE FALSE
      OBVIOUS
    <3>2. new[z] = f /\ \A m \in Places : m < z => new[m] = l[m]
      BY <1>0, <1>2, <1>8, <2>1
    <3>3. StopsAt(new, g, z)
      BY <1>2, <1>4, <3>1, <3>2 DEF StopsAt
    <3>4. new[z] # 0
      BY <1>2, <1>7, <3>2 DEF Lists
    <3>5. g > new[z]
      BY <1>2, <3>1, <3>2
    <3> QED BY <1>2, <1>9, <3>3, <3>4, <3>5 DEF Unread
  <2>2. CASE p < z
    <3>1. g < l[p] /\ l[p] \in Nat
      BY <1>4, <2>2 DEF Lists
    <3> QED BY <1>7, <3>1
  <2> QED BY <1>0, <1>2, <2>1, <2>2
<1>11. ASSUME NEW i \in Places PROVE new[i] > g
  <2>1. CASE i < p
    <3>1. new[i] = l[i] /\ i < z
      BY <1>0, <1>2, <1>8, <2>1
    <3> QED BY <1>4, <3>1 DEF Lists
  <2>2. CASE i = p
    BY <1>0, <1>8, <1>10, <2>2
  <2>3. CASE i > p
    <3>1. i - 1 \in Places /\ i - 1 < z /\ i <= z
      BY <1>0, <1>2, <2>3, MaxNumAssumption DEF Places
    <3>2. new[i] = l[i - 1]
      BY <1>0, <1>8, <2>3
    <3> QED BY <1>4, <3>1, <3>2 DEF Lists
  <2> QED BY <1>0, <2>1, <2>2, <2>3
<1> QED BY <1>7, <1>11 DEF new

LEMMA HonestAdd ==
  ASSUME NEW l \in Lists, NEW n \in Nat, Fit(l, n), NEW f \in 1 .. n, NEW fs \in SUBSET (1 .. n),
         NEW ids \in SUBSET (1 .. n), Honest(l, fs, ids)
  PROVE  Honest(AddRead(l, f), fs \cup {f}, ids)
<1> DEFINE fs2 == fs \cup {f}
           new == AddRead(l, f)
<1>1. fs2 \in SUBSET (1 .. n) /\ f \in fs2 /\ ids \in SUBSET Nat /\ f \in Nat
  OBVIOUS
<1>2. Honest(l, fs2, ids)
  <2>1. fs \subseteq fs2
    OBVIOUS
  <2> HIDE DEF fs2
  <2> QED BY <1>1, <2>1, HonestMore
<1>3. \A i \in Places : Visible(new, i) => Backed(new[i], fs2, ids)
  <2> HIDE DEF fs2
  <2> QED BY <1>1, <1>2, AddBacked
<1>4. new \in Lists /\ Sorted(new)
  BY AddToType, SortedKept DEF AddRead, Fit
<1> HIDE DEF new
<1>5. ASSUME NEW g \in ids \ (fs2 \cup {1}), ~Unread(new, g) PROVE Crowded(fs2, g)
  <2>1. g \in Nat \ {0, 1, f} /\ g \in ids
    BY <1>5
  <2> HIDE DEF fs2
  <2>2. CASE ~Unread(l, g)
    BY <1>2, <1>5, <2>2 DEF Honest
  <2>3. CASE Unread(l, g)
    <3>1. \A i \in Places : new[i] > g /\ new[i] \in Nat
      BY <1>1, <1>4, <1>5, <2>1, <2>3, AddFull DEF new, Lists
    <3>2. ASSUME NEW i \in Places PROVE new[i] > g /\ new[i] \in fs2
      <4>1. \A k \in Places : new[k] # 0
        BY <2>1, <3>1
      <4>2. Backed(new[i], fs2, ids)
        BY <1>3, <4>1 DEF Visible
      <4>3. new[i] > g /\ g <= new[i] /\ new[i] # 1
        BY <2>1, <3>1
      <4> QED BY <1>5, <4>2, <4>3 DEF Backed
    <3> QED BY <1>1, <1>4, <2>1, <3>2, FullIsCrowded
  <2> QED BY <2>2, <2>3
<1>6. Honest(new, fs2, ids)
  <2> HIDE DEF fs2
  <2> QED BY <1>3, <1>5 DEF Honest
<1> QED BY <1>6 DEF new

(* brc_clear_new_flag marks as read what the user says he has read. *)
LEMMA HonestTo ==
  ASSUME NEW l \in Lists, NEW n \in Nat, NEW f \in 1 .. n, NEW fs, NEW fs2 \in SUBSET (1 .. n),
         NEW ids \in SUBSET (1 .. n), Honest(l, fs, ids), fs \subseteq fs2, f \in fs2,
         \A g \in ids : g <= f => g \in fs2
  PROVE  Honest(ClearTo(l, f), fs2, ids)
<1> DEFINE new == ClearTo(l, f)
<1>0. 0 \in Places /\ Places \subseteq Nat /\ f \in Nat \ {0} /\ ids \in SUBSET Nat
  BY MaxNumAssumption DEF Places
<1>1. Honest(l, fs2, ids)
  BY <1>0, HonestMore
<1>2. CASE ~Clears(l, f) /\ new = l
  BY <1>1, <1>2
<1>3. CASE \E p \in Places : /\ StopsAt(l, f, p) /\ (l[p] # 0 \/ p = 0)
                             /\ new = [m \in Places |-> IF m = p THEN f ELSE IF m = p + 1 THEN 0 ELSE l[m]]
  <2>1. PICK p \in Places : /\ StopsAt(l, f, p) /\ (l[p] # 0 \/ p = 0)
                            /\ new = [m \in Places |-> IF m = p THEN f ELSE IF m = p + 1 THEN 0 ELSE l[m]]
    BY <1>3
  <2>2. \A m \in Places : new[m] = IF m = p THEN f ELSE IF m = p + 1 THEN 0 ELSE l[m]
    BY <2>1
  <2> HIDE DEF new
  <2>3. new[p] = f /\ \A m \in Places : m < p => new[m] = l[m]
    BY <1>0, <2>2
  <2>4. ASSUME NEW i \in Places, Visible(new, i) PROVE Backed(new[i], fs2, ids)
    <3>1. i <= p
      <4>1. SUFFICES ASSUME i > p PROVE FALSE
        BY <1>0
      <4>2. p + 1 \in Places /\ p + 1 <= i
        BY <4>1, MaxNumAssumption DEF Places
      <4>3. new[p + 1] = 0
        BY <1>0, <2>2, <4>2
      <4> QED BY <2>4, <4>2, <4>3 DEF Visible
    <3>2. CASE i = p
      BY <2>3, <3>2 DEF Backed
    <3>3. CASE i < p
      <4>1. Visible(l, i)
        BY <1>0, <2>3, <2>4, <3>3 DEF Visible
      <4> QED BY <1>1, <2>3, <3>3, <4>1 DEF Honest
    <3> QED BY <1>0, <3>1, <3>2, <3>3
  <2>5. ASSUME NEW g \in ids \ (fs2 \cup {1}), Unread(l, g) PROVE Unread(new, g)
    <3>1. g \in Nat /\ g > f
      BY <1>0, <2>5
    <3>2. PICK k \in Places : StopsAt(l, g, k) /\ (IF l[k] = 0 THEN k = 0 ELSE g > l[k])
      BY <2>5 DEF Unread
    <3>3. k <= p
      <4>1. SUFFICES ASSUME p < k PROVE FALSE
        BY <1>0
      <4>2. l[p] # 0 /\ g < l[p] /\ l[p] \in Nat
        BY <3>2, <4>1 DEF StopsAt, Lists
      <4>3. l[p] = 0 \/ f >= l[p]
        BY <2>1 DEF StopsAt
      <4> QED BY <1>0, <3>1, <4>2, <4>3
    <3>4. CASE k < p
      <4>1. l[k] # 0 /\ new[k] = l[k]
        BY <2>1, <2>3, <3>4 DEF StopsAt
      <4>2. \A m \in Places : m <= k => new[m] = l[m]
        BY <1>0, <2>3, <3>4
      <4>3. StopsAt(new, g, k)
        BY <1>0, <3>2, <4>1, <4>2 DEF StopsAt
      <4> QED BY <3>2, <4>1, <4>3 DEF Unread
    <3>5. CASE k = p
      <4>1. new[k] = f /\ \A m \in Places : m < k => new[m] = l[m]
        BY <2>3, <3>5
      <4>2. StopsAt(new, g, k)
        BY <1>0, <3>1, <3>2, <4>1 DEF StopsAt
      <4> QED BY <1>0, <3>1, <4>1, <4>2 DEF Unread
    <3> QED BY <1>0, <3>3, <3>4, <3>5
  <2>6. Honest(new, fs2, ids)
    BY <1>1, <2>4, <2>5 DEF Honest
  <2> QED BY <2>6 DEF new
<1> QED BY <1>0, <1>2, <1>3, ClearToCases

(* brc_clear, when no article is still to come. *)
LEMMA HonestAll ==
  ASSUME NEW l \in Lists, NEW n \in Nat, NEW fs, NEW ids, ids \subseteq fs
  PROVE  Honest(ClearAll(l, n), fs, ids)
<1> DEFINE new == ClearAll(l, n)
<1>0. 0 \in Places /\ 1 \in Places /\ Places \subseteq Nat
  BY MaxNumAssumption DEF Places
<1>1. \A m : Backed(m, fs, ids)
  BY DEF Backed
<1> QED BY <1>1 DEF Honest

-----------------------------------------------------------------------------
(* The lists of a board that are in use, after each step: those of before, *)
(* and what a command has written.                                         *)
LEMMA HeldIs ==
  ASSUME NEW b
  PROVE  /\ \A l : l \in Held(b) <=> \/ l = row[b] \/ (tmp # NoRows /\ l = tmp[b])
                                     \/ \E u \in Ups(b) : l = u.data
                                     \/ \E i \in HasSlot(Loaded, Taken, b) : l = Loaded[i].list
         /\ \A l : l \in Held(b)' <=> \/ l = row'[b] \/ (tmp' # NoRows /\ l = tmp'[b])
                                      \/ \E u \in Ups(b)' : l = u.data
                                      \/ \E i \in HasSlot(Loaded', Taken', b) : l = Loaded'[i].list
BY DEF Held, HasSlot

(* Parts of them. *)
RowHeld(b)  == row'[b] \in Held(b)
TmpHeld(b)  == tmp' = tmp \/ (tmp' # NoRows => tmp'[b] \in Held(b))
UpsHeld(b)  == \A u \in Ups(b)' : u.data \in Held(b)
SlotHeld(b) == \A i \in HasSlot(Loaded', Taken', b) : Loaded'[i].list \in Held(b)

LEMMA HeldParts ==
  ASSUME NEW b, RowHeld(b), TmpHeld(b), UpsHeld(b), SlotHeld(b)
  PROVE  Held(b)' \subseteq Held(b)
BY HeldIs DEF RowHeld, TmpHeld, UpsHeld, SlotHeld

LEMMA HeldSame ==
  ASSUME NEW b
  PROVE  /\ row' = row => RowHeld(b)
         /\ Ups(b)' \subseteq Ups(b) => UpsHeld(b)
         /\ HasSlot(Loaded', Taken', b) \subseteq HasSlot(Loaded, Taken, b)
              /\ (\A i \in HasSlot(Loaded, Taken, b) : Loaded'[i].list = Loaded[i].list) => SlotHeld(b)
         /\ Loaded' = Loaded /\ Taken' = Taken => SlotHeld(b)
BY HeldIs DEF RowHeld, UpsHeld, SlotHeld, HasSlot

LEMMA PlainHeld ==
  ASSUME TypeInv, PostsInv, PlaceInv, KeptInv, NEW s \in Sessions, NEW b \in Boards \ harmed',
         \/ Login(s) \/ CountIn(s) \/ LogoutStart(s) \/ Leave(s) \/ Stat(s) \/ \E c \in todo[s] : Command(s, c)
         \/ Lookup(s) \/ Look(s) \/ ListNow(s)
  PROVE  Held(b)' \subseteq Held(b)
<1>0. OthersSame(s) /\ b \in Boards \ harmed /\ pc \in [Sessions -> Stages]
  BY OthersStep, HarmGrows DEF Step, TypeInv
<1>1. UNCHANGED <<row, tmp, maps, entry>>
  BY ZenonT(30) DEF Login, CountIn, LogoutStart, Leave, Stat, Command, Lookup, Look, ListNow, files
<1>2. pc[s] \notin {"bid"} \cup Updates
  BY ZenonT(30) DEF Login, CountIn, LogoutStart, Leave, Stat, Command, Lookup, Look, ListNow, Updates
<1>3. pc'[s] \notin {"bid"} \cup Updates
  BY <1>0, ZenonT(30) DEF Login, CountIn, LogoutStart, Leave, Stat, Command, Lookup, Look, ListNow, Updates, Goto, Mapped, Done
<1>4. Taken' = Taken /\ Ups(b)' = Ups(b)
  BY <1>0, <1>1, <1>2, <1>3, SetsSame
<1>5. Loaded' = Loaded
  BY <1>1 DEF Loaded
<1> QED BY <1>1, <1>4, <1>5, HeldParts, HeldSame DEF TmpHeld

LEMMA PurgeHeld ==
  ASSUME "purged" \in Windows, TypeInv, PostsInv, PlaceInv, KeptInv, NEW s \in Sessions, Purge(s), NEW b \in Boards \ harmed'
  PROVE  Held(b)' \subseteq Held(b)
<1>0. OthersSame(s) /\ b \in Boards \ harmed /\ pc \in [Sessions -> Stages]
  BY OthersStep, HarmGrows DEF Step, TypeInv
<1>1. UNCHANGED <<row, tmp, maps, entry>> /\ Loaded' = Loaded
  BY DEF Purge, files, Loaded
<1>2. pc'[s] = "leave"
  BY <1>0 DEF Purge, Goto
<1>3. Own(s) /\ (loc[s].map # 0 => Cache(s) = Loaded)
  BY <1>0, KeptNow
<1>4. b \notin Halfway(s)
  BY Kinds DEF Purge, Harm
<1>5. Ups(b)' \subseteq Ups(b)
  BY <1>0, <1>2, UpsStep DEF Updates
<1>6. Taken \subseteq Taken' \cup (IF pc[s] = "bid" THEN {loc[s].slot} ELSE {})
  BY <1>0, <1>1, TakenStep
<1>7. pc[s] = "bid" => Loaded[loc[s].slot].bid # b
  <2>1. pc[s] = "bid" => loc[s].map # 0
    BY <1>3 DEF Own, Placed
  <2> QED BY <1>3, <1>4, <2>1 DEF Halfway
<1>8. HasSlot(Loaded', Taken', b) \subseteq HasSlot(Loaded, Taken, b)
  BY <1>1, <1>6, <1>7 DEF HasSlot
<1>9. SlotHeld(b)
  BY <1>1, <1>8, HeldSame
<1> QED BY <1>1, <1>5, <1>9, HeldParts, HeldSame DEF TmpHeld

LEMMA UnlinkHeld ==
  ASSUME "unlink" \in Windows, TypeInv, PostsInv, PlaceInv, KeptInv, NEW s \in Sessions, Unlink(s), NEW b \in Boards \ harmed'
  PROVE  Held(b)' \subseteq Held(b)
<1>0. OthersSame(s) /\ b \in Boards \ harmed /\ pc \in [Sessions -> Stages]
  BY OthersStep, HarmGrows DEF Step, TypeInv
<1>1. UNCHANGED <<row, tmp>> /\ Loaded' = ZeroEntry
  BY DEF Unlink, files, Loaded
<1>2. pc'[s] = "over" /\ pc[s] = "unlink"
  BY <1>0 DEF Unlink, Goto
<1>3. Ups(b)' \subseteq Ups(b)
  BY <1>0, <1>2, UpsStep DEF Updates
<1>4. HasSlot(Loaded', Taken', b) = {}
  BY <1>1, Kinds DEF HasSlot, ZeroEntry
<1>5. SlotHeld(b)
  BY <1>4 DEF SlotHeld
<1> QED BY <1>1, <1>3, <1>5, HeldParts, HeldSame DEF TmpHeld

LEMMA ZeroHeld ==
  ASSUME TypeInv, PostsInv, PlaceInv, KeptInv, NEW s \in Sessions, Zero(s), NEW b \in Boards \ harmed'
  PROVE  Held(b)' \subseteq Held(b)
<1>0. OthersSame(s) /\ b \in Boards \ harmed /\ pc \in [Sessions -> Stages]
      /\ maps \in Seq([Slots -> Entry]) /\ entry \in 0 .. Len(maps)
  BY OthersStep, HarmGrows DEF Step, TypeInv
<1>1. UNCHANGED <<row, tmp>>
  BY DEF Zero, files
<1>2. pc[s] = "zero" /\ pc'[s] \in {"update", "lookup"}
  BY <1>0 DEF Zero, Mapped, Goto
<1>3. Ups(b)' \subseteq Ups(b)
  BY <1>0, <1>2, UpsStep DEF Updates
<1>4. Loaded' = ZeroEntry
  <2>1. CASE entry = 0
    <3>1. maps' = Append(maps, ZeroEntry) /\ entry' = Len(maps) + 1
      BY <2>1 DEF Zero
    <3> QED BY <1>0, <3>1 DEF Loaded
  <2>2. CASE entry # 0
    <3>1. entry' = entry /\ maps' = [maps EXCEPT ![entry] = ZeroEntry]
      BY <2>2 DEF Zero
    <3> QED BY <1>0, <2>2, <3>1 DEF Loaded
  <2> QED BY <2>1, <2>2
<1>5. HasSlot(Loaded', Taken', b) = {}
  BY <1>4, Kinds DEF HasSlot, ZeroEntry
<1>6. SlotHeld(b)
  BY <1>5 DEF SlotHeld
<1> QED BY <1>1, <1>3, <1>6, HeldParts, HeldSame DEF TmpHeld

(* A slot that is being filled is in use again when it has its board; that *)
(* board has the list of the row then.                                     *)
LEMMA FillHeld ==
  ASSUME TypeInv, PostsInv, PlaceInv, KeptInv, NEW s \in Sessions, Fill(s), NEW b \in Boards \ harmed'
  PROVE  Held(b)' \subseteq Held(b)
<1> DEFINE i == loc[s].slot
           x == [Cache(s)[i] EXCEPT !.list = loc[s].img]
<1>0. OthersSame(s) /\ b \in Boards \ harmed /\ pc \in [Sessions -> Stages]
  BY OthersStep, HarmGrows DEF Step, TypeInv
<1>1. UNCHANGED <<row, tmp, entry, loc>> /\ pc[s] = "fill"
  BY DEF Fill, files
<1>2. pc'[s] = "bid"
  BY <1>0 DEF Fill, Goto
<1>3. Loaded \in [Slots -> Entry] /\ Own(s)
  BY <1>0, KeptNow
<1>4. loc[s].map # 0
  BY <1>1, <1>3 DEF Own, Placed
<1>5. loc[s].map = entry /\ entry # 0
  BY <1>0, <1>4, KeptNow
<1>6. Writes(entry, i, x)
  BY <1>5, FillWrites
<1> HIDE DEF i, x
<1>7. Loaded' = [Loaded EXCEPT ![i] = x]
  BY <1>1, <1>6, WritesLoaded
<1>8. \A j \in Slots \ {i} : Loaded'[j] = Loaded[j]
  BY <1>3, <1>7
<1>9. Taken \subseteq Taken' /\ i \in Taken'
  <2>1. loc'[s] = loc[s]
    BY <1>1
  <2> QED BY <1>0, <1>1, <1>2, <1>5, <2>1, TakenStep DEF i
<1>10. Ups(b)' = Ups(b)
  BY <1>0, <1>1, <1>2, SetsSame DEF Updates
<1>11. SlotHeld(b)
  <2>1. ASSUME NEW j \in HasSlot(Loaded', Taken', b) PROVE Loaded'[j].list \in Held(b)
    <3>1. j \in HasSlot(Loaded, Taken, b) /\ Loaded'[j] = Loaded[j]
      BY <1>8, <1>9, <2>1 DEF HasSlot
    <3> QED BY <3>1, HeldIs
  <2> QED BY <2>1 DEF SlotHeld
<1> QED BY <1>1, <1>10, <1>11, HeldParts, HeldSame DEF TmpHeld

LEMMA BidHeld ==
  ASSUME "evict" \in Windows, "update" \in Windows, TypeInv, PostsInv, PlaceInv, KeptInv,
         NEW s \in Sessions, Bid(s), NEW b \in Boards \ harmed'
  PROVE  Held(b)' \subseteq Held(b)
<1> DEFINE i == loc[s].slot
           c == loc[s].cmd.b
           e == Cache(s)[i]
           x == [bid |-> c, list |-> e.list, changed |-> FALSE]
<1>0. OthersSame(s) /\ b \in Boards \ harmed /\ pc \in [Sessions -> Stages]
  BY OthersStep, HarmGrows DEF Step, TypeInv
<1>1. UNCHANGED <<row, tmp, entry>> /\ pc[s] = "bid"
  BY DEF Bid, files
<1>2. pc'[s] = "op"
  BY <1>0 DEF Bid, Goto
<1>3. Loaded \in [Slots -> Entry] /\ Own(s)
  BY <1>0, KeptNow
<1>4. loc[s].map # 0
  BY <1>1, <1>3 DEF Own, Placed
<1>5. loc[s].map = entry /\ entry # 0
  BY <1>0, <1>4, KeptNow
<1>6. Writes(entry, i, x)
  BY <1>5, BidWrites
<1>7. b = c => e.list = row[b]
  BY <1>0, Kinds DEF Bid, Harm
<1>8. x.bid = c /\ x.list = e.list
  OBVIOUS
<1> HIDE DEF i, x, c, e
<1>9. Loaded' = [Loaded EXCEPT ![i] = x]
  BY <1>1, <1>6, WritesLoaded
<1>10. i \in Slots => Loaded'[i] = x
  BY <1>3, <1>9
<1>11. \A j \in Slots \ {i} : Loaded'[j] = Loaded[j]
  BY <1>3, <1>9
<1>12. Taken \subseteq Taken' \cup {i}
  BY <1>0, <1>1, <1>2, TakenStep DEF i
<1>13. Ups(b)' = Ups(b)
  BY <1>0, <1>1, <1>2, SetsSame DEF Updates
<1>14. SlotHeld(b)
  <2>1. ASSUME NEW j \in HasSlot(Loaded', Taken', b) PROVE Loaded'[j].list \in Held(b)
    <3>1. CASE j = i
      <4>1. Loaded'[j].list = row[b]
        BY <1>7, <1>8, <1>10, <2>1, <3>1 DEF HasSlot
      <4> QED BY <4>1, HeldIs
    <3>2. CASE j # i
      <4>1. j \in HasSlot(Loaded, Taken, b) /\ Loaded'[j] = Loaded[j]
        BY <1>11, <1>12, <2>1, <3>2 DEF HasSlot
      <4> QED BY <4>1, HeldIs
    <3> QED BY <3>1, <3>2
  <2> QED BY <2>1 DEF SlotHeld
<1> QED BY <1>1, <1>13, <1>14, HeldParts, HeldSame DEF TmpHeld

(* brc_update reads the row, copies the slot of the board to what it has   *)
(* read, and that to the file.                                             *)
LEMMA UpdateHeld ==
  ASSUME "update" \in Windows, TypeInv, PostsInv, PlaceInv, KeptInv, NEW s \in Sessions,
         URead(s) \/ UCopy(s) \/ UFlag(s) \/ UWrite(s) \/ UMove(s), NEW b \in Boards \ harmed'
  PROVE  Held(b)' \subseteq Held(b)
<1>0. /\ OthersSame(s) /\ b \in Boards \ harmed /\ pc \in [Sessions -> Stages]
      /\ loc \in [Sessions -> Local] /\ loc[s] \in Local
  BY OthersStep, HarmGrows DEF Step, TypeInv
<1>1. entry' = entry /\ pc[s] \in {"update"} \cup Updates /\ pc[s] # "bid"
  BY DEF URead, UCopy, UFlag, UWrite, UMove, Updates
<1>2. pc'[s] # "bid"
  <2>1. loc[s].then # "bid"
    BY <1>0 DEF Local
  <2> QED BY <1>0, <2>1 DEF URead, UCopy, UFlag, UWrite, UMove, Updated, ToNext, Goto
<1>3. Taken' = Taken
  BY <1>0, <1>1, <1>2, SetsSame
<1>4. KeptAt(b) /\ Own(s) /\ Loaded \in [Slots -> Entry]
  BY <1>0, KeptNow
<1>5. loc[s].map # 0 /\ loc[s].then \in {"fill", "leave"}
  BY <1>0, <1>1, <1>4 DEF Own, Placed, Local
<1>6. Cache(s) = Loaded /\ loc[s].map = entry
  BY <1>0, <1>5, KeptNow
<1>7. pc[s] \in Updates => loc[s].data[b] \in Held(b)
  <2>1. pc[s] \in Updates => Row(s, b) \in Ups(b)
    BY UpsIs
  <2>2. Row(s, b).data = loc[s].data[b]
    BY DEF Row
  <2> QED BY <2>1, <2>2, HeldIs
<1>8. ASSUME pc'[s] \in Updates => loc'[s].data[b] \in Held(b) PROVE UpsHeld(b)
  <2>1. \A u \in UpsBut(s, b) : u.data \in Held(b)
    BY HeldIs DEF UpsBut
  <2>2. pc'[s] \in Updates => Row(s, b)'.data \in Held(b)
    BY <1>8 DEF Row
  <2>3. Ups(b)' \subseteq UpsBut(s, b) \cup (IF pc'[s] \in Updates THEN {Row(s, b)'} ELSE {})
    BY <1>0, UpsStep
  <2> QED BY <2>1, <2>2, <2>3 DEF UpsHeld
<1>9. ASSUME Updated(s) PROVE UpsHeld(b)
  <2>1. pc'[s] = loc[s].then
    BY <1>0, <1>9 DEF Updated, Goto
  <2>2. pc'[s] \notin Updates
    BY <1>5, <2>1 DEF Updates
  <2> QED BY <1>8, <2>2
<1>10. CASE URead(s)
  <2>1. UNCHANGED <<row, tmp>> /\ Loaded' = Loaded
    BY <1>1, <1>10 DEF URead, files, Loaded
  <2>2. CASE Updated(s)
    BY <1>3, <1>9, <2>1, <2>2, HeldParts, HeldSame DEF TmpHeld
  <2>3. CASE ToNext(s, 0, row)
    <3>1. loc'[s].data = row
      BY <1>0, <2>3 DEF ToNext, Local
    <3>2. UpsHeld(b)
      BY <1>8, <3>1, HeldIs
    <3> QED BY <1>3, <2>1, <3>2, HeldParts, HeldSame DEF TmpHeld
  <2> QED BY <1>10, <2>2, <2>3 DEF URead
<1>11. CASE UCopy(s)
  <2> DEFINE k == loc[s].k
  <2>1. UNCHANGED <<row, tmp>> /\ Loaded' = Loaded /\ pc[s] = "u_copy"
    BY <1>1, <1>11 DEF UCopy, files, Loaded
  <2>2. loc'[s].data[b] = IF Loaded[k].bid = b THEN Loaded[k].list ELSE loc[s].data[b]
    <3>1. loc' = [loc EXCEPT ![s].data = [y \in Boards |-> IF y = Loaded[k].bid THEN Loaded[k].list ELSE @[y]]]
      BY <1>6, <1>11 DEF UCopy
    <3>2. loc'[s].data = [y \in Boards |-> IF y = Loaded[k].bid THEN Loaded[k].list ELSE loc[s].data[y]]
      BY <1>0, <3>1 DEF Local
    <3> QED BY <1>0, <3>2
  <2>3. k \in Slots /\ k \in Copied
    BY <1>4, <2>1, CopiedIs DEF Own, Placed, Updates
  <2>4. Loaded[k].bid = b => Loaded[k].list \in Held(b)
    <3>1. Loaded[k].bid = b => k \in HasSlot(Loaded, Taken, b)
      BY <1>4, <2>3 DEF KeptAt, Kept, HasSlot
    <3> QED BY <3>1, HeldIs
  <2>5. loc'[s].data[b] \in Held(b)
    BY <1>7, <2>1, <2>2, <2>4 DEF Updates
  <2>6. UpsHeld(b)
    BY <1>8, <2>5
  <2> QED BY <1>3, <2>1, <2>6, HeldParts, HeldSame DEF TmpHeld
<1>12. CASE UFlag(s)
  <2> DEFINE k == loc[s].k
             x == [Cache(s)[k] EXCEPT !.changed = FALSE]
  <2>1. UNCHANGED <<row, tmp>> /\ pc[s] = "u_flag"
    BY <1>12 DEF UFlag, files
  <2>2. loc'[s].data = loc[s].data
    <3>1. ToNext(s, loc[s].k, loc[s].data)
      BY <1>12 DEF UFlag
    <3> QED BY <1>0, <3>1 DEF ToNext, Local
  <2>3. UpsHeld(b)
    BY <1>7, <1>8, <2>1, <2>2 DEF Updates
  <2>4. Writes(entry, k, x) /\ k \in Slots
    BY <1>6, <1>12, FlagWrites DEF Writes
  <2>5. x.list = Loaded[k].list /\ x.bid = Loaded[k].bid
    <3>1. Loaded[k] \in Entry
      BY <1>4, <2>4
    <3> QED BY <1>6, <3>1 DEF Entry
  <2> HIDE DEF x, k
  <2>6. Loaded' = [Loaded EXCEPT ![k] = x]
    BY <1>1, <2>4, WritesLoaded
  <2>7. \A j \in Slots : Loaded'[j].list = Loaded[j].list /\ Loaded'[j].bid = Loaded[j].bid
    BY <1>4, <2>4, <2>5, <2>6
  <2>8. SlotHeld(b)
    <3>1. HasSlot(Loaded', Taken', b) \subseteq HasSlot(Loaded, Taken, b)
      BY <1>3, <2>7 DEF HasSlot
    <3>2. \A j \in HasSlot(Loaded, Taken, b) : Loaded'[j].list = Loaded[j].list
      BY <2>7 DEF HasSlot
    <3> QED BY <3>1, <3>2, HeldSame
  <2> QED BY <2>1, <2>3, <2>8, HeldParts, HeldSame DEF TmpHeld
<1>13. CASE UWrite(s)
  <2>1. row' = row /\ Loaded' = Loaded /\ pc[s] \in Updates
    BY <1>1, <1>13 DEF UWrite, Loaded, Updates
  <2>2. CASE tmp' = loc[s].data /\ loc' = loc
    <3>1. UpsHeld(b)
      BY <1>7, <1>8, <2>1, <2>2
    <3>2. TmpHeld(b)
      BY <1>7, <2>1, <2>2 DEF TmpHeld
    <3> QED BY <1>3, <2>1, <3>1, <3>2, HeldParts, HeldSame
  <2>3. CASE tmp' = NoRows /\ Updated(s)
    BY <1>3, <1>9, <2>1, <2>3, HeldParts, HeldSame DEF TmpHeld
  <2> QED BY <1>13, <2>2, <2>3 DEF UWrite
<1>14. CASE UMove(s)
  <2>1. row' = (IF tmp = NoRows THEN row ELSE tmp) /\ tmp' = NoRows /\ Loaded' = Loaded /\ Updated(s)
    BY <1>1, <1>14 DEF UMove, Loaded
  <2>2. RowHeld(b)
    BY <2>1, HeldIs DEF RowHeld
  <2>3. TmpHeld(b) /\ UpsHeld(b)
    BY <1>9, <2>1 DEF TmpHeld
  <2> QED BY <1>3, <2>1, <2>2, <2>3, HeldParts, HeldSame
<1> QED BY <1>10, <1>11, <1>12, <1>13, <1>14

(* A command adds the list it writes, to the lists of its board. *)
LEMMA SeeHeld ==
  ASSUME TypeInv, NEW s \in Sessions, OthersSame(s), NEW b, pc[s] \in {"op", "set", "scan"},
         pc'[s] \in {"idle", "set", "scan"}, UNCHANGED <<row, tmp, maps, entry>>
  PROVE  Held(b)' \subseteq Held(b)
<1>1. Taken' = Taken /\ Ups(b)' = Ups(b) /\ Loaded' = Loaded
  BY SetsSame DEF Updates, Loaded
<1> QED BY <1>1, HeldParts, HeldSame DEF TmpHeld

LEMMA SetHeld ==
  ASSUME TypeInv, PostsInv, PlaceInv, KeptInv, NEW s \in Sessions, OthersSame(s), NEW b \in Boards \ harmed,
         pc[s] \in {"op", "set", "scan"}, pc'[s] = "idle", UNCHANGED <<row, tmp, entry>>, NEW y \in Lists, SetList(s, y)
  PROVE  Held(b)' \subseteq Held(b) \cup (IF loc[s].cmd.b = b THEN {y} ELSE {})
<1> DEFINE i == loc[s].cur
           x == [Loaded[i] EXCEPT !.list = y, !.changed = TRUE]
<1>1. Taken' = Taken /\ Ups(b)' = Ups(b)
  BY SetsSame DEF Updates
<1>2. Loaded \in [Slots -> Entry]
  BY KeptNow
<1>3. Cache(s) = Loaded /\ loc[s].map = entry /\ i \in Slots /\ Loaded[i] \in Entry
      /\ (loc[s].cmd.b # b => Loaded[i].bid # b)
  BY CurHas
<1>4. Writes(entry, i, x)
  BY <1>3, ListWrites
<1>5. x.bid = Loaded[i].bid /\ x.list = y
  BY <1>3 DEF Entry
<1> HIDE DEF x, i
<1>6. Loaded' = [Loaded EXCEPT ![i] = x]
  BY <1>4, WritesLoaded
<1>7. Loaded'[i] = x /\ \A j \in Slots \ {i} : Loaded'[j] = Loaded[j]
  BY <1>2, <1>3, <1>6
<1>8. ASSUME NEW j \in HasSlot(Loaded', Taken', b)
      PROVE  Loaded'[j].list \in Held(b) \/ (loc[s].cmd.b = b /\ Loaded'[j].list = y)
  <2>1. CASE j = i
    BY <1>3, <1>5, <1>7, <1>8, <2>1 DEF HasSlot
  <2>2. CASE j # i
    <3>1. j \in HasSlot(Loaded, Taken, b) /\ Loaded'[j] = Loaded[j]
      BY <1>1, <1>7, <1>8, <2>2 DEF HasSlot
    <3> QED BY <3>1, HeldIs
  <2> QED BY <2>1, <2>2
<1> QED BY <1>1, <1>8, HeldIs

-----------------------------------------------------------------------------
(* Every list of a board outside the windows stays honest.                 *)
AllExcepted == Excepted /\ {"numbered", "stale"} \subseteq Windows
HonestAt(b) == \A l \in Held(b) : Fit(l, nowid[b]) /\ Honest(l, seen[b], Given(b))

LEMMA HeldLists ==
  ASSUME TypeInv, PostsInv, PlaceInv, KeptInv, NEW b \in Boards \ harmed
  PROVE  Held(b) \subseteq Lists
<1>1. /\ row[b] \in Lists /\ Loaded \in [Slots -> Entry]
      /\ \A o \in Sessions : pc[o] \in Updates => loc[o].data[b] \in Lists
  BY KeptNow DEF TypeInv, Rows
<1>2. tmp # NoRows => tmp[b] \in Lists
  BY DEF TypeInv, Rows
<1>3. \A u \in Ups(b) : u.data \in Lists
  <2>1. \A o \in Sessions : Row(o, b).data = loc[o].data[b]
    BY DEF Row
  <2> QED BY <1>1, <2>1, UpsIs
<1>4. \A i \in HasSlot(Loaded, Taken, b) : Loaded[i].list \in Lists
  BY <1>1 DEF HasSlot, Entry
<1> QED BY <1>1, <1>2, <1>3, <1>4, HeldIs

LEMMA GivenIs ==
  ASSUME TypeInv, PostsInv, NEW b \in Boards
  PROVE  nowid[b] \in Nat /\ posts[b] \subseteq Given(b) /\ Given(b) \in SUBSET (1 .. nowid[b])
         /\ seen[b] \in SUBSET (1 .. nowid[b]) /\ seen[b] \subseteq posts[b]
<1>1. nowid[b] \in Nat /\ posts[b] \subseteq 1 .. nowid[b] /\ seen[b] \subseteq posts[b] /\ (b \in coming => nowid[b] > 0)
  BY DEF TypeInv, PostsInv
<1>2. b \in coming => nowid[b] \in 1 .. nowid[b]
  BY <1>1
<1> QED BY <1>1, <1>2 DEF Given

(* What is read grows; a step may write a list.                             *)
LEMMA MoreHonest ==
  ASSUME TypeInv, PostsInv, PostsInv', TypeInv', NEW b \in Boards, HonestAt(b), nowid' = nowid,
         seen[b] \subseteq seen'[b], NEW l \in Held(b)
  PROVE  Fit(l, nowid[b]) /\ Honest(l, seen'[b], Given(b))
<1> DEFINE fs  == seen[b]
           fs2 == seen'[b]
           ids == Given(b)
           n   == nowid[b]
<1>1. n \in Nat /\ ids \in SUBSET Nat /\ Fit(l, n) /\ Honest(l, fs, ids)
  BY GivenIs DEF HonestAt
<1>2. fs2 \in SUBSET (1 .. n) /\ fs \subseteq fs2
  BY DEF TypeInv, PostsInv
<1>3. Honest(l, fs2, ids)
  <2> HIDE DEF fs, fs2, ids, n
  <2> QED BY <1>1, <1>2, HonestMore
<1> QED BY <1>1, <1>3

LEMMA SameHonest ==
  ASSUME TypeInv, PostsInv, PostsInv', TypeInv', NEW b \in Boards, HonestAt(b), nowid' = nowid, Given(b)' = Given(b),
         seen[b] \subseteq seen'[b], Held(b)' \subseteq Held(b)
  PROVE  HonestAt(b)'
BY MoreHonest DEF HonestAt

LEMMA WriteHonest ==
  ASSUME TypeInv, PostsInv, PostsInv', TypeInv', NEW b \in Boards, HonestAt(b), nowid' = nowid, Given(b)' = Given(b),
         seen[b] \subseteq seen'[b], NEW y, Held(b)' \subseteq Held(b) \cup {y},
         Fit(y, nowid[b]), Honest(y, seen'[b], Given(b))
  PROVE  HonestAt(b)'
BY MoreHonest DEF HonestAt

(* Somebody posts. *)
LEMMA PostHonest ==
  ASSUME TypeInv, PostsInv, PlaceInv, KeptInv, HonestInv, NEW x \in Boards, Number(x) \/ Appear(x), NEW b \in Boards \ harmed'
  PROVE  HonestAt(b)'
<1>1. UNCHANGED <<row, tmp, maps, entry, pc, loc, seen, harmed>>
  BY DEF Number, Appear, files
<1>2. Loaded' = Loaded /\ Taken' = Taken /\ Ups(b)' = Ups(b)
  BY <1>1 DEF Loaded, Taken, Filling, Ups
<1>3. Held(b)' = Held(b)
  BY <1>1, <1>2 DEF Held
<1>4. HonestAt(b) /\ Held(b) \subseteq Lists
  BY <1>1, HeldLists DEF HonestInv, HonestAt
<1>5. nowid[b] \in Nat /\ nowid \in [Boards -> Nat] /\ posts \in [Boards -> SUBSET Nat]
  BY DEF TypeInv
<1>6. CASE nowid'[b] = nowid[b] /\ Given(b)' = Given(b)
  BY <1>1, <1>3, <1>4, <1>6 DEF HonestAt
<1>7. CASE nowid'[b] = nowid[b] + 1 /\ Given(b)' = Given(b) \cup {nowid[b] + 1}
  <2>1. ASSUME NEW l \in Held(b)
        PROVE  Fit(l, nowid[b] + 1) /\ Honest(l, seen[b], Given(b) \cup {nowid[b] + 1})
    <3>1. l \in Lists /\ Fit(l, nowid[b]) /\ Honest(l, seen[b], Given(b))
      BY <1>4, <2>1 DEF HonestAt
    <3> QED BY <1>5, <3>1, FitMore, HonestNumber
  <2> QED BY <1>1, <1>3, <1>7, <2>1 DEF HonestAt
<1>8. CASE Number(x)
  <2>1. x \notin coming /\ nowid' = [nowid EXCEPT ![x] = @ + 1] /\ coming' = coming \cup {x} /\ posts' = posts
    BY <1>8 DEF Number
  <2>2. CASE x = b
    <3>1. nowid'[b] = nowid[b] + 1
      BY <1>5, <2>1, <2>2
    <3>2. Given(b) = posts[b] /\ Given(b)' = posts[b] \cup {nowid'[b]}
      BY <2>1, <2>2 DEF Given
    <3> QED BY <1>7, <3>1, <3>2
  <2>3. CASE x # b
    <3>1. nowid'[b] = nowid[b] /\ (b \in coming' <=> b \in coming)
      BY <1>5, <2>1, <2>3
    <3> QED BY <1>6, <2>1, <3>1 DEF Given
  <2> QED BY <2>2, <2>3
<1>9. CASE Appear(x)
  <2>1. x \in coming /\ nowid' = nowid /\ coming' = coming \ {x} /\ posts' = [posts EXCEPT ![x] = @ \cup {nowid[x]}]
    BY <1>9 DEF Appear
  <2>2. CASE x = b
    <3>1. posts'[b] = posts[b] \cup {nowid[b]}
      BY <1>5, <2>1, <2>2
    <3>2. Given(b)' = Given(b)
      BY <2>1, <2>2, <3>1 DEF Given
    <3> QED BY <1>6, <2>1, <3>2
  <2>3. CASE x # b
    <3>1. posts'[b] = posts[b] /\ (b \in coming' <=> b \in coming)
      BY <1>5, <2>1, <2>3
    <3> QED BY <1>6, <2>1, <3>1 DEF Given
  <2> QED BY <2>2, <2>3
<1> QED BY <1>8, <1>9

(* The articles of other boards stay as they are. *)
LEMMA StepGiven ==
  ASSUME TypeInv, NEW s \in Sessions, Step(s), NEW b \in Boards
  PROVE  nowid' = nowid /\ coming' = coming /\ posts' = posts /\ Given(b)' = Given(b)
<1>1. UNCHANGED <<nowid, coming, posts>>
  BY ZenonT(30) DEF Step, Login, CountIn, LogoutStart, Leave, Unlink, Purge, Command, Stat, Zero, Lookup, Fill, Bid,
         URead, UCopy, UFlag, UWrite, UMove, Look, ReadFind, ReadSet, ReadTo, Clear, ListNow, ListScan, articles
<1> QED BY <1>1 DEF Given

LEMMA ReadHonest ==
  ASSUME "insert" \in Windows, TypeInv, PostsInv, PlaceInv, KeptInv, HonestInv, TypeInv', PostsInv',
         NEW s \in Sessions, ReadFind(s) \/ ReadSet(s), NEW b \in Boards \ harmed'
  PROVE  HonestAt(b)'
<1> DEFINE l == Loaded[loc[s].cur].list
           f == loc[s].cmd.id
           y == AddTo(loc[s].old, l, f)
<1>0. OthersSame(s) /\ b \in Boards \ harmed /\ pc \in [Sessions -> Stages] /\ b # NoBoard /\ seen \in [Boards -> SUBSET Nat]
  BY OthersStep, HarmGrows, Kinds DEF Step, TypeInv
<1>1. nowid' = nowid /\ Given(b)' = Given(b) /\ HonestAt(b)
  BY <1>0, StepGiven DEF Step, HonestInv, HonestAt
<1>2. UNCHANGED <<row, tmp, entry>> /\ pc[s] \in {"op", "set", "scan"}
  BY DEF ReadFind, ReadSet, files
<1>3. seen[b] \subseteq seen'[b]
  BY <1>0 DEF ReadFind, ReadSet, See
<1>4. CASE ReadFind(s)
  <2>1. maps' = maps /\ pc'[s] \in {"idle", "set"}
    BY <1>0, <1>4 DEF ReadFind, Done, Goto
  <2> QED BY <1>0, <1>1, <1>2, <1>3, <2>1, SeeHeld, SameHonest
<1>5. CASE ReadSet(s)
  <2>1. pc'[s] = "idle" /\ loc[s].cmd.op = "read"
    BY <1>0, <1>5 DEF ReadSet, Done, Goto, PlaceInv, Placed
  <2>2. /\ Cache(s) = Loaded /\ Loaded[loc[s].cur] \in Entry /\ f \in Nat /\ Own(s) /\ loc[s].cmd.b \in Boards
        /\ (loc[s].cmd.b = b => loc[s].cur \in HasSlot(Loaded, Taken, b))
    BY <1>0, <1>2, CurHas, OwnIs
  <2>3. l \in Lists /\ loc[s].old \in Lists
    BY <2>2 DEF Own, Local, Entry
  <2>4. y \in Lists
    BY <2>2, <2>3, AddToType
  <2>5. SetList(s, y)
    BY <1>5, <2>2 DEF ReadSet
  <2>6. Held(b)' \subseteq Held(b) \cup (IF loc[s].cmd.b = b THEN {y} ELSE {})
    <3> HIDE DEF y
    <3> QED BY <1>0, <1>2, <2>1, <2>4, <2>5, SetHeld
  <2>7. CASE loc[s].cmd.b # b
    BY <1>0, <1>1, <1>3, <2>6, <2>7, SameHonest
  <2>8. CASE loc[s].cmd.b = b
    <3>1. l = loc[s].old
      <4>1. harmed' = harmed \cup Late(s) \cup (IF l # loc[s].old THEN Harm("insert", {b}) ELSE {})
        BY <1>5, <2>2, <2>8 DEF ReadSet
      <4> QED BY <1>0, <4>1 DEF Harm
    <3>2. y = AddRead(l, f)
      BY <3>1 DEF AddRead
    <3>3. seen'[b] = seen[b] \cup {f}
      BY <1>0, <1>5, <2>8 DEF ReadSet, See
    <3>4. l \in Held(b)
      BY <2>2, <2>8, HeldIs
    <3>5. nowid[b] \in Nat /\ Fit(l, nowid[b]) /\ f \in 1 .. nowid[b]
      BY <1>0, <1>2, <2>1, <2>8, CurKept
    <3>6. Fit(y, nowid[b])
      BY <2>3, <3>2, <3>5, FitKept
    <3>7. Honest(l, seen[b], Given(b))
      BY <1>1, <3>4 DEF HonestAt
    <3>8. Honest(AddRead(l, f), seen[b] \cup {f}, Given(b))
      <4> HIDE DEF l, f
      <4>1. seen[b] \in SUBSET (1 .. nowid[b]) /\ Given(b) \in SUBSET (1 .. nowid[b])
        BY <1>0, GivenIs
      <4> QED BY <2>3, <3>5, <3>7, <4>1, HonestAdd
    <3> HIDE DEF y, l, f
    <3> QED BY <1>0, <1>1, <1>3, <2>6, <2>8, <3>2, <3>3, <3>6, <3>8, WriteHonest
  <2> QED BY <2>7, <2>8
<1> QED BY <1>4, <1>5

LEMMA ReadToHonest ==
  ASSUME TypeInv, PostsInv, PlaceInv, KeptInv, HonestInv, TypeInv', PostsInv',
         NEW s \in Sessions, ReadTo(s), NEW b \in Boards \ harmed'
  PROVE  HonestAt(b)'
<1> DEFINE l == Loaded[loc[s].cur].list
           f == loc[s].cmd.id
           y == ClearTo(l, f)
<1>0. OthersSame(s) /\ b \in Boards \ harmed /\ pc \in [Sessions -> Stages] /\ seen \in [Boards -> SUBSET Nat]
  BY OthersStep, HarmGrows DEF Step, TypeInv
<1>1. nowid' = nowid /\ Given(b)' = Given(b) /\ HonestAt(b)
  BY <1>0, StepGiven DEF Step, HonestInv, HonestAt
<1>2. UNCHANGED <<row, tmp, entry>> /\ pc[s] = "op" /\ loc[s].cmd.op = "to"
  BY DEF ReadTo, files
<1>3. pc'[s] = "idle"
  BY <1>0 DEF ReadTo, Done, Goto
<1>4. seen[b] \subseteq seen'[b]
  BY <1>0 DEF ReadTo, See
<1>5. /\ Cache(s) = Loaded /\ Loaded[loc[s].cur] \in Entry /\ f \in Nat /\ loc[s].cmd.b \in Boards
      /\ (loc[s].cmd.b = b => loc[s].cur \in HasSlot(Loaded, Taken, b))
  BY <1>0, <1>2, CurHas
<1>6. l \in Lists
  BY <1>5 DEF Entry
<1>7. y \in Lists
  BY <1>5, <1>6, ClearsType
<1>8. maps' = maps \/ SetList(s, y)
  BY <1>5 DEF ReadTo
<1>9. CASE maps' = maps
  BY <1>0, <1>1, <1>2, <1>3, <1>4, <1>9, SeeHeld, SameHonest
<1>10. CASE SetList(s, y)
  <2>1. Held(b)' \subseteq Held(b) \cup (IF loc[s].cmd.b = b THEN {y} ELSE {})
    <3> HIDE DEF y
    <3> QED BY <1>0, <1>2, <1>3, <1>7, <1>10, SetHeld
  <2>2. CASE loc[s].cmd.b # b
    BY <1>0, <1>1, <1>4, <2>1, <2>2, SameHonest
  <2>3. CASE loc[s].cmd.b = b
    <3>1. l \in Held(b)
      BY <1>5, <2>3, HeldIs
    <3>2. nowid[b] \in Nat /\ Fit(l, nowid[b]) /\ f \in 1 .. nowid[b]
      BY <1>0, <1>2, <2>3, CurKept
    <3>3. f \in posts[b] /\ (b \in coming => nowid[b] \notin posts[b])
      BY <1>2, <2>3 DEF PostsInv, HonestInv
    <3>4. Fit(y, nowid[b])
      BY <1>6, <3>2, FitKept
    <3>5. Honest(l, seen[b], Given(b))
      BY <1>1, <3>1 DEF HonestAt
    <3>6. seen'[b] = seen[b] \cup {g \in posts[b] : g <= f}
      BY <1>0, <2>3 DEF ReadTo, See
    <3>7. seen'[b] \in SUBSET (1 .. nowid[b]) /\ Given(b) \in SUBSET (1 .. nowid[b])
      BY <1>0, <1>1, GivenIs DEF TypeInv, PostsInv
    <3>8. f \in seen'[b]
      BY <3>2, <3>3, <3>6
    <3>9. ASSUME NEW g \in Given(b), g <= f PROVE g \in seen'[b]
      <4>1. CASE g \in posts[b]
        BY <3>6, <3>9, <4>1
      <4>2. CASE g \notin posts[b]
        <5>1. g = nowid[b] /\ nowid[b] \notin posts[b]
          BY <3>3, <4>2 DEF Given
        <5> QED BY <3>2, <3>3, <3>9, <5>1
      <4> QED BY <4>1, <4>2
    <3>10. Honest(ClearTo(l, f), seen'[b], Given(b))
      <4> DEFINE fs  == seen[b]
                 fs2 == seen'[b]
                 ids == Given(b)
                 n   == nowid[b]
      <4>1. /\ n \in Nat /\ f \in 1 .. n /\ fs2 \in SUBSET (1 .. n) /\ ids \in SUBSET (1 .. n) /\ fs \subseteq fs2
            /\ f \in fs2 /\ Honest(l, fs, ids) /\ \A g \in ids : g <= f => g \in fs2
        BY <1>4, <3>2, <3>5, <3>7, <3>8, <3>9
      <4> HIDE DEF l, f, fs, fs2, ids, n
      <4>2. Honest(ClearTo(l, f), fs2, ids)
        BY <1>6, <4>1, HonestTo
      <4> QED BY <4>2 DEF fs2, ids
    <3> HIDE DEF l, f
    <3> QED BY <1>0, <1>1, <1>4, <2>1, <2>3, <3>4, <3>10, WriteHonest
  <2> QED BY <2>2, <2>3
<1> QED BY <1>8, <1>9, <1>10

(* All of a board is marked as read while no article is still to come; a   *)
(* list that is ahead of nowid is a window.                                *)
LEMMA ClearHonest ==
  ASSUME {"numbered", "stale"} \subseteq Windows, TypeInv, PostsInv, PlaceInv, KeptInv, HonestInv, TypeInv', PostsInv',
         NEW s \in Sessions, Clear(s) \/ ListScan(s), NEW b \in Boards \ harmed'
  PROVE  HonestAt(b)'
<1> DEFINE l == Loaded[loc[s].cur].list
           y == ClearAll(l, nowid[loc[s].cmd.b])
<1>0. OthersSame(s) /\ b \in Boards \ harmed /\ pc \in [Sessions -> Stages] /\ seen \in [Boards -> SUBSET Nat] /\ b # NoBoard
      /\ \A x \in Boards : nowid[x] \in Nat
  BY OthersStep, HarmGrows, Kinds DEF Step, TypeInv
<1>1. nowid' = nowid /\ Given(b)' = Given(b) /\ HonestAt(b)
  BY <1>0, StepGiven DEF Step, HonestInv, HonestAt
<1>2. UNCHANGED <<row, tmp, entry>> /\ pc[s] \in {"op", "scan"}
  BY DEF Clear, ListScan, files
<1>3. pc'[s] = "idle"
  BY <1>0 DEF Clear, ListScan, Done, Goto
<1>4. seen[b] \subseteq seen'[b]
  BY <1>0 DEF Clear, ListScan, See
<1>5. /\ Cache(s) = Loaded /\ Loaded[loc[s].cur] \in Entry /\ loc[s].cmd.b \in Boards
      /\ (loc[s].cmd.b = b => loc[s].cur \in HasSlot(Loaded, Taken, b))
  BY <1>0, <1>2, CurHas
<1>6. l \in Lists
  BY <1>5 DEF Entry
<1>7. y \in Lists
  BY <1>0, <1>5, <1>6, ClearsType
<1>8. maps' = maps \/ SetList(s, y)
  BY <1>5 DEF Clear, ListScan
<1>9. CASE maps' = maps
  BY <1>0, <1>1, <1>2, <1>3, <1>4, <1>9, SeeHeld, SameHonest
<1>10. CASE SetList(s, y) /\ ~(maps' = maps)
  <2>1. Held(b)' \subseteq Held(b) \cup (IF loc[s].cmd.b = b THEN {y} ELSE {})
    <3> HIDE DEF y
    <3> QED BY <1>0, <1>2, <1>3, <1>7, <1>10, SetHeld
  <2>2. CASE loc[s].cmd.b # b
    BY <1>0, <1>1, <1>4, <2>1, <2>2, SameHonest
  <2>3. CASE loc[s].cmd.b = b
    <3>1. Clear(s)
      <4>1. SUFFICES ASSUME ListScan(s) PROVE FALSE
        OBVIOUS
      <4>2. Harm("stale", {b}) \subseteq harmed'
        BY <1>10, <2>3, <4>1 DEF ListScan
      <4> QED BY <1>0, <4>2 DEF Harm
    <3>2. b \notin coming
      BY <1>0, <2>3, <3>1 DEF Clear, Harm
    <3>3. seen'[b] = seen[b] \cup posts[b]
      BY <1>0, <2>3, <3>1 DEF Clear, See
    <3>4. Given(b) \subseteq seen'[b]
      BY <3>2, <3>3 DEF Given
    <3>5. nowid[b] \in Nat /\ Fit(l, nowid[b])
      BY <1>0, <1>2, <2>3, CurKept
    <3>6. Fit(y, nowid[b])
      BY <1>6, <2>3, <3>5, FitClearAll
    <3>7. Honest(y, seen'[b], Given(b))
      BY <1>6, <2>3, <3>4, <3>5, HonestAll
    <3> HIDE DEF y
    <3> QED BY <1>0, <1>1, <1>4, <2>1, <2>3, <3>6, <3>7, WriteHonest
  <2> QED BY <2>2, <2>3
<1> QED BY <1>8, <1>9, <1>10

LEMMA HonestStep ==
  ASSUME AllExcepted, TypeInv, PostsInv, PlaceInv, KeptInv, HonestInv, TypeInv', PostsInv', [Next]_vars
  PROVE  HonestInv'
<1>0. /\ "insert" \in Windows /\ "evict" \in Windows /\ "update" \in Windows /\ "unlink" \in Windows
      /\ "purged" \in Windows /\ {"numbered", "stale"} \subseteq Windows
  BY DEF AllExcepted, Excepted
<1>1. ASSUME NEW b \in Boards \ harmed' PROVE HonestAt(b)'
  <2>1. CASE UNCHANGED vars
    <3>1. b \in Boards \ harmed /\ UNCHANGED <<row, tmp, maps, entry, pc, loc, nowid, coming, posts, seen>>
      BY <1>1, <2>1 DEF vars, articles, files
    <3>2. Loaded' = Loaded /\ Taken' = Taken /\ Ups(b)' = Ups(b) /\ Given(b)' = Given(b)
      BY <3>1 DEF Loaded, Taken, Filling, Ups, Given
    <3>3. Held(b)' = Held(b)
      BY <3>1, <3>2 DEF Held
    <3> QED BY <3>1, <3>2, <3>3 DEF HonestInv, HonestAt
  <2>2. ASSUME NEW x \in Boards, Number(x) \/ Appear(x) PROVE HonestAt(b)'
    BY <1>1, <2>2, PostHonest
  <2>3. ASSUME NEW s \in Sessions, Step(s) PROVE HonestAt(b)'
    <3>1. b \in Boards \ harmed /\ nowid' = nowid /\ Given(b)' = Given(b) /\ HonestAt(b)
      BY <1>1, <2>3, HarmGrows, StepGiven DEF HonestInv, HonestAt
    <3>2. ASSUME seen' = seen, Held(b)' \subseteq Held(b) PROVE HonestAt(b)'
      BY <3>1, <3>2, SameHonest
    <3>3. CASE \/ Login(s) \/ CountIn(s) \/ LogoutStart(s) \/ Leave(s) \/ Stat(s) \/ \E c \in todo[s] : Command(s, c)
               \/ Lookup(s) \/ Look(s) \/ ListNow(s)
      <4>1. seen' = seen
        BY <3>3, ZenonT(30) DEF Login, CountIn, LogoutStart, Leave, Stat, Command, Lookup, Look, ListNow
      <4> QED BY <1>1, <3>2, <3>3, <4>1, PlainHeld
    <3>4. CASE Unlink(s) \/ Purge(s) \/ Zero(s) \/ Fill(s) \/ Bid(s)
      <4>1. seen' = seen
        BY <3>4 DEF Unlink, Purge, Zero, Fill, Bid
      <4> QED BY <1>0, <1>1, <3>2, <3>4, <4>1, UnlinkHeld, PurgeHeld, ZeroHeld, FillHeld, BidHeld
    <3>5. CASE URead(s) \/ UCopy(s) \/ UFlag(s) \/ UWrite(s) \/ UMove(s)
      <4>1. seen' = seen
        BY <3>5 DEF URead, UCopy, UFlag, UWrite, UMove
      <4> QED BY <1>0, <1>1, <3>2, <3>5, <4>1, UpdateHeld
    <3>6. CASE ReadFind(s) \/ ReadSet(s) \/ ReadTo(s) \/ Clear(s) \/ ListScan(s)
      BY <1>0, <1>1, <3>6, ReadHonest, ReadToHonest, ClearHonest
    <3> QED BY <2>3, <3>3, <3>4, <3>5, <3>6 DEF Step
  <2> QED BY <2>1, <2>2, <2>3, NextIs
<1>2. ASSUME NEW b \in coming' PROVE nowid'[b] \notin posts'[b]
  <2>0. nowid \in [Boards -> Nat] /\ posts \in [Boards -> SUBSET Nat] /\ coming \subseteq Boards
        /\ \A x \in Boards : posts[x] \subseteq 1 .. nowid[x]
    BY DEF TypeInv, PostsInv
  <2>1. CASE nowid' = nowid /\ coming' = coming /\ posts' = posts
    BY <1>2, <2>1 DEF HonestInv
  <2>2. ASSUME NEW x \in Boards, Number(x) PROVE nowid'[b] \notin posts'[b]
    <3>1. posts' = posts /\ nowid' = [nowid EXCEPT ![x] = @ + 1] /\ coming' = coming \cup {x}
      BY <2>2 DEF Number
    <3>2. CASE b = x
      <4>1. nowid'[b] = nowid[b] + 1 /\ nowid[b] \in Nat /\ posts[b] \subseteq 1 .. nowid[b]
        BY <2>0, <3>1, <3>2
      <4>2. nowid[b] + 1 \notin 1 .. nowid[b]
        BY <4>1
      <4> QED BY <3>1, <4>1, <4>2
    <3>3. CASE b # x
      <4>1. b \in coming /\ nowid'[b] = nowid[b]
        BY <1>2, <2>0, <3>1, <3>3
      <4> QED BY <3>1, <4>1 DEF HonestInv
    <3> QED BY <3>2, <3>3
  <2>3. ASSUME NEW x \in Boards, Appear(x) PROVE nowid'[b] \notin posts'[b]
    <3>1. nowid' = nowid /\ coming' = coming \ {x} /\ posts' = [posts EXCEPT ![x] = @ \cup {nowid[x]}]
      BY <2>3 DEF Appear
    <3>2. b # x /\ b \in coming /\ posts'[b] = posts[b]
      BY <1>2, <2>0, <3>1
    <3> QED BY <3>1, <3>2 DEF HonestInv
  <2>4. ASSUME NEW s \in Sessions, Step(s) PROVE nowid' = nowid /\ coming' = coming /\ posts' = posts
    <3>1. coming \subseteq Boards
      BY <2>0
    <3> QED BY <2>4, ZenonT(30) DEF Step, Login, CountIn, LogoutStart, Leave, Unlink, Purge, Command, Stat, Zero, Lookup, Fill, Bid,
         URead, UCopy, UFlag, UWrite, UMove, Look, ReadFind, ReadSet, ReadTo, Clear, ListNow, ListScan, articles
  <2>5. CASE UNCHANGED vars
    BY <2>1, <2>5 DEF vars, articles
  <2> QED BY <2>1, <2>2, <2>3, <2>4, <2>5, NextIs
<1> QED BY <1>1, <1>2 DEF HonestInv, HonestAt

LEMMA InitHonest == Init => HonestInv
<1>1. SUFFICES ASSUME Init PROVE HonestInv
  OBVIOUS
<1>2. TypeInv /\ PostsInv
  BY <1>1, InitInv DEF Inv
<1>3. /\ coming = {} /\ row = [b \in Boards |-> NoMarks] /\ tmp = NoRows /\ entry = 0
      /\ pc = [s \in Sessions |-> "off"]
  BY <1>1 DEF Init
<1>4. ASSUME NEW b \in Boards PROVE HonestAt(b)
  <2>1. Ups(b) = {}
    <3>1. \A s \in Sessions : pc[s] \notin Updates
      BY <1>3 DEF Updates
    <3> QED BY <3>1, UpsIs
  <2>2. HasSlot(Loaded, Taken, b) = {}
    BY <1>3, Kinds DEF Loaded, HasSlot, ZeroEntry
  <2>3. Held(b) \subseteq {NoMarks}
    BY <1>3, <2>1, <2>2, HeldIs
  <2>4. nowid[b] \in Nat /\ Given(b) \in SUBSET Nat
    BY <1>2, GivenIs
  <2> QED BY <2>3, <2>4, FitNoMarks, HonestNone DEF HonestAt
<1> QED BY <1>3, <1>4 DEF HonestInv, HonestAt

LEMMA ShownHeld ==
  ASSUME TypeInv, NEW b \in Boards
  PROVE  Shown(b) \in Held(b)
<1>1. CachedAt(b) = HasSlot(Loaded, Taken, b)
  <2>1. CASE entry = 0
    BY <2>1, Kinds DEF CachedAt, HasSlot, Loaded, ZeroEntry
  <2>2. CASE entry # 0
    BY <2>2 DEF CachedAt, HasSlot, Loaded, Taken
  <2> QED BY <2>1, <2>2
<1>2. CASE CachedAt(b) = {}
  BY <1>2, HeldIs DEF Shown
<1>3. CASE CachedAt(b) # {}
  <2> DEFINE i == Min(CachedAt(b))
  <2>1. CachedAt(b) \in SUBSET Nat
    BY <1>1, Kinds DEF HasSlot
  <2>2. i \in CachedAt(b)
    BY <1>3, <2>1, MinIs
  <2> HIDE DEF i
  <2>3. Loaded = maps[entry]
    BY <2>2 DEF CachedAt, Loaded
  <2>4. Shown(b) = Loaded[i].list
    BY <1>3, <2>3 DEF Shown, i
  <2> QED BY <1>1, <2>2, <2>4, HeldIs
<1> QED BY <1>2, <1>3

LEMMA HonestShown == TypeInv /\ PostsInv /\ HonestInv => NothingFalselyRead
<1>1. SUFFICES ASSUME TypeInv, PostsInv, HonestInv, NEW b \in Boards \ harmed, NEW g \in posts[b] \ (seen[b] \cup {1}),
                      Cardinality({f \in seen[b] : f > g}) < MaxNum, ~Unread(Shown(b), g)
               PROVE  FALSE
  BY DEF NothingFalselyRead
<1>2. Honest(Shown(b), seen[b], Given(b))
  BY <1>1, ShownHeld DEF HonestInv
<1>3. nowid[b] \in Nat /\ posts[b] \subseteq Given(b) /\ seen[b] \in SUBSET (1 .. nowid[b])
  BY <1>1, GivenIs
<1>4. Crowded(seen[b], g)
  BY <1>1, <1>2, <1>3 DEF Honest
<1> DEFINE S == {f \in seen[b] : f > g}
<1>5. Cardinality(S) >= MaxNum /\ Cardinality(S) < MaxNum
  BY <1>1, <1>4 DEF Crowded
<1>6. S \in SUBSET (1 .. nowid[b])
  BY <1>3
<1>7. IsFiniteSet(1 .. nowid[b])
  BY <1>3, FS_Interval
<1> HIDE DEF S
<1>8. Cardinality(S) \in Nat
  BY <1>6, <1>7, FS_Subset, FS_CardinalityType
<1> QED BY <1>5, <1>8, MaxNumAssumption

(* An article the user has not read is not shown to him as read on such a  *)
(* board, whichever of his sessions loads, marks, evicts or writes back    *)
(* its marks, unless BRC_MAXNUM newer ones are read; the windows are those *)
(* above, and that all is marked as read while an article is being posted, *)
(* or by a session that has read an older nowid (brc_add_read,             *)
(* brc_clear_new_flag, brc_clear, brc_board_unread).                       *)
THEOREM NothingIsFalselyRead == ASSUME AllExcepted PROVE Spec => []NothingFalselyRead
<1>1. Init => Inv /\ HonestInv
  BY InitInv, InitHonest
<1>2. Inv /\ HonestInv /\ [Next]_vars => Inv' /\ HonestInv'
  <2>1. SUFFICES ASSUME Inv, HonestInv, [Next]_vars PROVE Inv' /\ HonestInv'
    OBVIOUS
  <2>2. Inv'
    BY <2>1, InvStep DEF AllExcepted
  <2>3. HonestInv'
    BY <2>1, <2>2, HonestStep DEF Inv
  <2> QED BY <2>2, <2>3
<1>3. Inv /\ HonestInv => NothingFalselyRead
  BY HonestShown DEF Inv
<1> QED BY <1>1, <1>2, <1>3, PTL DEF Spec

=============================================================================
