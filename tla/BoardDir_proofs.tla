-------------------------- MODULE BoardDir_proofs --------------------------
(***************************************************************************)
(* Proofs about BoardDir, for any number of processes, articles and ids.   *)
(*                                                                         *)
(* The inductive invariant is in layers: TypeInv needs nothing, IdInv      *)
(* needs that the machine is only stopped in order (~Crash), SortInv that  *)
(* at most one process deletes, OnceInv that at most one recovers, and     *)
(* WholeInv that one process posts, deletes and recovers.                  *)
(***************************************************************************)
EXTENDS BoardDir, FiniteSetTheorems, TLAPS

-----------------------------------------------------------------------------
(* What the operations on the table return. *)

LEMMA ZeroType == Zero \in Entry
  BY DEF Zero, Entry

LEMMA EntryId ==
  ASSUME NEW r \in Entry, NEW n \in Nat
  PROVE  [r EXCEPT !.id = n] \in Entry
  BY DEF Entry

LEMMA EntryMarked ==
  ASSUME NEW r \in Entry, NEW b \in BOOLEAN
  PROVE  [r EXCEPT !.marked = b] \in Entry
  BY DEF Entry

LEMMA ViewType ==
  ASSUME dir \in Seq(Entry), NEW n \in Int
  PROVE  View(n) \in Seq(Entry) /\ (n \in Nat => Len(View(n)) = n)
  <1>1. \A i \in 1 .. n : (IF i <= Len(dir) THEN dir[i] ELSE Zero) \in Entry
    BY ZeroType
  <1>2. CASE n \in Nat
    BY <1>1, <1>2 DEF View
  <1>3. CASE n \notin Nat
    <2>1. 1 .. n = 1 .. 0
      BY <1>3
    <2> QED
      BY <1>1, <1>3, <2>1 DEF View
  <1> QED
    BY <1>2, <1>3

LEMMA MakeRoomType ==
  ASSUME NEW S, NEW table \in Seq(S), table # <<>>, NEW low \in 1 .. Len(table) + 1
  PROVE  /\ MakeRoom(table, low) \in Seq(S)
         /\ Len(MakeRoom(table, low)) = Len(table) + 1
  BY DEF MakeRoom

LEMMA MoveOverType ==
  ASSUME NEW S, NEW table \in Seq(S), NEW view \in Seq(S), NEW e \in Nat
  PROVE  /\ MoveOver(table, view, e) \in Seq(S)
         /\ Len(MoveOver(table, view, e)) = Len(table)
  BY DEF MoveOver

LEMMA MoveOverEach ==
  ASSUME NEW S, NEW table \in Seq(S), NEW view \in Seq(S), NEW e \in Nat
  PROVE  \A i \in DOMAIN MoveOver(table, view, e) :
            \/ \E j \in DOMAIN table : MoveOver(table, view, e)[i] = table[j]
            \/ \E j \in DOMAIN view : MoveOver(table, view, e)[i] = view[j]
  BY DEF MoveOver

-----------------------------------------------------------------------------
(* The first layer: types and lock discipline. *)

LEMMA TypeInvStep ==
  TypeInv /\ [Next]_vars => TypeInv'
  <1> SUFFICES ASSUME TypeOK, LockHeld, EntriesNumbered, InRange, [Next]_vars
               PROVE  TypeOK' /\ LockHeld' /\ EntriesNumbered' /\ InRange'
    BY DEF TypeInv
  <1> USE NoneAssumption, BinsAssumption, ZeroType
  <1> USE DEF At, Goto, LockFree, Keep, Finish, shared, local
  <1>1. ASSUME NEW p \in Procs, PostStart(p)
        PROVE  TypeOK' /\ LockHeld' /\ EntriesNumbered' /\ InRange'
    <2>1. TypeOK'
      BY <1>1 DEF PostStart, TypeOK, Operations, Entry
    <2>2. LockHeld'
      BY <1>1 DEF PostStart, LockHeld, TypeOK
    <2>3. EntriesNumbered'
      BY <1>1 DEF PostStart, EntriesNumbered, TypeOK, Numbered, Zero, Entry
    <2>4. InRange'
      BY <1>1 DEF PostStart, InRange, LockHeld, TypeOK, Entry
    <2> QED
      BY <2>1, <2>2, <2>3, <2>4
  <1>2. ASSUME NEW p \in Procs, PostTakeId(p)
        PROVE  TypeOK' /\ LockHeld' /\ EntriesNumbered' /\ InRange'
    <2>1. TypeOK'
      <3>1. tgt[p] \in Entry /\ nowid + 1 \in Nat
        BY DEF TypeOK
      <3>2. [tgt[p] EXCEPT !.id = nowid + 1] \in Entry
        BY <3>1, EntryId, Zenon
      <3>3. tgt' \in [Procs -> Entry]
        BY <3>2, <1>2 DEF PostTakeId, TypeOK
      <3> QED
        BY <3>1, <3>2, <3>3, <1>2 DEF PostTakeId, TypeOK, Operations
    <2>2. LockHeld'
      BY <1>2 DEF PostTakeId, LockHeld, TypeOK
    <2>3. EntriesNumbered'
      BY <1>2 DEF PostTakeId, EntriesNumbered, TypeOK, Numbered, Zero, Entry
    <2>4. InRange'
      BY <1>2 DEF PostTakeId, InRange, LockHeld, TypeOK, Entry
    <2> QED
      BY <2>1, <2>2, <2>3, <2>4
  <1>3. ASSUME NEW p \in Procs, PostAppend(p)
        PROVE  TypeOK' /\ LockHeld' /\ EntriesNumbered' /\ InRange'
    <2>1. TypeOK'
      BY <1>3 DEF PostAppend, TypeOK, Operations, Entry
    <2>2. LockHeld'
      BY <1>3 DEF PostAppend, LockHeld, TypeOK
    <2>3. EntriesNumbered'
      <3>1. Numbered(tgt[p])
        BY <1>3 DEF PostAppend, EntriesNumbered
      <3>2. \A i \in DOMAIN dir' : Numbered(dir'[i])
        BY <3>1, <1>3 DEF PostAppend, EntriesNumbered, TypeOK
      <3> QED
        BY <3>1, <3>2, <1>3 DEF PostAppend, EntriesNumbered, TypeOK, Numbered, Zero
    <2>4. InRange'
      BY <1>3 DEF PostAppend, InRange, LockHeld, TypeOK, Entry
    <2> QED
      BY <2>1, <2>2, <2>3, <2>4
  <1>4. ASSUME NEW p \in Procs, PostFiltered(p)
        PROVE  TypeOK' /\ LockHeld' /\ EntriesNumbered' /\ InRange'
    <2>1. TypeOK'
      <3>1. body' \in [Posts -> {"none", "M", "D", "J"}]
        BY <1>4 DEF PostFiltered, TypeOK
      <3> QED
        BY <3>1, <1>4 DEF PostFiltered, TypeOK, Operations
    <2>2. LockHeld'
      BY <1>4 DEF PostFiltered, LockHeld, TypeOK
    <2>3. EntriesNumbered'
      BY <1>4 DEF PostFiltered, EntriesNumbered, TypeOK, Numbered, Zero, Entry
    <2>4. InRange'
      BY <1>4 DEF PostFiltered, InRange, LockHeld, TypeOK, Entry
    <2> QED
      BY <2>1, <2>2, <2>3, <2>4
  <1>5. ASSUME NEW p \in Procs, DelStart(p)
        PROVE  TypeOK' /\ LockHeld' /\ EntriesNumbered' /\ InRange'
    <2>1. TypeOK'
      <3>1. tgt' \in [Procs -> Entry]
        BY <1>5 DEF DelStart, Pick, TypeOK
      <3>2. ent' \in [Procs -> Nat]
        BY <1>5 DEF DelStart, Pick, TypeOK
      <3>3. bin' \in [Procs -> {"D", "J", "none"}]
        BY <1>5 DEF DelStart, Pick, TypeOK
      <3>4. op' \in [Procs -> Operations \cup {"none"}]
        BY <1>5 DEF DelStart, Pick, TypeOK, Operations
      <3> QED
        BY <3>1, <3>2, <3>3, <3>4, <1>5 DEF DelStart, Pick, TypeOK
    <2>2. LockHeld'
      BY <1>5 DEF DelStart, Pick, LockHeld, TypeOK
    <2>3. EntriesNumbered'
      BY <1>5 DEF DelStart, Pick, EntriesNumbered, TypeOK, Numbered, Zero, Entry
    <2>4. InRange'
      BY <1>5 DEF DelStart, Pick, InRange, LockHeld, TypeOK, Entry
    <2> QED
      BY <2>1, <2>2, <2>3, <2>4
  <1>6. ASSUME NEW p \in Procs, FlagStart(p)
        PROVE  TypeOK' /\ LockHeld' /\ EntriesNumbered' /\ InRange'
    <2>1. TypeOK'
      <3>1. tgt' \in [Procs -> Entry]
        BY <1>6 DEF FlagStart, Pick, TypeOK
      <3>2. ent' \in [Procs -> Nat]
        BY <1>6 DEF FlagStart, Pick, TypeOK
      <3>3. bin' \in [Procs -> {"D", "J", "none"}]
        BY <1>6 DEF FlagStart, Pick, TypeOK
      <3>4. op' \in [Procs -> Operations \cup {"none"}]
        BY <1>6 DEF FlagStart, Pick, TypeOK, Operations
      <3> QED
        BY <3>1, <3>2, <3>3, <3>4, <1>6 DEF FlagStart, Pick, TypeOK
    <2>2. LockHeld'
      BY <1>6 DEF FlagStart, Pick, LockHeld, TypeOK
    <2>3. EntriesNumbered'
      BY <1>6 DEF FlagStart, Pick, EntriesNumbered, TypeOK, Numbered, Zero, Entry
    <2>4. InRange'
      BY <1>6 DEF FlagStart, Pick, InRange, LockHeld, TypeOK, Entry
    <2> QED
      BY <2>1, <2>2, <2>3, <2>4
  <1>7. ASSUME NEW p \in Procs, MapDir(p)
        PROVE  TypeOK' /\ LockHeld' /\ EntriesNumbered' /\ InRange'
    <2>1. TypeOK'
      <3>1. Len(dir) \in Nat
        BY DEF TypeOK
      <3>2. CASE Finish(p) /\ UNCHANGED shared
        BY <3>2 DEF TypeOK, Operations
      <3>3. CASE /\ size' = [size EXCEPT ![p] = Len(dir)]
                 /\ Goto(p, "lock")
                 /\ UNCHANGED <<op, tgt, ent, bin>> /\ UNCHANGED shared
        BY <3>1, <3>3 DEF TypeOK
      <3> QED
        BY <3>2, <3>3, <1>7 DEF MapDir
    <2>2. LockHeld'
      BY <1>7 DEF MapDir, LockHeld, TypeOK
    <2>3. EntriesNumbered'
      <3>1. CASE Finish(p) /\ UNCHANGED shared
        BY <3>1 DEF EntriesNumbered, TypeOK
      <3>2. CASE Goto(p, "lock") /\ UNCHANGED <<op, tgt, ent, bin>> /\ UNCHANGED shared
        BY <3>2, <1>7 DEF MapDir, EntriesNumbered, TypeOK
      <3> QED
        BY <3>1, <3>2, <1>7 DEF MapDir
    <2>4. InRange'
      <3>1. CASE Finish(p) /\ UNCHANGED shared
        BY <3>1, <1>7 DEF MapDir, InRange, TypeOK
      <3>2. CASE ~(Finish(p) /\ UNCHANGED shared)
        BY <3>2, <1>7 DEF MapDir, InRange, TypeOK
      <3> QED
        BY <3>1, <3>2
    <2> QED
      BY <2>1, <2>2, <2>3, <2>4
  <1>8. ASSUME NEW p \in Procs, Locate(p)
        PROVE  TypeOK' /\ LockHeld' /\ EntriesNumbered' /\ InRange'
    <2>1. TypeOK'
      <3>1. Located(p) \subseteq Nat
        <4>1. Hits(View(size[p]), tgt[p].id) \subseteq Nat
          BY DEF Hits, View
        <4>2. ent[p] \in Nat
          BY DEF TypeOK
        <4> QED
          BY <4>1, <4>2 DEF Located
      <3>2. ent' \in [Procs -> Nat]
        BY <3>1, <1>8 DEF Locate, TypeOK
      <3> QED
        BY <3>1, <3>2, <1>8 DEF Locate, TypeOK, Operations
    <2>2. LockHeld'
      BY <1>8 DEF Locate, LockHeld, TypeOK
    <2>3. EntriesNumbered'
      BY <1>8 DEF Locate, EntriesNumbered, TypeOK, Numbered, Zero, Entry
    <2>4. InRange'
      <3>1. tgt[p] \in Entry /\ tgt[p].name # NoPost /\ tgt[p].id > 0
        BY <1>8 DEF Locate, InRange, EntriesNumbered, Numbered, TypeOK
      <3>2. Located(p) \subseteq DOMAIN dir
        BY <3>1 DEF Located, InPlace, Hits, View, Zero, TypeOK
      <3>3. ent'[p] \in DOMAIN dir
        BY <3>2, <1>8 DEF Locate, TypeOK
      <3> QED
        BY <3>1, <3>2, <3>3, <1>8 DEF Locate, InRange, LockHeld, TypeOK
    <2> QED
      BY <2>1, <2>2, <2>3, <2>4
  <1>9. ASSUME NEW p \in Procs, LocateFails(p)
        PROVE  TypeOK' /\ LockHeld' /\ EntriesNumbered' /\ InRange'
    <2>1. TypeOK'
      BY <1>9 DEF LocateFails, TypeOK, Operations, Entry
    <2>2. LockHeld'
      BY <1>9 DEF LocateFails, LockHeld, TypeOK
    <2>3. EntriesNumbered'
      BY <1>9 DEF LocateFails, EntriesNumbered, TypeOK, Numbered, Zero, Entry
    <2>4. InRange'
      BY <1>9 DEF LocateFails, InRange, LockHeld, TypeOK, Entry
    <2> QED
      BY <2>1, <2>2, <2>3, <2>4
  <1>10. ASSUME NEW p \in Procs, FlagCommit(p)
        PROVE  TypeOK' /\ LockHeld' /\ EntriesNumbered' /\ InRange'
    <2>1. TypeOK'
      <3>1. ent[p] \in DOMAIN dir
        BY <1>10 DEF FlagCommit, InRange
      <3>2. dir[ent[p]] \in Entry /\ (~tgt[p].marked) \in BOOLEAN
        <4>1. dir[ent[p]] \in Entry
          BY <3>1 DEF TypeOK
        <4>2. (~tgt[p].marked) \in BOOLEAN
          BY Zenon
        <4> QED
          BY <4>1, <4>2
      <3>3. [dir[ent[p]] EXCEPT !.marked = ~tgt[p].marked] \in Entry
        BY <3>2, EntryMarked, Zenon
      <3>4. dir' \in Seq(Entry)
        BY <3>1, <3>3, <1>10 DEF FlagCommit, TypeOK
      <3> QED
        BY <3>1, <3>2, <3>3, <3>4, <1>10 DEF FlagCommit, TypeOK, Operations
    <2>2. LockHeld'
      BY <1>10 DEF FlagCommit, LockHeld, TypeOK
    <2>3. EntriesNumbered'
      <3>1. /\ dir' = [dir EXCEPT ![ent[p]].marked = ~tgt[p].marked]
            /\ trash' = trash /\ tgt' = [tgt EXCEPT ![p] = Zero] /\ pc' = [pc EXCEPT ![p] = "idle"]
        BY <1>10 DEF FlagCommit, Finish
      <3>2. \A i \in DOMAIN dir' : i \in DOMAIN dir /\ dir'[i].id = dir[i].id /\ dir'[i].name = dir[i].name
        <4> SUFFICES ASSUME NEW i \in DOMAIN dir'
                     PROVE  i \in DOMAIN dir /\ dir'[i].id = dir[i].id /\ dir'[i].name = dir[i].name
          OBVIOUS
        <4>1. i \in DOMAIN dir
          BY <3>1
        <4>2. dir[i] \in Entry
          BY <4>1 DEF TypeOK
        <4>3. dir'[i] = IF i = ent[p] THEN [dir[i] EXCEPT !.marked = ~tgt[p].marked] ELSE dir[i]
          BY <3>1, <4>1
        <4> QED
          BY <4>1, <4>2, <4>3 DEF Entry
      <3>3. \A i \in DOMAIN dir' : Numbered(dir'[i])
        BY <3>2 DEF EntriesNumbered, Numbered
      <3>4. \A q \in Procs : pc'[q] \notin {"idle", "post"} => pc[q] \notin {"idle", "post"} /\ tgt'[q] = tgt[q]
        BY <3>1 DEF TypeOK
      <3> QED
        BY <3>1, <3>3, <3>4 DEF EntriesNumbered
    <2>4. InRange'
      BY <1>10 DEF FlagCommit, InRange, LockHeld, TypeOK, Entry
    <2> QED
      BY <2>1, <2>2, <2>3, <2>4
  <1>11. ASSUME NEW p \in Procs, DelMove(p)
        PROVE  TypeOK' /\ LockHeld' /\ EntriesNumbered' /\ InRange'
    <2>1. TypeOK'
      <3>1. ent[p] \in DOMAIN dir /\ size[p] \in Nat
        BY <1>11 DEF DelMove, InRange, TypeOK
      <3>2. dir' \in Seq(Entry)
        BY <3>1, ViewType, MoveOverType, <1>11 DEF DelMove, TypeOK
      <3>3. tgt' \in [Procs -> Entry]
        BY <3>1, <1>11 DEF DelMove, TypeOK
      <3> QED
        BY <3>1, <3>2, <3>3, <1>11 DEF DelMove, TypeOK, Operations
    <2>2. LockHeld'
      BY <1>11 DEF DelMove, LockHeld, TypeOK
    <2>3. EntriesNumbered'
      <3>1. ent[p] \in DOMAIN dir
        BY <1>11 DEF DelMove, InRange
      <3>2. \A i \in 1 .. Len(View(size[p])) : Numbered(View(size[p])[i])
        BY ViewType DEF View, Zero, Numbered, EntriesNumbered, TypeOK
      <3>3. Numbered(dir[ent[p]])
        BY <3>1 DEF EntriesNumbered
      <3>4. \A i \in DOMAIN dir' :
              \/ \E j \in DOMAIN dir : dir'[i] = dir[j]
              \/ \E j \in DOMAIN View(size[p]) : dir'[i] = View(size[p])[j]
        <4>1. View(size[p]) \in Seq(Entry) /\ dir \in Seq(Entry) /\ ent[p] \in Nat
          BY <3>1, ViewType DEF TypeOK
        <4>2. dir' = MoveOver(dir, View(size[p]), ent[p])
          BY <1>11 DEF DelMove
        <4> QED
          BY <4>1, <4>2, MoveOverEach
      <3>5. \A i \in DOMAIN dir' : Numbered(dir'[i])
        <4>1. DOMAIN View(size[p]) = 1 .. Len(View(size[p]))
          BY ViewType DEF TypeOK
        <4> QED
          BY <3>2, <3>4, <4>1 DEF EntriesNumbered
      <3> QED
        BY <3>1, <3>2, <3>3, <3>4, <3>5, <1>11 DEF DelMove, EntriesNumbered, TypeOK
    <2>4. InRange'
      BY <1>11 DEF DelMove, InRange, LockHeld, TypeOK, Entry
    <2> QED
      BY <2>1, <2>2, <2>3, <2>4
  <1>12. ASSUME NEW p \in Procs, DelCut(p)
        PROVE  TypeOK' /\ LockHeld' /\ EntriesNumbered' /\ InRange'
    <2>1. TypeOK'
      <3>1. size[p] - 1 \in Nat
        BY <1>12 DEF DelCut, InRange, TypeOK
      <3>2. dir' \in Seq(Entry)
        BY <3>1, ViewType, <1>12 DEF DelCut, TypeOK
      <3> QED
        BY <3>1, <3>2, <1>12 DEF DelCut, TypeOK, Operations
    <2>2. LockHeld'
      BY <1>12 DEF DelCut, LockHeld, TypeOK
    <2>3. EntriesNumbered'
      <3>1. \A i \in DOMAIN dir' : Numbered(dir'[i])
        BY <1>12 DEF DelCut, View, Zero, Numbered, EntriesNumbered, TypeOK
      <3> QED
        BY <3>1, <1>12 DEF DelCut, EntriesNumbered, TypeOK
    <2>4. InRange'
      BY <1>12 DEF DelCut, InRange, LockHeld, TypeOK, Entry
    <2> QED
      BY <2>1, <2>2, <2>3, <2>4
  <1>13. ASSUME NEW p \in Procs, DelFault(p)
        PROVE  TypeOK' /\ LockHeld' /\ EntriesNumbered' /\ InRange'
    <2>1. TypeOK'
      <3>1. ent[p] \in DOMAIN dir
        BY <1>13 DEF DelFault, InRange, TypeOK
      <3>2. dir' \in Seq(Entry)
        BY <3>1, MoveOverType, <1>13 DEF DelFault, TypeOK
      <3>3. tgt' \in [Procs -> Entry]
        BY <3>1, <1>13 DEF DelFault, TypeOK
      <3> QED
        BY <3>1, <3>2, <3>3, <1>13 DEF DelFault, TypeOK, Operations
    <2>2. LockHeld'
      BY <1>13 DEF DelFault, LockHeld, TypeOK
    <2>3. EntriesNumbered'
      <3>1. ent[p] \in DOMAIN dir
        BY <1>13 DEF DelFault, InRange
      <3>2. \A i \in 1 .. Len(dir) : Numbered(dir[i])
        BY ViewType DEF View, Zero, Numbered, EntriesNumbered, TypeOK
      <3>3. Numbered(dir[ent[p]])
        BY <3>1 DEF EntriesNumbered
      <3>4. \A i \in DOMAIN dir' :
              \/ \E j \in DOMAIN dir : dir'[i] = dir[j]
              \/ \E j \in DOMAIN dir : dir'[i] = dir[j]
        <4>1. dir \in Seq(Entry) /\ dir \in Seq(Entry) /\ ent[p] \in Nat
          BY <3>1, ViewType DEF TypeOK
        <4>2. dir' = MoveOver(dir, dir, ent[p])
          BY <1>13 DEF DelFault
        <4> QED
          BY <4>1, <4>2, MoveOverEach
      <3>5. \A i \in DOMAIN dir' : Numbered(dir'[i])
        <4>1. DOMAIN dir = 1 .. Len(dir)
          BY ViewType DEF TypeOK
        <4> QED
          BY <3>2, <3>4, <4>1 DEF EntriesNumbered
      <3> QED
        BY <3>1, <3>2, <3>3, <3>4, <3>5, <1>13 DEF DelFault, EntriesNumbered, TypeOK
    <2>4. InRange'
      BY <1>13 DEF DelFault, InRange, LockHeld, TypeOK, Entry
    <2> QED
      BY <2>1, <2>2, <2>3, <2>4
  <1>14. ASSUME NEW p \in Procs, DelRename(p)
        PROVE  TypeOK' /\ LockHeld' /\ EntriesNumbered' /\ InRange'
    <2>1. TypeOK'
      BY <1>14 DEF DelRename, TypeOK, Operations, Entry
    <2>2. LockHeld'
      BY <1>14 DEF DelRename, LockHeld, TypeOK
    <2>3. EntriesNumbered'
      BY <1>14 DEF DelRename, EntriesNumbered, TypeOK, Numbered, Zero, Entry
    <2>4. InRange'
      BY <1>14 DEF DelRename, InRange, LockHeld, TypeOK, Entry
    <2> QED
      BY <2>1, <2>2, <2>3, <2>4
  <1>15. ASSUME NEW p \in Procs, DelTrash(p)
        PROVE  TypeOK' /\ LockHeld' /\ EntriesNumbered' /\ InRange'
    <2>1. TypeOK'
      <3>1. trash' \in [Bins -> SUBSET Entry]
        <4>1. tgt[p] \in Entry /\ \A b \in Bins : trash[b] \cup {tgt[p]} \in SUBSET Entry
          BY DEF TypeOK
        <4> QED
          BY <4>1, <1>15 DEF DelTrash, TypeOK
      <3> QED
        BY <3>1, <1>15 DEF DelTrash, TypeOK, Operations
    <2>2. LockHeld'
      BY <1>15 DEF DelTrash, LockHeld, TypeOK
    <2>3. EntriesNumbered'
      <3>1. Numbered(tgt[p])
        BY <1>15 DEF DelTrash, EntriesNumbered
      <3>2. \A b \in Bins : \A r \in trash'[b] : Numbered(r)
        BY <3>1, <1>15 DEF DelTrash, EntriesNumbered, TypeOK
      <3> QED
        BY <3>2, <1>15 DEF DelTrash, EntriesNumbered, TypeOK
    <2>4. InRange'
      BY <1>15 DEF DelTrash, InRange, LockHeld, TypeOK, Entry
    <2> QED
      BY <2>1, <2>2, <2>3, <2>4
  <1>16. ASSUME NEW p \in Procs, UndelStart(p)
        PROVE  TypeOK' /\ LockHeld' /\ EntriesNumbered' /\ InRange'
    <2>1. TypeOK'
      BY <1>16 DEF UndelStart, TypeOK, Operations, Entry
    <2>2. LockHeld'
      BY <1>16 DEF UndelStart, LockHeld, TypeOK
    <2>3. EntriesNumbered'
      BY <1>16 DEF UndelStart, EntriesNumbered, TypeOK, Numbered, Zero, Entry
    <2>4. InRange'
      BY <1>16 DEF UndelStart, InRange, LockHeld, TypeOK, Entry
    <2> QED
      BY <2>1, <2>2, <2>3, <2>4
  <1>17. ASSUME NEW p \in Procs, UndelRename(p)
        PROVE  TypeOK' /\ LockHeld' /\ EntriesNumbered' /\ InRange'
    <2>1. TypeOK'
      BY <1>17 DEF UndelRename, TypeOK, Operations, Entry
    <2>2. LockHeld'
      BY <1>17 DEF UndelRename, LockHeld, TypeOK
    <2>3. EntriesNumbered'
      BY <1>17 DEF UndelRename, EntriesNumbered, TypeOK, Numbered, Zero, Entry
    <2>4. InRange'
      BY <1>17 DEF UndelRename, InRange, LockHeld, TypeOK, Entry
    <2> QED
      BY <2>1, <2>2, <2>3, <2>4
  <1>18. ASSUME NEW p \in Procs, UndelShift(p)
        PROVE  TypeOK' /\ LockHeld' /\ EntriesNumbered' /\ InRange'
    <2>1. TypeOK'
      <3>1. Gaps(dir, tgt[p].id) \subseteq 1 .. Len(dir) + 1
        BY DEF Gaps, TypeOK
      <3>2. dir' \in Seq(Entry)
        BY <3>1, MakeRoomType, <1>18 DEF UndelShift, TypeOK
      <3>3. ent' \in [Procs -> Nat]
        BY <3>1, <1>18 DEF UndelShift, TypeOK
      <3> QED
        BY <3>1, <3>2, <3>3, <1>18 DEF UndelShift, TypeOK, Operations
    <2>2. LockHeld'
      BY <1>18 DEF UndelShift, LockHeld, TypeOK
    <2>3. EntriesNumbered'
      <3>1. \A i \in DOMAIN dir' : Numbered(dir'[i])
        BY <1>18 DEF UndelShift, MakeRoom, Gaps, EntriesNumbered, TypeOK
      <3> QED
        BY <3>1, <1>18 DEF UndelShift, EntriesNumbered, TypeOK
    <2>4. InRange'
      <3>1. Gaps(dir, tgt[p].id) \subseteq 1 .. Len(dir) + 1
        BY DEF Gaps, TypeOK
      <3>2. DOMAIN dir' = 1 .. Len(dir) + 1 /\ ent'[p] \in DOMAIN dir'
        BY <3>1, MakeRoomType, <1>18 DEF UndelShift, MakeRoom, TypeOK
      <3> QED
        BY <3>1, <3>2, <1>18 DEF UndelShift, InRange, LockHeld, TypeOK
    <2> QED
      BY <2>1, <2>2, <2>3, <2>4
  <1>19. ASSUME NEW p \in Procs, UndelWrite(p)
        PROVE  TypeOK' /\ LockHeld' /\ EntriesNumbered' /\ InRange'
    <2>1. TypeOK'
      <3>1. dir' \in Seq(Entry)
        BY <1>19 DEF UndelWrite, InRange, TypeOK
      <3> QED
        BY <3>1, <1>19 DEF UndelWrite, TypeOK, Operations
    <2>2. LockHeld'
      BY <1>19 DEF UndelWrite, LockHeld, TypeOK
    <2>3. EntriesNumbered'
      BY <1>19 DEF UndelWrite, EntriesNumbered, TypeOK, Numbered, Zero, Entry
    <2>4. InRange'
      BY <1>19 DEF UndelWrite, InRange, LockHeld, TypeOK, Entry
    <2> QED
      BY <2>1, <2>2, <2>3, <2>4
  <1>20. ASSUME NEW p \in Procs, UndelTaken(p)
        PROVE  TypeOK' /\ LockHeld' /\ EntriesNumbered' /\ InRange'
    <2>1. TypeOK'
      BY <1>20 DEF UndelTaken, TypeOK, Operations, Entry
    <2>2. LockHeld'
      BY <1>20 DEF UndelTaken, LockHeld, TypeOK
    <2>3. EntriesNumbered'
      BY <1>20 DEF UndelTaken, EntriesNumbered, TypeOK, Numbered, Zero, Entry
    <2>4. InRange'
      BY <1>20 DEF UndelTaken, InRange, LockHeld, TypeOK, Entry
    <2> QED
      BY <2>1, <2>2, <2>3, <2>4
  <1>21. ASSUME NEW p \in Procs, UndelEmpty(p)
        PROVE  TypeOK' /\ LockHeld' /\ EntriesNumbered' /\ InRange'
    <2>1. TypeOK'
      BY <1>21 DEF UndelEmpty, TypeOK, Operations, Entry
    <2>2. LockHeld'
      BY <1>21 DEF UndelEmpty, LockHeld, TypeOK
    <2>3. EntriesNumbered'
      BY <1>21 DEF UndelEmpty, EntriesNumbered, TypeOK, Numbered, Zero, Entry
    <2>4. InRange'
      BY <1>21 DEF UndelEmpty, InRange, LockHeld, TypeOK, Entry
    <2> QED
      BY <2>1, <2>2, <2>3, <2>4
  <1>22. ASSUME NEW p \in Procs, UndelAppend(p)
        PROVE  TypeOK' /\ LockHeld' /\ EntriesNumbered' /\ InRange'
    <2>1. TypeOK'
      <3>1. tgt[p] \in Entry /\ nowid + 1 \in Nat
        BY DEF TypeOK
      <3>2. [tgt[p] EXCEPT !.id = nowid + 1] \in Entry
        BY <3>1, EntryId, Zenon
      <3>3. dir' \in Seq(Entry)
        BY <3>2, <1>22 DEF UndelAppend, TypeOK
      <3> QED
        BY <3>1, <3>2, <3>3, <1>22 DEF UndelAppend, TypeOK, Operations
    <2>2. LockHeld'
      BY <1>22 DEF UndelAppend, LockHeld, TypeOK
    <2>3. EntriesNumbered'
      <3>1. Numbered([tgt[p] EXCEPT !.id = nowid + 1])
        BY DEF Numbered, TypeOK, Entry
      <3>2. \A i \in DOMAIN dir' : Numbered(dir'[i])
        BY <3>1, <1>22 DEF UndelAppend, EntriesNumbered, TypeOK
      <3> QED
        BY <3>2, <1>22 DEF UndelAppend, EntriesNumbered, TypeOK
    <2>4. InRange'
      BY <1>22 DEF UndelAppend, InRange, LockHeld, TypeOK, Entry
    <2> QED
      BY <2>1, <2>2, <2>3, <2>4
  <1>23. ASSUME NEW p \in Procs, Die(p)
        PROVE  TypeOK' /\ LockHeld' /\ EntriesNumbered' /\ InRange'
    <2>1. TypeOK'
      BY <1>23 DEF Die, TypeOK, Operations, Entry
    <2>2. LockHeld'
      BY <1>23 DEF Die, LockHeld, TypeOK
    <2>3. EntriesNumbered'
      BY <1>23 DEF Die, EntriesNumbered, TypeOK, Numbered, Zero, Entry
    <2>4. InRange'
      BY <1>23 DEF Die, InRange, LockHeld, TypeOK, Entry
    <2> QED
      BY <2>1, <2>2, <2>3, <2>4
  <1>24. CASE FlushBcache
    BY <1>24 DEF FlushBcache, TypeOK, LockHeld, EntriesNumbered, InRange
  <1>25. ASSUME NEW seq \in Nat, Restart(seq)
        PROVE  TypeOK' /\ LockHeld' /\ EntriesNumbered' /\ InRange'
    BY <1>25 DEF Restart, ReloadedId, Everywhere, LastId, Zero, Entry,
                 TypeOK, LockHeld, EntriesNumbered, InRange
  <1>26. CASE UNCHANGED vars
    BY <1>26 DEF vars, TypeOK, LockHeld, EntriesNumbered, InRange
  <1> QED
    BY <1>1, <1>2, <1>3, <1>4, <1>5, <1>6, <1>7, <1>8, <1>9, <1>10, <1>11, <1>12, <1>13, <1>14, <1>15, <1>16, <1>17, <1>18, <1>19, <1>20, <1>21, <1>22, <1>23, <1>24, <1>25, <1>26 DEF Next, Post, Prepare, Delete, SetFlag, Undelete, Reboot, PowerLoss, TypeOK

LEMMA OldEntryType ==
  ASSUME NEW i \in DOMAIN Old
  PROVE  OldEntry(i) \in Entry /\ OldEntry(i).id = i /\ i \in Nat \ {0}
  BY OldAssumption DEF OldEntry, Entry

LEMMA TypeInvInit == Init => TypeInv
  <1> SUFFICES ASSUME NEW kept \in SUBSET DOMAIN Old, NEW b \in Bins,
                      dir \in [1 .. Cardinality(kept) -> {OldEntry(i) : i \in kept}],
                      trash = [c \in Bins |->
                        IF c = b THEN {OldEntry(i) : i \in DOMAIN Old \ kept} ELSE {}],
                      body = [f \in Posts |->
                        IF f \notin Range(Old) THEN "none"
                        ELSE IF OldId(f) \in kept THEN "M" ELSE b],
                      lock = NoProc, nowid = Len(Old), idseq = 0,
                      pc = Everywhere("idle"), op = Everywhere("none"),
                      tgt = Everywhere(Zero), ent = Everywhere(0),
                      size = Everywhere(0), bin = Everywhere("none")
               PROVE  TypeInv
    BY DEF Init
  <1>1. Cardinality(kept) \in Nat
    <2>1. IsFiniteSet(DOMAIN Old)
      BY OldAssumption, FS_Interval
    <2> QED
      BY <2>1, FS_Subset, FS_CardinalityType
  <1>2. \A i \in DOMAIN dir : \E k \in DOMAIN Old : dir[i] = OldEntry(k)
    OBVIOUS
  <1>3. dir \in Seq(Entry)
    BY <1>1, <1>2, OldEntryType
  <1>4. trash \in [Bins -> SUBSET Entry]
    BY OldEntryType
  <1>5. body \in [Posts -> {"none", "M", "D", "J"}]
    BY BinsAssumption
  <1>6. TypeOK
    BY <1>3, <1>4, <1>5, ZeroType, OldAssumption DEF TypeOK, Everywhere, Operations
  <1>7. LockHeld /\ InRange
    BY DEF LockHeld, InRange, Everywhere
  <1>8. EntriesNumbered
    <2>1. \A i \in DOMAIN dir : dir[i].id > 0
      BY <1>2, OldEntryType
    <2>2. \A c \in Bins : \A r \in trash[c] : r.id > 0
      BY OldEntryType
    <2> QED
      BY <2>1, <2>2 DEF EntriesNumbered, Numbered, Everywhere
  <1> QED
    BY <1>6, <1>7, <1>8 DEF TypeInv

(* The variables keep their types, and with them the lock discipline of    *)
(* article.c: whatever is in flight, the entry found by prepare_write_dir  *)
(* is an entry of the file, and no write lands behind its end.             *)
THEOREM TypeCorrect == Spec => []TypeOK
  <1>1. TypeInv => TypeOK
    BY DEF TypeInv
  <1> QED
    BY TypeInvInit, TypeInvStep, <1>1, PTL DEF Spec

-----------------------------------------------------------------------------
(* The second layer: which ids are in use.  A step is tame if every entry it   *)
(* leaves in .DIR, in a bin or in a process's hands has the id and the     *)
(* name of one that was there before; all are, but for those that take a   *)
(* new id.                                                                 *)

Same(r) == r.id = 0 \/ \E s \in Known : s.id = r.id /\ s.name = r.name

Tame == /\ \A i \in DOMAIN dir' : Same(dir'[i])
        /\ \A b \in Bins : \A r \in trash'[b] : Same(r)
        /\ \A p \in Procs : Same(tgt'[p])

(* Or it has the id that was just taken, for article f. *)
Fresh(r, f) == Same(r) \/ (r.id = nowid + 1 /\ r.name = f)

TameBut(f) == /\ \A i \in DOMAIN dir' : Fresh(dir'[i], f)
              /\ \A b \in Bins : \A r \in trash'[b] : Fresh(r, f)
              /\ \A p \in Procs : Fresh(tgt'[p], f)

LEMMA KnownHas ==
  /\ \A i \in DOMAIN dir : dir[i] \in Known
  /\ \A b \in Bins : \A r \in trash[b] : r \in Known
  /\ \A p \in Procs : tgt[p] \in Known
  <1>1. \A i \in DOMAIN dir : dir[i] \in Index
    BY DEF Index, Range
  <1>2. \A b \in Bins : \A r \in trash[b] : r \in InBins
    BY DEF InBins
  <1>3. \A p \in Procs : tgt[p] \in InHands
    BY DEF InHands
  <1> QED
    BY <1>1, <1>2, <1>3 DEF Known

LEMMA KnownIsOne ==
  ASSUME NEW r \in Known
  PROVE  \/ \E i \in DOMAIN dir : r = dir[i]
         \/ \E b \in Bins : r \in trash[b]
         \/ \E p \in Procs : r = tgt[p]
  <1>1. CASE r \in Index
    BY <1>1 DEF Index, Range
  <1>2. CASE r \in InBins
    BY <1>2 DEF InBins
  <1>3. CASE r \in InHands
    BY <1>3 DEF InHands
  <1> QED
    BY <1>1, <1>2, <1>3 DEF Known

LEMMA KnownSame ==
  /\ Same(Zero)
  /\ \A i \in DOMAIN dir : Same(dir[i])
  /\ \A b \in Bins : \A r \in trash[b] : Same(r)
  /\ \A p \in Procs : Same(tgt[p])
  <1>1. Same(Zero)
    BY DEF Same, Zero
  <1>2. \A r \in Known : Same(r)
    BY DEF Same
  <1> QED
    BY <1>1, <1>2, KnownHas

LEMMA KnownType == TypeOK => Known \subseteq Entry
  <1> SUFFICES ASSUME TypeOK, NEW r \in Known PROVE r \in Entry
    OBVIOUS
  <1>1. CASE \E i \in DOMAIN dir : r = dir[i]
    BY <1>1 DEF TypeOK
  <1>2. CASE \E b \in Bins : r \in trash[b]
    BY <1>2 DEF TypeOK
  <1>3. CASE \E p \in Procs : r = tgt[p]
    BY <1>3 DEF TypeOK
  <1> QED
    BY <1>1, <1>2, <1>3, KnownIsOne

LEMMA ViewSame ==
  ASSUME TypeOK, NEW n \in Nat
  PROVE  \A i \in DOMAIN View(n) : Same(View(n)[i])
  BY KnownSame DEF View, TypeOK

LEMMA TameKeeps ==
  ASSUME TypeOK, nowid' \in Nat, IdsBounded, IdNamesOne, Tame, nowid <= nowid'
  PROVE  IdsBounded' /\ IdNamesOne'
  <1>1. \A r \in Known' : Same(r)
    <2> SUFFICES ASSUME NEW r \in Known' PROVE Same(r)
      OBVIOUS
    <2>1. CASE r \in Index'
      BY <2>1 DEF Tame, Index, Range
    <2>2. CASE r \in InBins'
      BY <2>2 DEF Tame, InBins
    <2>3. CASE r \in InHands'
      BY <2>3 DEF Tame, InHands
    <2> QED
      BY <2>1, <2>2, <2>3 DEF Known
  <1>2. Known \subseteq Entry /\ nowid \in Nat
    BY KnownType DEF TypeOK
  <1>3. \A r \in Known' : r.id = 0 \/ (r.id \in Nat /\ r.id <= nowid)
    BY <1>1, <1>2 DEF Same, IdsBounded, Entry
  <1>4. IdsBounded'
    BY <1>2, <1>3 DEF IdsBounded
  <1>5. IdNamesOne'
    BY <1>1, <1>2 DEF Same, IdNamesOne, Entry
  <1> QED
    BY <1>4, <1>5

LEMMA FreshKeeps ==
  ASSUME TypeOK, IdsBounded, IdNamesOne, NEW f, TameBut(f), nowid' = nowid + 1
  PROVE  IdsBounded' /\ IdNamesOne'
  <1>1. \A r \in Known' : Fresh(r, f)
    <2> SUFFICES ASSUME NEW r \in Known' PROVE Fresh(r, f)
      OBVIOUS
    <2>1. CASE r \in Index'
      BY <2>1 DEF TameBut, Index, Range
    <2>2. CASE r \in InBins'
      BY <2>2 DEF TameBut, InBins
    <2>3. CASE r \in InHands'
      BY <2>3 DEF TameBut, InHands
    <2> QED
      BY <2>1, <2>2, <2>3 DEF Known
  <1>2. Known \subseteq Entry /\ nowid \in Nat
    BY KnownType DEF TypeOK
  <1>3. \A r \in Known' : Same(r) => r.id = 0 \/ (r.id \in Nat /\ r.id <= nowid)
    BY <1>1, <1>2 DEF Same, IdsBounded, Entry
  <1>4. IdsBounded'
    BY <1>1, <1>2, <1>3 DEF IdsBounded, Fresh
  <1>5. IdNamesOne'
    <2> SUFFICES ASSUME NEW r \in Known', NEW s \in Known', r.id = s.id, r.id > 0
                 PROVE  r.name = s.name
      BY DEF IdNamesOne
    <2>1. CASE Same(r) /\ Same(s)
      BY <2>1, <1>2 DEF Same, IdNamesOne, Entry
    <2>2. CASE ~Same(r) \/ ~Same(s)
      BY <2>2, <1>1, <1>2, <1>3 DEF Fresh
    <2> QED
      BY <2>1, <2>2
  <1> QED
    BY <1>4, <1>5

LEMMA IdInvStep ==
  ASSUME ~Crash
  PROVE  TypeInv /\ IdInv /\ [Next]_vars => IdInv'
  <1> SUFFICES ASSUME TypeInv, TypeInv', IdInv, [Next]_vars
               PROVE  IdInv'
    BY TypeInvStep
  <1>0. /\ TypeOK /\ LockHeld /\ EntriesNumbered /\ InRange
        /\ TypeOK' /\ LockHeld' /\ EntriesNumbered' /\ InRange'
        /\ IdsBounded /\ IdNamesOne /\ LocatedIsTarget
    BY DEF TypeInv, IdInv
  <1> USE NoneAssumption
  <1> USE DEF At, Goto, LockFree, Keep, Finish, shared, local
  <1>a. nowid \in Nat /\ nowid' \in Nat
    BY <1>0 DEF TypeOK
  <1>1. ASSUME NEW p \in Procs, PostStart(p) PROVE IdInv'
    <2>1. Tame
      BY <1>0, <1>1, KnownSame DEF PostStart, Tame, Same, TypeOK
    <2>2. IdsBounded' /\ IdNamesOne'
      BY <1>0, <1>a, <1>1, <2>1, TameKeeps DEF PostStart
    <2>3. LocatedIsTarget'
      BY <1>0, <1>1 DEF PostStart, LocatedIsTarget, LockHeld, TypeOK
    <2> QED
      BY <2>2, <2>3 DEF IdInv
  <1>2. ASSUME NEW p \in Procs, PostTakeId(p) PROVE IdInv'
    <2>1. TameBut(tgt[p].name)
      BY <1>0, <1>2, KnownSame DEF PostTakeId, TameBut, Fresh, TypeOK, Entry
    <2>2. IdsBounded' /\ IdNamesOne'
      BY <1>0, <1>2, <2>1, FreshKeeps DEF PostTakeId
    <2>3. LocatedIsTarget'
      BY <1>0, <1>2 DEF PostTakeId, LocatedIsTarget, LockHeld, TypeOK
    <2> QED
      BY <2>2, <2>3 DEF IdInv
  <1>3. ASSUME NEW p \in Procs, PostAppend(p) PROVE IdInv'
    <2>1. Tame
      BY <1>0, <1>3, KnownSame DEF PostAppend, Tame, TypeOK
    <2>2. IdsBounded' /\ IdNamesOne'
      BY <1>0, <1>a, <1>3, <2>1, TameKeeps DEF PostAppend
    <2>3. LocatedIsTarget'
      BY <1>0, <1>3 DEF PostAppend, LocatedIsTarget, LockHeld, TypeOK
    <2> QED
      BY <2>2, <2>3 DEF IdInv
  <1>4. ASSUME NEW p \in Procs, PostFiltered(p) PROVE IdInv'
    <2>1. Tame
      BY <1>0, <1>4, KnownSame DEF PostFiltered, Tame, TypeOK
    <2>2. IdsBounded' /\ IdNamesOne'
      BY <1>0, <1>a, <1>4, <2>1, TameKeeps DEF PostFiltered
    <2>3. LocatedIsTarget'
      BY <1>0, <1>4 DEF PostFiltered, LocatedIsTarget, LockHeld, TypeOK
    <2> QED
      BY <2>2, <2>3 DEF IdInv
  <1>5. ASSUME NEW p \in Procs, DelStart(p) PROVE IdInv'
    <2>1. Tame
      BY <1>0, <1>5, KnownSame DEF DelStart, Pick, Tame, TypeOK
    <2>2. IdsBounded' /\ IdNamesOne'
      BY <1>0, <1>a, <1>5, <2>1, TameKeeps DEF DelStart, Pick
    <2>3. LocatedIsTarget'
      BY <1>0, <1>5 DEF DelStart, Pick, LocatedIsTarget, LockHeld, TypeOK
    <2> QED
      BY <2>2, <2>3 DEF IdInv
  <1>6. ASSUME NEW p \in Procs, FlagStart(p) PROVE IdInv'
    <2>1. Tame
      BY <1>0, <1>6, KnownSame DEF FlagStart, Pick, Tame, TypeOK
    <2>2. IdsBounded' /\ IdNamesOne'
      BY <1>0, <1>a, <1>6, <2>1, TameKeeps DEF FlagStart, Pick
    <2>3. LocatedIsTarget'
      BY <1>0, <1>6 DEF FlagStart, Pick, LocatedIsTarget, LockHeld, TypeOK
    <2> QED
      BY <2>2, <2>3 DEF IdInv
  <1>7. ASSUME NEW p \in Procs, MapDir(p) PROVE IdInv'
    <2>1. Tame
      <3>1. CASE Finish(p) /\ UNCHANGED shared
        BY <1>0, <3>1, KnownSame DEF Tame, TypeOK
      <3>2. CASE Goto(p, "lock") /\ UNCHANGED <<op, tgt, ent, bin>> /\ UNCHANGED shared
        BY <1>0, <3>2, KnownSame DEF Tame, TypeOK
      <3> QED
        BY <3>1, <3>2, <1>7 DEF MapDir
    <2>2. IdsBounded' /\ IdNamesOne'
      BY <1>0, <1>a, <1>7, <2>1, TameKeeps DEF MapDir
    <2>3. LocatedIsTarget'
      <3>1. CASE Finish(p) /\ UNCHANGED shared
        BY <1>0, <3>1 DEF LocatedIsTarget, TypeOK
      <3>2. CASE Goto(p, "lock") /\ UNCHANGED <<op, tgt, ent, bin>> /\ UNCHANGED shared
        BY <1>0, <3>2 DEF LocatedIsTarget, TypeOK
      <3> QED
        BY <3>1, <3>2, <1>7 DEF MapDir
    <2> QED
      BY <2>2, <2>3 DEF IdInv
  <1>8. ASSUME NEW p \in Procs, Locate(p) PROVE IdInv'
    <2>1. Tame
      BY <1>0, <1>8, KnownSame DEF Locate, Tame, TypeOK
    <2>2. IdsBounded' /\ IdNamesOne'
      BY <1>0, <1>a, <1>8, <2>1, TameKeeps DEF Locate
    <2>3. LocatedIsTarget'
      <3>1. tgt[p] \in Known /\ tgt[p] \in Entry /\ tgt[p].name # NoPost /\ tgt[p].id > 0
        BY <1>0, <1>8, KnownHas
           DEF Locate, InRange, EntriesNumbered, Numbered, TypeOK
      <3>2. ASSUME NEW e \in Located(p)
            PROVE  e \in DOMAIN dir /\ dir[e].name = tgt[p].name
        <4>1. CASE InPlace(p)
          BY <1>0, <3>1, <3>2, <4>1 DEF Located, InPlace, View, Zero, TypeOK
        <4>2. CASE ~InPlace(p)
          <5>1. e \in DOMAIN dir /\ dir[e].id = tgt[p].id
            <6>1. e \in 1 .. size[p] /\ View(size[p])[e].id = tgt[p].id
              BY <3>2, <4>2 DEF Located, Hits, View
            <6>2. e <= Len(dir)
              BY <1>0, <3>1, <6>1 DEF View, Zero, TypeOK
            <6> QED
              BY <1>0, <6>1, <6>2 DEF View, TypeOK
          <5> QED
            BY <1>0, <3>1, <5>1, KnownHas DEF IdNamesOne
        <4> QED
          BY <4>1, <4>2
      <3> QED
        BY <1>0, <1>8, <3>2 DEF Locate, LocatedIsTarget, TypeOK
    <2> QED
      BY <2>2, <2>3 DEF IdInv
  <1>9. ASSUME NEW p \in Procs, LocateFails(p) PROVE IdInv'
    <2>1. Tame
      BY <1>0, <1>9, KnownSame DEF LocateFails, Tame, TypeOK
    <2>2. IdsBounded' /\ IdNamesOne'
      BY <1>0, <1>a, <1>9, <2>1, TameKeeps DEF LocateFails
    <2>3. LocatedIsTarget'
      BY <1>0, <1>9 DEF LocateFails, LocatedIsTarget, LockHeld, TypeOK
    <2> QED
      BY <2>2, <2>3 DEF IdInv
  <1>10. ASSUME NEW p \in Procs, FlagCommit(p) PROVE IdInv'
    <2>1. Tame
      <3>1. ent[p] \in DOMAIN dir /\ dir[ent[p]] \in Entry
        BY <1>0, <1>10 DEF FlagCommit, InRange, TypeOK
      <3>2. Same([dir[ent[p]] EXCEPT !.marked = ~tgt[p].marked])
        BY <3>1, KnownSame DEF Same, Entry
      <3>3. \A i \in DOMAIN dir' : Same(dir'[i])
        BY <1>0, <1>10, <3>1, <3>2, KnownSame DEF FlagCommit, TypeOK
      <3>4. \A q \in Procs : tgt'[q] = tgt[q] \/ tgt'[q] = Zero
        BY <1>0, <1>10 DEF FlagCommit, TypeOK
      <3>5. trash' = trash
        BY <1>10 DEF FlagCommit
      <3> QED
        BY <3>3, <3>4, <3>5, KnownSame DEF Tame
    <2>2. IdsBounded' /\ IdNamesOne'
      BY <1>0, <1>a, <1>10, <2>1, TameKeeps DEF FlagCommit
    <2>3. LocatedIsTarget'
      BY <1>0, <1>10 DEF FlagCommit, LocatedIsTarget, LockHeld, TypeOK
    <2> QED
      BY <2>2, <2>3 DEF IdInv
  <1>11. ASSUME NEW p \in Procs, DelMove(p) PROVE IdInv'
    <2>1. Tame
      <3>1. ent[p] \in DOMAIN dir /\ ent[p] \in Nat /\ size[p] \in Nat
        BY <1>0, <1>11 DEF DelMove, InRange, TypeOK
      <3>2. View(size[p]) \in Seq(Entry) /\ dir \in Seq(Entry)
        BY <1>0, <3>1, ViewType DEF TypeOK
      <3>3. \A i \in DOMAIN dir' : Same(dir'[i])
        BY <1>0, <1>11, <3>1, <3>2, MoveOverEach, KnownSame, ViewSame DEF DelMove
      <3> QED
        BY <1>0, <1>11, <3>1, <3>3, KnownSame DEF DelMove, Tame, TypeOK
    <2>2. IdsBounded' /\ IdNamesOne'
      BY <1>0, <1>a, <1>11, <2>1, TameKeeps DEF DelMove
    <2>3. LocatedIsTarget'
      BY <1>0, <1>11 DEF DelMove, LocatedIsTarget, LockHeld, TypeOK
    <2> QED
      BY <2>2, <2>3 DEF IdInv
  <1>12. ASSUME NEW p \in Procs, DelCut(p) PROVE IdInv'
    <2>1. Tame
      <3>1. size[p] - 1 \in Nat
        BY <1>0, <1>12 DEF DelCut, InRange, TypeOK
      <3> QED
        BY <1>0, <1>12, <3>1, KnownSame, ViewSame DEF DelCut, Tame, TypeOK
    <2>2. IdsBounded' /\ IdNamesOne'
      BY <1>0, <1>a, <1>12, <2>1, TameKeeps DEF DelCut
    <2>3. LocatedIsTarget'
      BY <1>0, <1>12 DEF DelCut, LocatedIsTarget, LockHeld, TypeOK
    <2> QED
      BY <2>2, <2>3 DEF IdInv
  <1>13. ASSUME NEW p \in Procs, DelFault(p) PROVE IdInv'
    <2>1. Tame
      <3>1. ent[p] \in DOMAIN dir /\ ent[p] \in Nat /\ size[p] \in Nat
        BY <1>0, <1>13 DEF DelFault, InRange, TypeOK
      <3>2. dir \in Seq(Entry) /\ dir \in Seq(Entry)
        BY <1>0, <3>1, ViewType DEF TypeOK
      <3>3. \A i \in DOMAIN dir' : Same(dir'[i])
        BY <1>0, <1>13, <3>1, <3>2, MoveOverEach, KnownSame, ViewSame DEF DelFault
      <3> QED
        BY <1>0, <1>13, <3>1, <3>3, KnownSame DEF DelFault, Tame, TypeOK
    <2>2. IdsBounded' /\ IdNamesOne'
      BY <1>0, <1>a, <1>13, <2>1, TameKeeps DEF DelFault
    <2>3. LocatedIsTarget'
      BY <1>0, <1>13 DEF DelFault, LocatedIsTarget, LockHeld, TypeOK
    <2> QED
      BY <2>2, <2>3 DEF IdInv
  <1>14. ASSUME NEW p \in Procs, DelRename(p) PROVE IdInv'
    <2>1. Tame
      BY <1>0, <1>14, KnownSame DEF DelRename, Tame, TypeOK
    <2>2. IdsBounded' /\ IdNamesOne'
      BY <1>0, <1>a, <1>14, <2>1, TameKeeps DEF DelRename
    <2>3. LocatedIsTarget'
      BY <1>0, <1>14 DEF DelRename, LocatedIsTarget, LockHeld, TypeOK
    <2> QED
      BY <2>2, <2>3 DEF IdInv
  <1>15. ASSUME NEW p \in Procs, DelTrash(p) PROVE IdInv'
    <2>1. Tame
      BY <1>0, <1>15, KnownSame DEF DelTrash, Tame, TypeOK
    <2>2. IdsBounded' /\ IdNamesOne'
      BY <1>0, <1>a, <1>15, <2>1, TameKeeps DEF DelTrash
    <2>3. LocatedIsTarget'
      BY <1>0, <1>15 DEF DelTrash, LocatedIsTarget, LockHeld, TypeOK
    <2> QED
      BY <2>2, <2>3 DEF IdInv
  <1>16. ASSUME NEW p \in Procs, UndelStart(p) PROVE IdInv'
    <2>1. Tame
      BY <1>0, <1>16, KnownSame DEF UndelStart, Tame, TypeOK
    <2>2. IdsBounded' /\ IdNamesOne'
      BY <1>0, <1>a, <1>16, <2>1, TameKeeps DEF UndelStart
    <2>3. LocatedIsTarget'
      BY <1>0, <1>16 DEF UndelStart, LocatedIsTarget, LockHeld, TypeOK
    <2> QED
      BY <2>2, <2>3 DEF IdInv
  <1>17. ASSUME NEW p \in Procs, UndelRename(p) PROVE IdInv'
    <2>1. Tame
      BY <1>0, <1>17, KnownSame DEF UndelRename, Tame, TypeOK
    <2>2. IdsBounded' /\ IdNamesOne'
      BY <1>0, <1>a, <1>17, <2>1, TameKeeps DEF UndelRename
    <2>3. LocatedIsTarget'
      BY <1>0, <1>17 DEF UndelRename, LocatedIsTarget, LockHeld, TypeOK
    <2> QED
      BY <2>2, <2>3 DEF IdInv
  <1>18. ASSUME NEW p \in Procs, UndelShift(p) PROVE IdInv'
    <2>1. Tame
      <3>1. \A i \in DOMAIN dir' : Same(dir'[i])
        BY <1>0, <1>18, KnownSame DEF UndelShift, MakeRoom, Gaps, TypeOK
      <3> QED
        BY <1>0, <1>18, <3>1, KnownSame DEF UndelShift, Tame, TypeOK
    <2>2. IdsBounded' /\ IdNamesOne'
      BY <1>0, <1>a, <1>18, <2>1, TameKeeps DEF UndelShift
    <2>3. LocatedIsTarget'
      BY <1>0, <1>18 DEF UndelShift, LocatedIsTarget, LockHeld, TypeOK
    <2> QED
      BY <2>2, <2>3 DEF IdInv
  <1>19. ASSUME NEW p \in Procs, UndelWrite(p) PROVE IdInv'
    <2>1. Tame
      BY <1>0, <1>19, KnownSame DEF UndelWrite, Tame, TypeOK
    <2>2. IdsBounded' /\ IdNamesOne'
      BY <1>0, <1>a, <1>19, <2>1, TameKeeps DEF UndelWrite
    <2>3. LocatedIsTarget'
      BY <1>0, <1>19 DEF UndelWrite, LocatedIsTarget, LockHeld, TypeOK
    <2> QED
      BY <2>2, <2>3 DEF IdInv
  <1>20. ASSUME NEW p \in Procs, UndelTaken(p) PROVE IdInv'
    <2>1. Tame
      BY <1>0, <1>20, KnownSame DEF UndelTaken, Tame, TypeOK
    <2>2. IdsBounded' /\ IdNamesOne'
      BY <1>0, <1>a, <1>20, <2>1, TameKeeps DEF UndelTaken
    <2>3. LocatedIsTarget'
      BY <1>0, <1>20 DEF UndelTaken, LocatedIsTarget, LockHeld, TypeOK
    <2> QED
      BY <2>2, <2>3 DEF IdInv
  <1>21. ASSUME NEW p \in Procs, UndelEmpty(p) PROVE IdInv'
    <2>1. Tame
      BY <1>0, <1>21, KnownSame DEF UndelEmpty, Tame, TypeOK
    <2>2. IdsBounded' /\ IdNamesOne'
      BY <1>0, <1>a, <1>21, <2>1, TameKeeps DEF UndelEmpty
    <2>3. LocatedIsTarget'
      BY <1>0, <1>21 DEF UndelEmpty, LocatedIsTarget, LockHeld, TypeOK
    <2> QED
      BY <2>2, <2>3 DEF IdInv
  <1>22. ASSUME NEW p \in Procs, UndelAppend(p) PROVE IdInv'
    <2>1. TameBut(tgt[p].name)
      BY <1>0, <1>22, KnownSame DEF UndelAppend, TameBut, Fresh, TypeOK, Entry
    <2>2. IdsBounded' /\ IdNamesOne'
      BY <1>0, <1>22, <2>1, FreshKeeps DEF UndelAppend
    <2>3. LocatedIsTarget'
      BY <1>0, <1>22 DEF UndelAppend, LocatedIsTarget, LockHeld, TypeOK
    <2> QED
      BY <2>2, <2>3 DEF IdInv
  <1>23. ASSUME NEW p \in Procs, Die(p) PROVE IdInv'
    <2>1. Tame
      BY <1>0, <1>23, KnownSame DEF Die, Tame, TypeOK
    <2>2. IdsBounded' /\ IdNamesOne'
      BY <1>0, <1>a, <1>23, <2>1, TameKeeps DEF Die
    <2>3. LocatedIsTarget'
      BY <1>0, <1>23 DEF Die, LocatedIsTarget, LockHeld, TypeOK
    <2> QED
      BY <2>2, <2>3 DEF IdInv
  <1>24. CASE FlushBcache
    BY <1>0, <1>24 DEF FlushBcache
  <1>25. CASE Restart(nowid)
    <2>1. Tame
      BY <1>0, <1>25, KnownSame DEF Restart, Everywhere, Tame
    <2>2. nowid <= nowid'
      BY <1>0, <1>25 DEF Restart, ReloadedId, LastId, TypeOK, Entry
    <2>3. IdsBounded' /\ IdNamesOne'
      BY <1>0, <1>a, <2>1, <2>2, TameKeeps
    <2>4. LocatedIsTarget'
      BY <1>25 DEF Restart, Everywhere, LocatedIsTarget
    <2> QED
      BY <2>3, <2>4 DEF IdInv
  <1>26. CASE UNCHANGED vars
    BY <1>0, <1>26 DEF vars, IdInv, IdsBounded, IdNamesOne, LocatedIsTarget, Known, Index, InBins, InHands
  <1> QED
    BY <1>1, <1>2, <1>3, <1>4, <1>5, <1>6, <1>7, <1>8, <1>9, <1>10, <1>11, <1>12, <1>13, <1>14, <1>15, <1>16, <1>17, <1>18, <1>19, <1>20, <1>21, <1>22, <1>23, <1>24, <1>25, <1>26 DEF Next, Post, Prepare, Delete, SetFlag, Undelete, Reboot, PowerLoss

(* In the beginning every article has the id of its place in Old.          *)
LEMMA IdInvInit == Init => IdInv
  <1> SUFFICES ASSUME NEW kept \in SUBSET DOMAIN Old, NEW b \in Bins,
                      dir \in [1 .. Cardinality(kept) -> {OldEntry(i) : i \in kept}],
                      trash = [c \in Bins |->
                        IF c = b THEN {OldEntry(i) : i \in DOMAIN Old \ kept} ELSE {}],
                      nowid = Len(Old),
                      pc = Everywhere("idle"), tgt = Everywhere(Zero)
               PROVE  IdInv
    BY DEF Init
  <1>1. ASSUME NEW r \in Known
        PROVE  r = Zero \/ \E k \in DOMAIN Old : r = OldEntry(k)
    <2>1. CASE \E i \in DOMAIN dir : r = dir[i]
      BY <2>1
    <2>2. CASE \E c \in Bins : r \in trash[c]
      BY <2>2
    <2>3. CASE \E p \in Procs : r = tgt[p]
      BY <2>3 DEF Everywhere
    <2> QED
      BY <1>1, <2>1, <2>2, <2>3, KnownIsOne
  <1>2. IdsBounded
    BY <1>1, OldEntryType, OldAssumption DEF IdsBounded, Zero
  <1>3. IdNamesOne
    BY <1>1, OldEntryType DEF IdNamesOne, OldEntry, Zero
  <1>4. LocatedIsTarget
    BY DEF LocatedIsTarget, At, Everywhere
  <1> QED
    BY <1>2, <1>3, <1>4 DEF IdInv

(* Without power loss, any number of users may delete at once and map the  *)
(* file before the lock: each deletes or flags the article he chose.       *)
THEOREM RightTarget ==
  ASSUME ~Crash
  PROVE  Spec => []LocatedIsTarget
  <1>1. TypeInv /\ IdInv /\ [Next]_vars => TypeInv' /\ IdInv'
    BY TypeInvStep, IdInvStep
  <1>2. IdInv => LocatedIsTarget
    BY DEF IdInv
  <1> QED
    BY TypeInvInit, IdInvInit, <1>1, <1>2, PTL DEF Spec

(* Without power loss, the id of a new post is above every id in .DIR and  *)
(* in the bins.                                                            *)
THEOREM FreshIds ==
  ASSUME ~Crash
  PROVE  Spec => NewIdFresh
  <1> DEFINE Takes ==
        \A p \in Procs : At(p, "post") /\ pc'[p] = "post_append" =>
          \A r \in Index \cup UNION {trash[b] : b \in Bins} : r.id < tgt'[p].id
  <1>1. TypeInv /\ IdInv /\ [Next]_vars => TypeInv' /\ IdInv'
    BY TypeInvStep, IdInvStep
  <1>2. TypeInv /\ IdInv /\ [Next]_vars => [Takes]_vars
    <2> SUFFICES ASSUME TypeInv, IdInv, Next,
                        NEW p \in Procs, pc[p] = "post", pc'[p] = "post_append",
                        NEW r \in Index \cup UNION {trash[b] : b \in Bins}
                 PROVE  r.id < tgt'[p].id
      BY DEF At, vars
    <2>1. TypeOK /\ IdsBounded
      BY DEF TypeInv, IdInv
    <2>2. PostTakeId(p)
      <3>1. ASSUME NEW q \in Procs,
                   Post(q) \/ Prepare(q) \/ Delete(q) \/ SetFlag(q) \/ Undelete(q) \/ Die(q)
            PROVE  q = p /\ PostTakeId(q)
        <4>1. q = p /\ ~PostStart(q) /\ ~PostAppend(q) /\ ~PostFiltered(q) /\ Post(q)
          BY <2>1, <3>1 DEF TypeOK, At, Goto, Finish, Keep, local, shared,
             Post, PostStart, PostTakeId, PostAppend, PostFiltered,
             Prepare, MapDir, Locate, LocateFails,
             Delete, DelStart, Pick, DelMove, DelCut, DelFault, DelRename, DelTrash,
             SetFlag, FlagStart, FlagCommit, Undelete, UndelStart, UndelRename,
             UndelShift, UndelWrite, UndelTaken, UndelEmpty, UndelAppend, Die
        <4> QED
          BY <4>1 DEF Post
      <3>2. ~FlushBcache /\ ~Reboot /\ ~PowerLoss
        BY DEF FlushBcache, Reboot, PowerLoss, Restart, Everywhere, local
      <3> QED
        BY <3>1, <3>2 DEF Next
    <2>3. r \in Known
      BY DEF Known, InBins
    <2>4. r.id \in Nat /\ r.id <= nowid /\ nowid \in Nat
      BY <2>1, <2>3, KnownType DEF IdsBounded, TypeOK, Entry
    <2> QED
      BY <2>1, <2>2, <2>4 DEF PostTakeId, TypeOK, Entry
  <1> QED
    BY TypeInvInit, IdInvInit, <1>1, <1>2, PTL DEF Spec, NewIdFresh

-----------------------------------------------------------------------------
(* The third layer: the order of the ids, when at most one process deletes. *)

OneDeleterOnly ==
  \A p, q \in Procs : "delete" \in Ops[p] /\ "delete" \in Ops[q] => p = q

LEMMA SeqIds ==
  ASSUME NEW table \in Seq(Entry)
  PROVE  \A i \in DOMAIN table : table[i].id \in Nat
  <1>1. \A i \in DOMAIN table : table[i] \in Entry
    OBVIOUS
  <1>2. \A r \in Entry : r.id \in Nat
    BY DEF Entry
  <1> QED
    BY <1>1, <1>2

(* Moving the tail over an entry keeps the order, and so does making room. *)
LEMMA MoveOverSorted ==
  ASSUME NEW table \in Seq(Entry), SortedById(table),
         NEW view \in Seq(Entry), Len(view) <= Len(table),
         \A i \in 1 .. Len(view) : view[i] = table[i],
         NEW e \in DOMAIN table
  PROVE  SortedById(MoveOver(table, view, e))
  <1>1. ASSUME NEW i \in DOMAIN table
        PROVE  MoveOver(table, view, e)[i]
                 = table[IF e <= i /\ i < Len(view) THEN i + 1 ELSE i]
    BY <1>1 DEF MoveOver
  <1>2. \A i \in DOMAIN table : table[i].id \in Nat
    BY SeqIds
  <1>3. DOMAIN MoveOver(table, view, e) = DOMAIN table
    BY DEF MoveOver
  <1> SUFFICES ASSUME NEW i \in DOMAIN table, NEW j \in DOMAIN table, i < j
               PROVE  MoveOver(table, view, e)[i].id <= MoveOver(table, view, e)[j].id
    BY <1>3 DEF SortedById
  <1> DEFINE k == IF e <= i /\ i < Len(view) THEN i + 1 ELSE i
             l == IF e <= j /\ j < Len(view) THEN j + 1 ELSE j
  <1>4. k \in DOMAIN table /\ l \in DOMAIN table /\ k <= l
    OBVIOUS
  <1>5. table[k].id <= table[l].id
    BY <1>2, <1>4 DEF SortedById
  <1> QED
    BY <1>1, <1>5

LEMMA MakeRoomSorted ==
  ASSUME NEW table \in Seq(Entry), SortedById(table), table # <<>>,
         NEW low \in 1 .. Len(table) + 1
  PROVE  SortedById(MakeRoom(table, low))
  <1>1. \A i \in DOMAIN table : table[i].id \in Nat
    BY SeqIds
  <1>2. ASSUME NEW i \in 1 .. Len(table) + 1
        PROVE  MakeRoom(table, low)[i]
                 = table[IF i <= low /\ i <= Len(table) THEN i ELSE i - 1]
    BY <1>2 DEF MakeRoom
  <1> SUFFICES ASSUME NEW i \in 1 .. Len(table) + 1, NEW j \in 1 .. Len(table) + 1,
                      i < j
               PROVE  MakeRoom(table, low)[i].id <= MakeRoom(table, low)[j].id
    BY DEF SortedById, MakeRoom
  <1> DEFINE k == IF i <= low /\ i <= Len(table) THEN i ELSE i - 1
             l == IF j <= low /\ j <= Len(table) THEN j ELSE j - 1
  <1>3. k \in DOMAIN table /\ l \in DOMAIN table /\ k <= l
    OBVIOUS
  <1>4. table[k].id <= table[l].id
    BY <1>1, <1>3 DEF SortedById
  <1> QED
    BY <1>2, <1>4

LEMMA MakeRoomFits ==
  ASSUME NEW table \in Seq(Entry), SortedById(table), table # <<>>,
         NEW key \in Nat, NEW low \in Gaps(table, key)
  PROVE  \A i \in DOMAIN MakeRoom(table, low) :
            /\ i < low => MakeRoom(table, low)[i].id <= key
            /\ i > low => key <= MakeRoom(table, low)[i].id
  <1>1. \A i \in DOMAIN table : table[i].id \in Nat
    BY SeqIds
  <1>2. \A i \in DOMAIN table : i < low => table[i].id <= key
    BY <1>1 DEF SortedById, Gaps
  <1>3. \A i \in DOMAIN table : i >= low => key <= table[i].id
    <2> SUFFICES ASSUME NEW i \in DOMAIN table, i >= low PROVE key <= table[i].id
      OBVIOUS
    <2>1. low \in DOMAIN table /\ key < table[low].id
      BY DEF Gaps
    <2>2. table[low].id <= table[i].id
      BY <1>1, <2>1 DEF SortedById
    <2> QED
      BY <1>1, <2>1, <2>2
  <1> QED
    BY <1>2, <1>3 DEF MakeRoom, Gaps

LEMMA SortInvStep ==
  ASSUME ~Crash, OneDeleterOnly
  PROVE  TypeInv /\ IdInv /\ SortInv /\ [Next]_vars => SortInv'
  <1> SUFFICES ASSUME TypeInv, TypeInv', IdInv, SortInv, [Next]_vars
               PROVE  SortInv'
    BY TypeInvStep
  <1>0. /\ TypeOK /\ LockHeld /\ InRange
        /\ TypeOK' /\ LockHeld' /\ InRange'
        /\ IdsBounded
        /\ IdsSorted /\ TakenIsLast /\ SizeCurrent /\ RoomFits
    BY DEF TypeInv, IdInv, SortInv
  <1>a. /\ \A i \in DOMAIN dir : dir[i].id \in Nat /\ dir[i].id <= nowid
        /\ \A p \in Procs : tgt[p].id \in Nat /\ tgt[p].id <= nowid
        /\ nowid \in Nat
    <2>1. \A r \in Known : r.id \in Nat /\ r.id <= nowid
      BY <1>0, KnownType DEF IdsBounded, Entry
    <2> QED
      BY <1>0, <2>1, KnownHas DEF TypeOK
  <1> USE NoneAssumption, OneDeleterOnly
  <1> USE DEF At, Goto, LockFree, Keep, Finish, shared, local, Deleting, OneDeleterOnly
  <1>1. ASSUME NEW p \in Procs, PostStart(p) PROVE SortInv'
    <2>1. IdsSorted'
      BY <1>0, <1>a, <1>1 DEF PostStart, IdsSorted, SortedById, TakenIsLast, TypeOK
    <2>2. TakenIsLast'
      BY <1>0, <1>a, <1>1 DEF PostStart, TakenIsLast, LockHeld, TypeOK
    <2>3. SizeCurrent'
      BY <1>0, <1>1 DEF PostStart, SizeCurrent, LockHeld, TypeOK
    <2>4. RoomFits'
      BY <1>0, <1>1 DEF PostStart, RoomFits, LockHeld, TypeOK
    <2> QED
      BY <2>1, <2>2, <2>3, <2>4 DEF SortInv
  <1>2. ASSUME NEW p \in Procs, PostTakeId(p) PROVE SortInv'
    <2>1. IdsSorted'
      BY <1>0, <1>a, <1>2 DEF PostTakeId, IdsSorted, SortedById, TakenIsLast, TypeOK
    <2>2. TakenIsLast'
      BY <1>0, <1>a, <1>2 DEF PostTakeId, TakenIsLast, LockHeld, TypeOK
    <2>3. SizeCurrent'
      BY <1>0, <1>2 DEF PostTakeId, SizeCurrent, LockHeld, TypeOK
    <2>4. RoomFits'
      BY <1>0, <1>2 DEF PostTakeId, RoomFits, LockHeld, TypeOK
    <2> QED
      BY <2>1, <2>2, <2>3, <2>4 DEF SortInv
  <1>3. ASSUME NEW p \in Procs, PostAppend(p) PROVE SortInv'
    <2>1. IdsSorted'
      <3>1. /\ Len(dir) \in Nat /\ DOMAIN dir' = 1 .. Len(dir) + 1
            /\ \A i \in 1 .. Len(dir) : dir'[i] = dir[i]
            /\ dir'[Len(dir) + 1] = tgt[p]
        BY <1>0, <1>3 DEF PostAppend, TypeOK
      <3>2. \A i \in 1 .. Len(dir) : dir[i].id <= tgt[p].id
        BY <1>0, <1>a, <1>3 DEF PostAppend, TakenIsLast, TypeOK
      <3> QED
        BY <1>0, <1>a, <3>1, <3>2 DEF IdsSorted, SortedById
    <2>2. TakenIsLast'
      BY <1>0, <1>a, <1>3 DEF PostAppend, TakenIsLast, LockHeld, TypeOK
    <2>3. SizeCurrent'
      BY <1>0, <1>3 DEF PostAppend, SizeCurrent, LockHeld, TypeOK
    <2>4. RoomFits'
      BY <1>0, <1>3 DEF PostAppend, RoomFits, LockHeld, TypeOK
    <2> QED
      BY <2>1, <2>2, <2>3, <2>4 DEF SortInv
  <1>4. ASSUME NEW p \in Procs, PostFiltered(p) PROVE SortInv'
    <2>1. IdsSorted'
      BY <1>0, <1>a, <1>4 DEF PostFiltered, IdsSorted, SortedById, TakenIsLast, TypeOK
    <2>2. TakenIsLast'
      BY <1>0, <1>a, <1>4 DEF PostFiltered, TakenIsLast, LockHeld, TypeOK
    <2>3. SizeCurrent'
      BY <1>0, <1>4 DEF PostFiltered, SizeCurrent, LockHeld, TypeOK
    <2>4. RoomFits'
      BY <1>0, <1>4 DEF PostFiltered, RoomFits, LockHeld, TypeOK
    <2> QED
      BY <2>1, <2>2, <2>3, <2>4 DEF SortInv
  <1>5. ASSUME NEW p \in Procs, DelStart(p) PROVE SortInv'
    <2>1. IdsSorted'
      BY <1>0, <1>a, <1>5 DEF DelStart, Pick, IdsSorted, SortedById, TakenIsLast, TypeOK
    <2>2. TakenIsLast'
      BY <1>0, <1>a, <1>5 DEF DelStart, Pick, TakenIsLast, LockHeld, TypeOK
    <2>3. SizeCurrent'
      BY <1>0, <1>5 DEF DelStart, Pick, SizeCurrent, LockHeld, TypeOK
    <2>4. RoomFits'
      BY <1>0, <1>5 DEF DelStart, Pick, RoomFits, LockHeld, TypeOK
    <2> QED
      BY <2>1, <2>2, <2>3, <2>4 DEF SortInv
  <1>6. ASSUME NEW p \in Procs, FlagStart(p) PROVE SortInv'
    <2>1. IdsSorted'
      BY <1>0, <1>a, <1>6 DEF FlagStart, Pick, IdsSorted, SortedById, TakenIsLast, TypeOK
    <2>2. TakenIsLast'
      BY <1>0, <1>a, <1>6 DEF FlagStart, Pick, TakenIsLast, LockHeld, TypeOK
    <2>3. SizeCurrent'
      BY <1>0, <1>6 DEF FlagStart, Pick, SizeCurrent, LockHeld, TypeOK
    <2>4. RoomFits'
      BY <1>0, <1>6 DEF FlagStart, Pick, RoomFits, LockHeld, TypeOK
    <2> QED
      BY <2>1, <2>2, <2>3, <2>4 DEF SortInv
  <1>7. ASSUME NEW p \in Procs, MapDir(p) PROVE SortInv'
    <2>1. IdsSorted'
      BY <1>0, <1>a, <1>7 DEF MapDir, IdsSorted, SortedById, TakenIsLast, TypeOK
    <2>2. TakenIsLast'
      <3>1. CASE Finish(p) /\ UNCHANGED shared
        BY <1>0, <3>1 DEF TakenIsLast, TypeOK
      <3>2. CASE Goto(p, "lock") /\ UNCHANGED <<op, tgt, ent, bin>> /\ UNCHANGED shared
        BY <1>0, <3>2 DEF TakenIsLast, TypeOK
      <3> QED
        BY <3>1, <3>2, <1>7 DEF MapDir
    <2>3. SizeCurrent'
      BY <1>0, <1>7 DEF MapDir, SizeCurrent, LockHeld, TypeOK
    <2>4. RoomFits'
      <3>1. CASE Finish(p) /\ UNCHANGED shared
        BY <1>0, <3>1 DEF RoomFits, TypeOK
      <3>2. CASE Goto(p, "lock") /\ UNCHANGED <<op, tgt, ent, bin>> /\ UNCHANGED shared
        BY <1>0, <3>2 DEF RoomFits, TypeOK
      <3> QED
        BY <3>1, <3>2, <1>7 DEF MapDir
    <2> QED
      BY <2>1, <2>2, <2>3, <2>4 DEF SortInv
  <1>8. ASSUME NEW p \in Procs, Locate(p) PROVE SortInv'
    <2>1. IdsSorted'
      BY <1>0, <1>a, <1>8 DEF Locate, IdsSorted, SortedById, TakenIsLast, TypeOK
    <2>2. TakenIsLast'
      BY <1>0, <1>a, <1>8 DEF Locate, TakenIsLast, LockHeld, TypeOK
    <2>3. SizeCurrent'
      BY <1>0, <1>8 DEF Locate, SizeCurrent, LockHeld, TypeOK
    <2>4. RoomFits'
      BY <1>0, <1>8 DEF Locate, RoomFits, LockHeld, TypeOK
    <2> QED
      BY <2>1, <2>2, <2>3, <2>4 DEF SortInv
  <1>9. ASSUME NEW p \in Procs, LocateFails(p) PROVE SortInv'
    <2>1. IdsSorted'
      BY <1>0, <1>a, <1>9 DEF LocateFails, IdsSorted, SortedById, TakenIsLast, TypeOK
    <2>2. TakenIsLast'
      BY <1>0, <1>a, <1>9 DEF LocateFails, TakenIsLast, LockHeld, TypeOK
    <2>3. SizeCurrent'
      BY <1>0, <1>9 DEF LocateFails, SizeCurrent, LockHeld, TypeOK
    <2>4. RoomFits'
      BY <1>0, <1>9 DEF LocateFails, RoomFits, LockHeld, TypeOK
    <2> QED
      BY <2>1, <2>2, <2>3, <2>4 DEF SortInv
  <1>10. ASSUME NEW p \in Procs, FlagCommit(p) PROVE SortInv'
    <2>1. IdsSorted'
      BY <1>0, <1>a, <1>10 DEF FlagCommit, IdsSorted, SortedById, TakenIsLast, TypeOK
    <2>2. TakenIsLast'
      BY <1>0, <1>a, <1>10 DEF FlagCommit, TakenIsLast, LockHeld, TypeOK
    <2>3. SizeCurrent'
      BY <1>0, <1>10 DEF FlagCommit, SizeCurrent, LockHeld, TypeOK
    <2>4. RoomFits'
      BY <1>0, <1>10 DEF FlagCommit, RoomFits, LockHeld, TypeOK
    <2> QED
      BY <2>1, <2>2, <2>3, <2>4 DEF SortInv
  <1>11. ASSUME NEW p \in Procs, DelMove(p) PROVE SortInv'
    <2>1. IdsSorted'
      <3>1. ent[p] \in DOMAIN dir /\ size[p] \in Nat /\ size[p] <= Len(dir)
        BY <1>0, <1>11 DEF DelMove, InRange, SizeCurrent, TypeOK
      <3>2. /\ View(size[p]) \in Seq(Entry) /\ Len(View(size[p])) = size[p]
            /\ \A i \in 1 .. size[p] : View(size[p])[i] = dir[i]
        <4>1. View(size[p]) \in Seq(Entry) /\ Len(View(size[p])) = size[p]
          BY <1>0, <3>1, ViewType DEF TypeOK
        <4>2. \A i \in 1 .. size[p] : View(size[p])[i] = dir[i]
          BY <3>1 DEF View
        <4> QED
          BY <4>1, <4>2
      <3>3. SortedById(MoveOver(dir, View(size[p]), ent[p]))
        <4>1. dir \in Seq(Entry) /\ SortedById(dir)
          BY <1>0 DEF IdsSorted, TypeOK
        <4> QED
          BY <3>1, <3>2, <4>1, MoveOverSorted
      <3> QED
        BY <1>11, <3>3 DEF DelMove, IdsSorted
    <2>2. TakenIsLast'
      BY <1>0, <1>a, <1>11 DEF DelMove, TakenIsLast, LockHeld, TypeOK
    <2>3. SizeCurrent'
      <3>1. Len(dir') = Len(dir)
        <4>1. ent[p] \in Nat /\ View(size[p]) \in Seq(Entry) /\ dir \in Seq(Entry)
          BY <1>0, ViewType DEF TypeOK
        <4> QED
          BY <1>11, <4>1, MoveOverType DEF DelMove
      <3> QED
        BY <1>0, <1>11, <3>1 DEF DelMove, SizeCurrent, LockHeld, TypeOK
    <2>4. RoomFits'
      BY <1>0, <1>11 DEF DelMove, RoomFits, LockHeld, TypeOK
    <2> QED
      BY <2>1, <2>2, <2>3, <2>4 DEF SortInv
  <1>12. ASSUME NEW p \in Procs, DelCut(p) PROVE SortInv'
    <2>1. IdsSorted'
      <3>1. size[p] - 1 \in Nat /\ size[p] - 1 < Len(dir)
        BY <1>0, <1>12 DEF DelCut, InRange, SizeCurrent, TypeOK
      <3>2. \A i \in DOMAIN dir' : i \in DOMAIN dir /\ dir'[i] = dir[i]
        BY <1>0, <1>12, <3>1 DEF DelCut, View, TypeOK
      <3> QED
        BY <1>0, <3>2 DEF IdsSorted, SortedById
    <2>2. TakenIsLast'
      BY <1>0, <1>a, <1>12 DEF DelCut, TakenIsLast, LockHeld, TypeOK
    <2>3. SizeCurrent'
      BY <1>0, <1>12 DEF DelCut, SizeCurrent, LockHeld, TypeOK
    <2>4. RoomFits'
      BY <1>0, <1>12 DEF DelCut, RoomFits, LockHeld, TypeOK
    <2> QED
      BY <2>1, <2>2, <2>3, <2>4 DEF SortInv
  <1>13. ASSUME NEW p \in Procs, DelFault(p) PROVE SortInv'
    <2>1. IdsSorted'
      BY <1>0, <1>13 DEF DelFault, CanFault, SizeCurrent, TypeOK
    <2>2. TakenIsLast'
      BY <1>0, <1>a, <1>13 DEF DelFault, TakenIsLast, LockHeld, TypeOK
    <2>3. SizeCurrent'
      BY <1>0, <1>13 DEF DelFault, SizeCurrent, LockHeld, TypeOK
    <2>4. RoomFits'
      BY <1>0, <1>13 DEF DelFault, RoomFits, LockHeld, TypeOK
    <2> QED
      BY <2>1, <2>2, <2>3, <2>4 DEF SortInv
  <1>14. ASSUME NEW p \in Procs, DelRename(p) PROVE SortInv'
    <2>1. IdsSorted'
      BY <1>0, <1>a, <1>14 DEF DelRename, IdsSorted, SortedById, TakenIsLast, TypeOK
    <2>2. TakenIsLast'
      BY <1>0, <1>a, <1>14 DEF DelRename, TakenIsLast, LockHeld, TypeOK
    <2>3. SizeCurrent'
      BY <1>0, <1>14 DEF DelRename, SizeCurrent, LockHeld, TypeOK
    <2>4. RoomFits'
      BY <1>0, <1>14 DEF DelRename, RoomFits, LockHeld, TypeOK
    <2> QED
      BY <2>1, <2>2, <2>3, <2>4 DEF SortInv
  <1>15. ASSUME NEW p \in Procs, DelTrash(p) PROVE SortInv'
    <2>1. IdsSorted'
      BY <1>0, <1>a, <1>15 DEF DelTrash, IdsSorted, SortedById, TakenIsLast, TypeOK
    <2>2. TakenIsLast'
      BY <1>0, <1>a, <1>15 DEF DelTrash, TakenIsLast, LockHeld, TypeOK
    <2>3. SizeCurrent'
      BY <1>0, <1>15 DEF DelTrash, SizeCurrent, LockHeld, TypeOK
    <2>4. RoomFits'
      BY <1>0, <1>15 DEF DelTrash, RoomFits, LockHeld, TypeOK
    <2> QED
      BY <2>1, <2>2, <2>3, <2>4 DEF SortInv
  <1>16. ASSUME NEW p \in Procs, UndelStart(p) PROVE SortInv'
    <2>1. IdsSorted'
      BY <1>0, <1>a, <1>16 DEF UndelStart, IdsSorted, SortedById, TakenIsLast, TypeOK
    <2>2. TakenIsLast'
      BY <1>0, <1>a, <1>16 DEF UndelStart, TakenIsLast, LockHeld, TypeOK
    <2>3. SizeCurrent'
      BY <1>0, <1>16 DEF UndelStart, SizeCurrent, LockHeld, TypeOK
    <2>4. RoomFits'
      BY <1>0, <1>16 DEF UndelStart, RoomFits, LockHeld, TypeOK
    <2> QED
      BY <2>1, <2>2, <2>3, <2>4 DEF SortInv
  <1>17. ASSUME NEW p \in Procs, UndelRename(p) PROVE SortInv'
    <2>1. IdsSorted'
      BY <1>0, <1>a, <1>17 DEF UndelRename, IdsSorted, SortedById, TakenIsLast, TypeOK
    <2>2. TakenIsLast'
      BY <1>0, <1>a, <1>17 DEF UndelRename, TakenIsLast, LockHeld, TypeOK
    <2>3. SizeCurrent'
      BY <1>0, <1>17 DEF UndelRename, SizeCurrent, LockHeld, TypeOK
    <2>4. RoomFits'
      BY <1>0, <1>17 DEF UndelRename, RoomFits, LockHeld, TypeOK
    <2> QED
      BY <2>1, <2>2, <2>3, <2>4 DEF SortInv
  <1>18. ASSUME NEW p \in Procs, UndelShift(p) PROVE SortInv'
    <2>0. PICK low \in Gaps(dir, tgt[p].id) :
                   dir' = MakeRoom(dir, low) /\ ent' = [ent EXCEPT ![p] = low]
      BY <1>18 DEF UndelShift
    <2>a. /\ dir \in Seq(Entry) /\ dir # <<>>
          /\ low \in 1 .. Len(dir) + 1 /\ tgt[p].id \in Nat
      BY <1>0, <1>a, <1>18 DEF UndelShift, Gaps, TypeOK
    <2>1. IdsSorted'
      BY <1>0, <1>a, <2>0, <2>a, MakeRoomSorted DEF IdsSorted
    <2>2. TakenIsLast'
      BY <1>0, <1>a, <1>18 DEF UndelShift, TakenIsLast, LockHeld, TypeOK
    <2>3. SizeCurrent'
      <3>1. Len(dir') = Len(dir) + 1 /\ Len(dir) \in Nat
        BY <2>0, <2>a, MakeRoomType
      <3> QED
        BY <1>0, <1>18, <3>1 DEF UndelShift, SizeCurrent, TypeOK
    <2>4. RoomFits'
      <3>1. \A i \in DOMAIN dir' : /\ i < low => dir'[i].id <= tgt[p].id
                                   /\ i > low => tgt[p].id <= dir'[i].id
        BY <1>0, <1>a, <2>0, <2>a, MakeRoomFits DEF IdsSorted
      <3>2. ent'[p] = low /\ tgt' = tgt
        BY <1>0, <1>18, <2>0 DEF UndelShift, TypeOK
      <3> QED
        BY <1>0, <1>18, <3>1, <3>2 DEF UndelShift, RoomFits, LockHeld, TypeOK
    <2> QED
      BY <2>1, <2>2, <2>3, <2>4 DEF SortInv
  <1>19. ASSUME NEW p \in Procs, UndelWrite(p) PROVE SortInv'
    <2>1. IdsSorted'
      BY <1>0, <1>a, <1>19 DEF UndelWrite, IdsSorted, SortedById, RoomFits, InRange, TypeOK
    <2>2. TakenIsLast'
      BY <1>0, <1>a, <1>19 DEF UndelWrite, TakenIsLast, LockHeld, TypeOK
    <2>3. SizeCurrent'
      BY <1>0, <1>19 DEF UndelWrite, SizeCurrent, LockHeld, TypeOK
    <2>4. RoomFits'
      BY <1>0, <1>19 DEF UndelWrite, RoomFits, LockHeld, TypeOK
    <2> QED
      BY <2>1, <2>2, <2>3, <2>4 DEF SortInv
  <1>20. ASSUME NEW p \in Procs, UndelTaken(p) PROVE SortInv'
    <2>1. IdsSorted'
      BY <1>0, <1>a, <1>20 DEF UndelTaken, IdsSorted, SortedById, TakenIsLast, TypeOK
    <2>2. TakenIsLast'
      BY <1>0, <1>a, <1>20 DEF UndelTaken, TakenIsLast, LockHeld, TypeOK
    <2>3. SizeCurrent'
      BY <1>0, <1>20 DEF UndelTaken, SizeCurrent, LockHeld, TypeOK
    <2>4. RoomFits'
      BY <1>0, <1>20 DEF UndelTaken, RoomFits, LockHeld, TypeOK
    <2> QED
      BY <2>1, <2>2, <2>3, <2>4 DEF SortInv
  <1>21. ASSUME NEW p \in Procs, UndelEmpty(p) PROVE SortInv'
    <2>1. IdsSorted'
      BY <1>0, <1>a, <1>21 DEF UndelEmpty, IdsSorted, SortedById, TakenIsLast, TypeOK
    <2>2. TakenIsLast'
      BY <1>0, <1>a, <1>21 DEF UndelEmpty, TakenIsLast, LockHeld, TypeOK
    <2>3. SizeCurrent'
      BY <1>0, <1>21 DEF UndelEmpty, SizeCurrent, LockHeld, TypeOK
    <2>4. RoomFits'
      BY <1>0, <1>21 DEF UndelEmpty, RoomFits, LockHeld, TypeOK
    <2> QED
      BY <2>1, <2>2, <2>3, <2>4 DEF SortInv
  <1>22. ASSUME NEW p \in Procs, UndelAppend(p) PROVE SortInv'
    <2>1. IdsSorted'
      BY <1>0, <1>a, <1>22 DEF UndelAppend, IdsSorted, SortedById, TakenIsLast, TypeOK
    <2>2. TakenIsLast'
      BY <1>0, <1>a, <1>22 DEF UndelAppend, TakenIsLast, LockHeld, TypeOK
    <2>3. SizeCurrent'
      BY <1>0, <1>22 DEF UndelAppend, SizeCurrent, LockHeld, TypeOK
    <2>4. RoomFits'
      BY <1>0, <1>22 DEF UndelAppend, RoomFits, LockHeld, TypeOK
    <2> QED
      BY <2>1, <2>2, <2>3, <2>4 DEF SortInv
  <1>23. ASSUME NEW p \in Procs, Die(p) PROVE SortInv'
    <2>1. IdsSorted'
      BY <1>0, <1>a, <1>23 DEF Die, IdsSorted, SortedById, TakenIsLast, TypeOK
    <2>2. TakenIsLast'
      BY <1>0, <1>a, <1>23 DEF Die, TakenIsLast, LockHeld, TypeOK
    <2>3. SizeCurrent'
      BY <1>0, <1>23 DEF Die, SizeCurrent, LockHeld, TypeOK
    <2>4. RoomFits'
      BY <1>0, <1>23 DEF Die, RoomFits, LockHeld, TypeOK
    <2> QED
      BY <2>1, <2>2, <2>3, <2>4 DEF SortInv
  <1>24. CASE FlushBcache
    BY <1>0, <1>24 DEF FlushBcache
  <1>25. CASE Restart(nowid)
    BY <1>0, <1>25 DEF Restart, Everywhere, SortInv, IdsSorted, TakenIsLast,
                  SizeCurrent, RoomFits
  <1>26. CASE UNCHANGED vars
    BY <1>0, <1>26 DEF vars, SortInv, IdsSorted, TakenIsLast, SizeCurrent, RoomFits
  <1> QED
    BY <1>1, <1>2, <1>3, <1>4, <1>5, <1>6, <1>7, <1>8, <1>9, <1>10, <1>11, <1>12, <1>13, <1>14, <1>15, <1>16, <1>17, <1>18, <1>19, <1>20, <1>21, <1>22, <1>23, <1>24, <1>25, <1>26 DEF Next, Post, Prepare, Delete, SetFlag, Undelete, Reboot, PowerLoss

LEMMA SortInvInit == Init => SortInv
  <1> SUFFICES ASSUME Init PROVE SortInv
    OBVIOUS
  <1>1. dir \in Seq(Entry)
    BY TypeInvInit DEF TypeInv, TypeOK
  <1>2. IdsSorted
    <2>1. \A i, j \in DOMAIN dir : i < j => dir[i].id < dir[j].id
      BY DEF Init
    <2>2. \A i \in DOMAIN dir : dir[i].id \in Nat
      BY <1>1, SeqIds
    <2>3. \A m, n \in Nat : m < n => m <= n
      OBVIOUS
    <2> QED
      BY <2>1, <2>2, <2>3 DEF IdsSorted, SortedById
  <1>3. TakenIsLast /\ SizeCurrent /\ RoomFits
    BY DEF Init, TakenIsLast, SizeCurrent, RoomFits, Deleting, At, Everywhere
  <1> QED
    BY <1>2, <1>3 DEF SortInv

(* Without power loss, and if deleting is left to one process at a time,   *)
(* .DIR can be searched by id at every moment (is_sorted_mode), however    *)
(* many users post, flag and recover articles, die or are restarted.       *)
THEOREM AlwaysSorted ==
  ASSUME ~Crash, OneDeleterOnly
  PROVE  Spec => []IdsSorted
  <1> DEFINE Inv == TypeInv /\ IdInv /\ SortInv
  <1>1. Init => Inv
    BY TypeInvInit, IdInvInit, SortInvInit
  <1>2. Inv /\ [Next]_vars => Inv'
    BY TypeInvStep, IdInvStep, SortInvStep
  <1>3. Inv => IdsSorted
    BY DEF SortInv
  <1> QED
    BY <1>1, <1>2, <1>3, PTL DEF Spec

-----------------------------------------------------------------------------
(* The fourth layer: what is in .DIR, when one process deletes and one       *)
(* recovers.                                                                 *)

OneRecovererOnly ==
  \A p, q \in Procs : "undelete" \in Ops[p] /\ "undelete" \in Ops[q] => p = q

(* Nothing is there twice unless entries are being moved. *)
LEMMA AllApart ==
  ASSUME TypeOK, IndexedOnce, \A p \in Procs : Moving(p) => lock # p
  PROVE  \A i, j \in DOMAIN dir : dir[i].name = dir[j].name => i = j
  <1>1. \A i, j \in DOMAIN dir : i \in Nat /\ j \in Nat
    BY DEF TypeOK
  <1>2. \A i, j \in DOMAIN dir : i < j => dir[i].name # dir[j].name
    BY DEF IndexedOnce
  <1> QED
    BY <1>1, <1>2

(* Steps that leave .DIR alone, and who moves entries in it. *)
MoversStay ==
  \A p \in Procs : /\ Moving(p)' <=> Moving(p)
                   /\ Moving(p) => /\ pc'[p] = pc[p] /\ ent'[p] = ent[p] /\ size'[p] = size[p]
                                   /\ lock = p => lock' = p

LEMMA SameDir ==
  ASSUME IndexedOnce, TwiceWhere, dir' = dir, MoversStay
  PROVE  IndexedOnce' /\ TwiceWhere'
  <1>1. IndexedOnce'
    BY DEF IndexedOnce, MoversStay
  <1>2. TwiceWhere'
    BY DEF TwiceWhere, MoversStay, Moving, At
  <1> QED
    BY <1>1, <1>2

(* Steps that change no file, and bring nothing into anybody's hands. *)
HandsKept ==
  \A p \in Procs : InHand(p)' =>
    /\ InHand(p) /\ tgt'[p].name = tgt[p].name /\ bin'[p] = bin[p]
    /\ pc'[p] = "undel_rename" <=> pc[p] = "undel_rename"
    /\ pc[p] = "del_cut" => pc'[p] = "del_cut" /\ size'[p] = size[p]

LEMMA Quiet ==
  ASSUME OnceInv, dir' = dir, body' = body, MoversStay, HandsKept
  PROVE  OnceInv'
  <1>1. IndexedOnce' /\ TwiceWhere'
    BY SameDir DEF OnceInv
  <1>2. IndexedHasBody'
    BY DEF OnceInv, IndexedHasBody, Index, Range
  <1>3. HandsOff'
    BY DEF OnceInv, HandsOff, HandsKept, At
  <1>4. OneHand'
    BY DEF OnceInv, OneHand, HandsKept
  <1> QED
    BY <1>1, <1>2, <1>3, <1>4 DEF OnceInv

LEMMA QuietSteps ==
  ASSUME ~Crash, TypeInv, OnceInv, NEW p \in Procs,
         \/ PostTakeId(p) \/ DelStart(p) \/ FlagStart(p) \/ MapDir(p) \/ Locate(p)
         \/ LocateFails(p) \/ DelTrash(p) \/ UndelTaken(p) \/ UndelEmpty(p) \/ Die(p)
  PROVE  OnceInv'
  <1>0. TypeOK /\ LockHeld
    BY DEF TypeInv
  <1> USE DEF At, Goto, LockFree, Keep, Finish, shared, local, Pick
  <1>1. dir' = dir /\ body' = body
    BY DEF PostTakeId, DelStart, FlagStart, MapDir, Locate, LocateFails, DelTrash, UndelTaken,
           UndelEmpty, Die
  <1>2. ~Moving(p)
    BY DEF PostTakeId, DelStart, FlagStart, MapDir, Locate, LocateFails, DelTrash, UndelTaken,
           UndelEmpty, Die, Moving
  <1>3. ~Moving(p)'
    BY <1>0 DEF PostTakeId, DelStart, FlagStart, MapDir, Locate, LocateFails, DelTrash, UndelTaken,
           UndelEmpty, Die, Moving, TypeOK
  <1>4. \A q \in Procs \ {p} : pc'[q] = pc[q] /\ ent'[q] = ent[q] /\ size'[q] = size[q]
                               /\ tgt'[q] = tgt[q] /\ bin'[q] = bin[q]
    BY <1>0 DEF PostTakeId, DelStart, FlagStart, MapDir, Locate, LocateFails, DelTrash, UndelTaken,
           UndelEmpty, Die, TypeOK
  <1>5. lock \in {NoProc, p} \/ lock' = lock
    BY DEF PostTakeId, DelStart, FlagStart, MapDir, Locate, LocateFails, DelTrash, UndelTaken,
           UndelEmpty, Die
  <1>6. MoversStay
    BY <1>2, <1>3, <1>4, <1>5, NoneAssumption DEF MoversStay, Moving
  <1>7. InHand(p)' => /\ InHand(p) /\ tgt'[p].name = tgt[p].name /\ bin'[p] = bin[p]
                      /\ pc'[p] # "undel_rename" /\ pc[p] # "undel_rename" /\ pc[p] # "del_cut"
    BY <1>0 DEF PostTakeId, DelStart, FlagStart, MapDir, Locate, LocateFails, DelTrash, UndelTaken,
           UndelEmpty, Die, TypeOK, InHand, Entry
  <1>8. HandsKept
    BY <1>4, <1>7 DEF HandsKept, InHand
  <1> QED
    BY <1>1, <1>6, <1>8, Quiet

(* Steps that rename article files. *)
LEMMA FileSteps ==
  ASSUME OneRecovererOnly, TypeInv, OnceInv, NEW p \in Procs,
         PostStart(p) \/ PostFiltered(p) \/ DelRename(p) \/ UndelStart(p) \/ UndelRename(p)
  PROVE  OnceInv'
  <1>0. TypeOK /\ IndexedOnce /\ IndexedHasBody /\ HandsOff /\ OneHand /\ TwiceWhere
    BY DEF TypeInv, OnceInv
  <1> USE DEF At, Goto, LockFree, Keep, Finish, shared, local
  <1>1. dir' = dir /\ lock' = lock
    BY DEF PostStart, PostFiltered, DelRename, UndelStart, UndelRename
  <1>2. ~Moving(p)
    BY DEF PostStart, PostFiltered, DelRename, UndelStart, UndelRename, Moving
  <1>3. ~Moving(p)'
    BY <1>0 DEF PostStart, PostFiltered, DelRename, UndelStart, UndelRename, Moving, TypeOK
  <1>4. \A q \in Procs \ {p} : pc'[q] = pc[q] /\ ent'[q] = ent[q] /\ size'[q] = size[q]
                               /\ tgt'[q] = tgt[q] /\ bin'[q] = bin[q]
    BY <1>0 DEF PostStart, PostFiltered, DelRename, UndelStart, UndelRename, TypeOK
  <1>5. MoversStay
    BY <1>1, <1>2, <1>3, <1>4 DEF MoversStay, Moving
  <1>6. IndexedOnce' /\ TwiceWhere'
    BY <1>0, <1>1, <1>5, SameDir
  <1> DEFINE f == tgt'[p].name  g == tgt[p].name
  <1>7. ASSUME NEW h \in Posts,
               \A e \in Posts \ {h} : body'[e] = body[e],
               \/ body'[h] = "M"
               \/ \A i \in DOMAIN dir : dir[i].name # h,
               \A q \in Procs \ {p} : InHand(q) => tgt[q].name # h,
               InHand(p)' => /\ f = h
                             /\ \A i \in DOMAIN dir : dir[i].name # h
                             /\ pc'[p] = "undel_rename" => "undelete" \in Ops[p] /\ bin'[p] \in Bins
                             /\ body'[h] = IF pc'[p] = "undel_rename" THEN bin'[p] ELSE "M"
        PROVE  OnceInv'
    <2>1. IndexedHasBody'
      BY <1>0, <1>1, <1>7 DEF IndexedHasBody, Index, Range
    <2>2. HandsOff'
      <3> SUFFICES ASSUME NEW q \in Procs, InHand(q)'
                   PROVE  /\ tgt'[q].name \in Posts
                          /\ pc'[q] = "undel_rename" => "undelete" \in Ops[q] /\ bin'[q] \in Bins
                          /\ body'[tgt'[q].name] = IF pc'[q] = "undel_rename" THEN bin'[q] ELSE "M"
                          /\ \A i \in DOMAIN dir : dir[i].name = tgt'[q].name =>
                               pc'[q] = "del_cut" /\ i = size'[q]
        BY <1>1 DEF HandsOff
      <3>1. CASE q = p
        BY <1>7, <3>1
      <3>2. CASE q # p
        <4>1. InHand(q) /\ pc'[q] = pc[q] /\ tgt'[q] = tgt[q] /\ bin'[q] = bin[q] /\ size'[q] = size[q]
          BY <1>4, <3>2 DEF InHand
        <4>2. tgt[q].name \in Posts /\ tgt[q].name # h
          BY <1>0, <1>7, <3>2, <4>1 DEF HandsOff
        <4>3. body'[tgt[q].name] = body[tgt[q].name]
          BY <1>7, <4>2
        <4> QED
          BY <1>0, <4>1, <4>2, <4>3 DEF HandsOff
      <3> QED
        BY <3>1, <3>2
    <2>3. OneHand'
      <3> SUFFICES ASSUME NEW q \in Procs, NEW r \in Procs, InHand(q)', InHand(r)',
                          tgt'[q].name = tgt'[r].name
                   PROVE  q = r
        BY DEF OneHand
      <3>1. \A s \in Procs \ {p} : InHand(s)' => InHand(s) /\ tgt'[s] = tgt[s] /\ tgt[s].name # h
        BY <1>4, <1>7 DEF InHand
      <3> QED
        BY <1>0, <1>7, <3>1 DEF OneHand
    <2> QED
      BY <1>6, <2>1, <2>2, <2>3 DEF OnceInv
  <1>8. \A h : (\E i \in DOMAIN dir : dir[i].name = h) => h \in Posts /\ body[h] = "M"
    BY <1>0 DEF IndexedHasBody, Index, Range
  <1>9. CASE PostStart(p)
    <2>1. PICK h \in Posts : /\ body[h] = "none" /\ body' = [body EXCEPT ![h] = "M"]
                             /\ tgt' = [tgt EXCEPT ![p] = [id |-> 0, name |-> h, marked |-> FALSE]]
                             /\ pc' = [pc EXCEPT ![p] = "post"]
      BY <1>9 DEF PostStart
    <2>2. f = h /\ pc'[p] = "post" /\ body'[h] = "M" /\ \A e \in Posts \ {h} : body'[e] = body[e]
      BY <1>0, <2>1 DEF TypeOK
    <2>3. \A q \in Procs : InHand(q) => tgt[q].name # h
      BY <1>0, <2>1, BinsAssumption DEF HandsOff
    <2>4. \A i \in DOMAIN dir : dir[i].name # h
      BY <1>8, <2>1
    <2> QED
      BY <1>7, <2>2, <2>3, <2>4
  <1>10. CASE PostFiltered(p)
    <2>1. InHand(p) /\ pc[p] = "post" /\ body' = [body EXCEPT ![g] = "none"] /\ pc'[p] = "idle"
      BY <1>0, <1>10 DEF PostFiltered, InHand, TypeOK
    <2>2. g \in Posts /\ \A i \in DOMAIN dir : dir[i].name # g
      BY <1>0, <2>1 DEF HandsOff
    <2>3. \A q \in Procs \ {p} : InHand(q) => tgt[q].name # g
      BY <1>0, <2>1 DEF OneHand
    <2>4. ~InHand(p)'
      BY <2>1 DEF InHand
    <2>5. \A e \in Posts \ {g} : body'[e] = body[e]
      BY <1>0, <2>1 DEF TypeOK
    <2> QED
      BY <1>7, <2>2, <2>3, <2>4, <2>5
  <1>11. CASE DelRename(p)
    <2>1. InHand(p) /\ pc[p] = "del_rename" /\ pc'[p] = "del_trash"
          /\ body' = IF g # NoPost /\ body[g] = "M" THEN [body EXCEPT ![g] = bin[p]] ELSE body
      BY <1>0, <1>11 DEF DelRename, InHand, TypeOK
    <2>2. g \in Posts /\ \A i \in DOMAIN dir : dir[i].name # g
      BY <1>0, <2>1 DEF HandsOff
    <2>3. \A q \in Procs \ {p} : InHand(q) => tgt[q].name # g
      BY <1>0, <2>1 DEF OneHand
    <2>4. ~InHand(p)'
      BY <2>1 DEF InHand
    <2>5. \A e \in Posts \ {g} : body'[e] = body[e]
      BY <1>0, <2>1 DEF TypeOK
    <2> QED
      BY <1>7, <2>2, <2>3, <2>4, <2>5
  <1>12. CASE UndelStart(p)
    <2>0. PICK b \in Bins : \E r \in trash[b] :
             /\ r.name # NoPost /\ body[r.name] = b
             /\ tgt' = [tgt EXCEPT ![p] = r] /\ bin' = [bin EXCEPT ![p] = b]
      BY <1>12 DEF UndelStart
    <2>1. PICK r \in trash[b] :
             /\ r.name # NoPost /\ body[r.name] = b
             /\ tgt' = [tgt EXCEPT ![p] = r] /\ bin' = [bin EXCEPT ![p] = b]
      BY <2>0
    <2>2. /\ "undelete" \in Ops[p] /\ pc[p] = "idle" /\ pc' = [pc EXCEPT ![p] = "undel_rename"]
          /\ body' = body
      BY <1>12 DEF UndelStart
    <2>3. r \in Entry /\ r.name \in Posts
      BY <1>0, <2>1 DEF TypeOK, Entry
    <2>4. f = r.name /\ bin'[p] = b /\ pc'[p] = "undel_rename" /\ b # "M"
      BY <1>0, <2>1, <2>2, BinsAssumption DEF TypeOK
    <2>5. \A i \in DOMAIN dir : dir[i].name # r.name
      BY <1>8, <2>1, <2>4
    <2>6. \A q \in Procs \ {p} : InHand(q) => tgt[q].name # r.name
      <3> SUFFICES ASSUME NEW q \in Procs \ {p}, InHand(q), tgt[q].name = r.name PROVE FALSE
        OBVIOUS
      <3>1. pc[q] = "undel_rename" /\ "undelete" \in Ops[q]
        BY <1>0, <2>1, <2>4 DEF HandsOff
      <3> QED
        BY <2>2, <3>1 DEF OneRecovererOnly
    <2> QED
      BY <1>7, <2>1, <2>2, <2>3, <2>4, <2>5, <2>6
  <1>13. CASE UndelRename(p)
    <2>1. InHand(p) /\ pc[p] = "undel_rename" /\ pc'[p] = "undel_insert" /\ tgt' = tgt
          /\ body' = IF body[g] = bin[p] THEN [body EXCEPT ![g] = "M"] ELSE body
      BY <1>0, <1>13 DEF UndelRename, InHand, TypeOK
    <2>2. /\ g \in Posts /\ body[g] = bin[p]
          /\ \A i \in DOMAIN dir : dir[i].name # g
      BY <1>0, <2>1 DEF HandsOff
    <2>3. \A q \in Procs \ {p} : InHand(q) => tgt[q].name # g
      BY <1>0, <2>1 DEF OneHand
    <2>4. f = g /\ body'[g] = "M" /\ \A e \in Posts \ {g} : body'[e] = body[e]
      BY <1>0, <2>1, <2>2 DEF TypeOK
    <2> QED
      BY <1>7, <2>1, <2>2, <2>3, <2>4
  <1> QED
    BY <1>9, <1>10, <1>11, <1>12, <1>13

LEMMA EntMappedStep ==
  ASSUME TypeInv, TypeInv', EntMapped, Next
  PROVE  EntMapped'
  <1>0. TypeOK /\ TypeOK'
    BY DEF TypeInv
  <1>d. DOMAIN pc = Procs /\ DOMAIN ent = Procs /\ DOMAIN size = Procs
    BY <1>0 DEF TypeOK
  <1> USE DEF At, Goto, LockFree, Keep, Finish, shared, local, Pick
  <1>1. ASSUME NEW p \in Procs, Post(p) \/ Prepare(p) \/ Delete(p) \/ SetFlag(p) \/ Undelete(p) \/ Die(p)
        PROVE  EntMapped'
    <2>1. \A q \in Procs \ {p} : pc'[q] = pc[q] /\ ent'[q] = ent[q] /\ size'[q] = size[q]
      <3>1. CASE Post(p) \/ Prepare(p)
        BY <1>d, <3>1 DEF Post, PostStart, PostTakeId, PostAppend, PostFiltered,
           Prepare, MapDir, Locate, LocateFails
      <3>2. CASE Delete(p) \/ SetFlag(p) \/ Die(p)
        BY <1>d, <3>2 DEF Delete, DelStart, DelMove, DelCut, DelFault, DelRename, DelTrash,
           SetFlag, FlagStart, FlagCommit, Die
      <3>3. CASE Undelete(p)
        BY <1>d, <3>3 DEF Undelete, UndelStart, UndelRename, UndelShift, UndelWrite,
           UndelTaken, UndelEmpty, UndelAppend
      <3> QED
        BY <1>1, <3>1, <3>2, <3>3
    <2>2. pc'[p] = "commit" => Locate(p)
      <3>1. CASE Post(p) \/ Prepare(p)
        BY <1>0, <3>1 DEF TypeOK, Post, PostStart, PostTakeId, PostAppend, PostFiltered,
           Prepare, MapDir, LocateFails
      <3>2. CASE Delete(p) \/ SetFlag(p) \/ Die(p)
        BY <1>0, <3>2 DEF TypeOK, Delete, DelStart, DelMove, DelCut, DelFault, DelRename, DelTrash,
           SetFlag, FlagStart, FlagCommit, Die
      <3>3. CASE Undelete(p)
        BY <1>0, <3>3 DEF TypeOK, Undelete, UndelStart, UndelRename, UndelShift, UndelWrite,
           UndelTaken, UndelEmpty, UndelAppend
      <3> QED
        BY <1>1, <3>1, <3>2, <3>3
    <2>3. Locate(p) => ent'[p] \in 1 .. size'[p]
      <3> SUFFICES ASSUME Locate(p) PROVE ent'[p] \in 1 .. size'[p]
        OBVIOUS
      <3>1. size[p] \in Nat /\ size' = size
        BY <1>0 DEF TypeOK, Locate
      <3>2. DOMAIN View(size[p]) = 1 .. size[p]
        BY DEF View
      <3>3. Located(p) \subseteq 1 .. size[p]
        BY <3>1, <3>2 DEF Located, InPlace, Hits
      <3>4. PICK e \in Located(p) : ent' = [ent EXCEPT ![p] = e]
        BY DEF Locate
      <3> QED
        BY <1>0, <3>1, <3>3, <3>4 DEF TypeOK
    <2> QED
      BY <2>1, <2>2, <2>3 DEF EntMapped
  <1>2. CASE FlushBcache
    BY <1>2 DEF FlushBcache, EntMapped
  <1>3. CASE Reboot \/ PowerLoss
    BY <1>3 DEF Reboot, PowerLoss, Restart, Everywhere, EntMapped
  <1> QED
    BY <1>1, <1>2, <1>3 DEF Next

(* What is in .DIR was there before, but for f, which nobody else has in hand. *)
OnlyNew(p, f) ==
  /\ \A q \in Procs \ {p} : InHand(q) => tgt[q].name # f
  /\ \A i \in DOMAIN dir' : \/ dir'[i].name = f /\ f \in Posts /\ body[f] = "M"
                            \/ \E j \in DOMAIN dir : dir'[i].name = dir[j].name

(* Steps that change .DIR and leave nothing there twice. *)
LEMMA Rewritten ==
  ASSUME OnceInv, NEW p \in Procs, body' = body,
         \A q \in Procs \ {p} : /\ ~Moving(q)
                                /\ pc'[q] = pc[q] /\ tgt'[q] = tgt[q] /\ bin'[q] = bin[q],
         ~Moving(p)', NEW f, OnlyNew(p, f),
         \A i, j \in DOMAIN dir' : dir'[i].name = dir'[j].name => i = j,
         DOMAIN dir' \subseteq Nat,
         InHand(p)' => /\ pc'[p] # "undel_rename" /\ InHand(p)
                       /\ tgt'[p].name = tgt[p].name /\ pc[p] # "undel_rename"
                       /\ \A i \in DOMAIN dir' : dir'[i].name # tgt[p].name
  PROVE  OnceInv'
  <1>0. IndexedOnce /\ IndexedHasBody /\ HandsOff /\ OneHand /\ TwiceWhere
    BY DEF OnceInv
  <1>1. \A i, j \in DOMAIN dir' : i < j => i # j
    OBVIOUS
  <1>2. IndexedOnce' /\ TwiceWhere'
    BY <1>1 DEF IndexedOnce, TwiceWhere
  <1> USE DEF OnlyNew
  <1>3. \A h : (\E i \in DOMAIN dir : dir[i].name = h) => h \in Posts /\ body[h] = "M"
    BY <1>0 DEF IndexedHasBody, Index, Range
  <1>4. IndexedHasBody'
    BY <1>3 DEF IndexedHasBody, Index, Range
  <1>5. HandsOff'
    <2> SUFFICES ASSUME NEW q \in Procs, InHand(q)'
                 PROVE  /\ tgt'[q].name \in Posts
                        /\ pc'[q] = "undel_rename" => "undelete" \in Ops[q] /\ bin'[q] \in Bins
                        /\ body[tgt'[q].name] = IF pc'[q] = "undel_rename" THEN bin'[q] ELSE "M"
                        /\ \A i \in DOMAIN dir' : dir'[i].name # tgt'[q].name
      BY DEF HandsOff, At
    <2>1. CASE q = p
      BY <1>0, <2>1 DEF HandsOff, At
    <2>2. CASE q # p
      <3>1. InHand(q) /\ pc[q] # "del_cut"
        BY <2>2 DEF InHand, Moving
      <3>2. \A i \in DOMAIN dir : dir[i].name # tgt[q].name
        BY <1>0, <3>1 DEF HandsOff, At
      <3>3. \A i \in DOMAIN dir' : dir'[i].name # tgt'[q].name
        BY <2>2, <3>1, <3>2
      <3> QED
        BY <1>0, <2>2, <3>1, <3>3 DEF HandsOff, At
    <2> QED
      BY <2>1, <2>2
  <1>6. OneHand'
    BY <1>0 DEF OneHand, InHand
  <1> QED
    BY <1>2, <1>4, <1>5, <1>6 DEF OnceInv

LEMMA NameSteps ==
  ASSUME TypeInv, IdInv, SortInv, OnceInv, EntMapped, NEW p \in Procs,
         PostAppend(p) \/ FlagCommit(p) \/ DelCut(p) \/ UndelWrite(p) \/ UndelAppend(p)
  PROVE  OnceInv'
  <1>0. /\ TypeOK /\ LockHeld /\ InRange /\ IndexedOnce /\ IndexedHasBody /\ HandsOff /\ OneHand
        /\ TwiceWhere /\ SizeCurrent
    BY DEF TypeInv, OnceInv, SortInv
  <1>t. /\ DOMAIN pc = Procs /\ DOMAIN tgt = Procs /\ DOMAIN bin = Procs /\ dir \in Seq(Entry)
        /\ Len(dir) \in Nat /\ DOMAIN dir = 1 .. Len(dir)
        /\ tgt[p] \in Entry /\ nowid \in Nat /\ size[p] \in Nat
    BY <1>0 DEF TypeOK
  <1> USE DEF At, Goto, LockFree, Keep, Finish, shared, local
  <1>1. body' = body /\ (lock = p \/ lock = NoProc)
    BY <1>0 DEF PostAppend, FlagCommit, DelCut, UndelWrite, UndelAppend, LockHeld
  <1>2. \A q \in Procs \ {p} : /\ ~Moving(q)
                               /\ pc'[q] = pc[q] /\ tgt'[q] = tgt[q] /\ bin'[q] = bin[q]
    <2>1. \A q \in Procs \ {p} : ~Moving(q)
      BY <1>0, <1>1, NoneAssumption DEF LockHeld, Moving
    <2> QED
      BY <2>1, <1>t DEF PostAppend, FlagCommit, DelCut, UndelWrite, UndelAppend
  <1>3. ~Moving(p)' /\ (pc'[p] = "idle" \/ DelCut(p))
    BY <1>t DEF PostAppend, FlagCommit, DelCut, UndelWrite, UndelAppend, Moving
  <1>4. ~Moving(p) => \A i, j \in DOMAIN dir : dir[i].name = dir[j].name => i = j
    BY <1>0, <1>2, AllApart
  <1> DEFINE f == tgt[p].name
  <1>5. InHand(p) => /\ \A q \in Procs \ {p} : InHand(q) => tgt[q].name # f
                     /\ f \in Posts
                     /\ pc[p] # "undel_rename" => body[f] = "M"
                     /\ \A i \in DOMAIN dir : dir[i].name = f => pc[p] = "del_cut" /\ i = size[p]
    BY <1>0 DEF OneHand, HandsOff
  <1>6. \A q \in Procs : InHand(q) => tgt[q].name # NoPost
    BY <1>0, NoneAssumption DEF HandsOff
  <1>7. ASSUME NEW e, e.name = f, dir' = Append(dir, e), InHand(p), ~Moving(p), pc[p] # "undel_rename",
               pc'[p] = "idle"
        PROVE  OnceInv'
    <2>1. /\ DOMAIN dir' = 1 .. Len(dir) + 1 /\ dir'[Len(dir) + 1] = e
          /\ \A i \in 1 .. Len(dir) : dir'[i] = dir[i]
      BY <1>t, <1>7
    <2>2. \A i \in DOMAIN dir' : \/ i = Len(dir) + 1 /\ dir'[i].name = f
                                 \/ i \in DOMAIN dir /\ dir'[i] = dir[i]
      BY <1>t, <1>7, <2>1
    <2>3. OnlyNew(p, f)
      BY <1>5, <1>7, <2>2 DEF OnlyNew
    <2>4. \A i, j \in DOMAIN dir' : dir'[i].name = dir'[j].name => i = j
      BY <1>4, <1>5, <1>7, <2>2, <1>3 DEF Moving
    <2>5. ~InHand(p)' /\ DOMAIN dir' \subseteq Nat
      BY <1>7, <2>1, <1>t DEF InHand
    <2> QED
      BY <1>1, <1>2, <1>3, <2>3, <2>4, <2>5, Rewritten
  <1>8. CASE PostAppend(p)
    <2>1. dir' = Append(dir, tgt[p]) /\ InHand(p) /\ ~Moving(p) /\ pc[p] = "post_append" /\ pc'[p] = "idle"
      BY <1>8, <1>t DEF PostAppend, InHand, Moving
    <2> QED
      BY <2>1, <1>7
  <1>9. CASE UndelAppend(p)
    <2> DEFINE e == [tgt[p] EXCEPT !.id = nowid + 1]
    <2>1. dir' = Append(dir, e) /\ InHand(p) /\ ~Moving(p) /\ pc[p] = "undel_append" /\ pc'[p] = "idle"
      BY <1>9, <1>t DEF UndelAppend, InHand, Moving
    <2>2. e.name = f
      BY <1>t DEF Entry
    <2> QED
      BY <2>1, <2>2, <1>7
  <1>13. ASSUME \A i \in DOMAIN dir' : \E j \in DOMAIN dir : dir'[i].name = dir[j].name,
                \A i, j \in DOMAIN dir' : dir'[i].name = dir'[j].name => i = j,
                DOMAIN dir' \subseteq Nat,
                InHand(p)' => /\ pc'[p] # "undel_rename" /\ InHand(p)
                              /\ tgt'[p].name = f /\ pc[p] # "undel_rename"
                              /\ \A i \in DOMAIN dir' : dir'[i].name # f
         PROVE  OnceInv'
    <2>1. OnlyNew(p, NoPost)
      BY <1>6, <1>13 DEF OnlyNew
    <2>2. body' = body /\ ~Moving(p)'
      BY <1>1, <1>3
    <2>3. InHand(p)' => /\ pc'[p] # "undel_rename" /\ InHand(p)
                        /\ tgt'[p].name = tgt[p].name /\ pc[p] # "undel_rename"
                        /\ \A i \in DOMAIN dir' : dir'[i].name # tgt[p].name
      BY <1>13
    <2>4. \A i, j \in DOMAIN dir' : dir'[i].name = dir'[j].name => i = j
      BY <1>13
    <2>5. DOMAIN dir' \subseteq Nat
      BY <1>13
    <2> HIDE DEF f
    <2> QED
      BY <1>2, <2>1, <2>2, <2>3, <2>4, <2>5, Rewritten
  <1>10. CASE FlagCommit(p)
    <2>1. /\ dir' = [dir EXCEPT ![ent[p]].marked = ~tgt[p].marked]
          /\ pc[p] = "commit" /\ pc'[p] = "idle" /\ ent[p] \in DOMAIN dir
      BY <1>0, <1>10, <1>t DEF FlagCommit, InRange
    <2>2. DOMAIN dir' = DOMAIN dir /\ \A i \in DOMAIN dir : dir'[i].name = dir[i].name
      <3>1. \A i \in DOMAIN dir : dir[i] \in Entry
        BY <1>t
      <3> QED
        BY <2>1, <3>1 DEF Entry
    <2>3. \A i, j \in DOMAIN dir' : dir'[i].name = dir'[j].name => i = j
      BY <1>4, <2>1, <2>2 DEF Moving
    <2>4. ~InHand(p)' /\ DOMAIN dir' \subseteq Nat
      BY <2>1, <2>2, <1>t DEF InHand
    <2> QED
      BY <2>2, <2>3, <2>4, <1>13
  <1>11. CASE DelCut(p)
    <2>1. /\ dir' = View(size[p] - 1) /\ pc[p] = "del_cut" /\ pc'[p] = "del_rename" /\ tgt' = tgt
      BY <1>11, <1>t DEF DelCut
    <2>2. size[p] <= Len(dir) /\ size[p] > 0
      BY <1>0, <2>1 DEF SizeCurrent, Deleting, InRange
    <2>3. DOMAIN dir' = 1 .. size[p] - 1
          /\ \A i \in 1 .. size[p] - 1 : i \in DOMAIN dir /\ i # size[p] /\ dir'[i] = dir[i]
      BY <1>t, <2>1, <2>2 DEF View
    <2>4. \A i, j \in 1 .. size[p] - 1 : i < j => dir'[i].name # dir'[j].name
      BY <1>0, <2>1, <2>3 DEF TwiceWhere
    <2>5. \A i, j \in DOMAIN dir' : dir'[i].name = dir'[j].name => i = j
      <3>1. \A i, j \in 1 .. size[p] - 1 : i < j \/ i = j \/ j < i
        BY <1>t
      <3> QED
        BY <2>3, <2>4, <3>1
    <2>6. InHand(p)' /\ InHand(p) /\ DOMAIN dir' \subseteq Nat
      BY <2>1, <2>3, <1>t DEF InHand
    <2>7. \A i \in DOMAIN dir' : dir'[i].name # f
      BY <1>5, <2>3, <2>6
    <2> QED
      BY <2>1, <2>3, <2>5, <2>6, <2>7, <1>13
  <1>12. CASE UndelWrite(p)
    <2>1. /\ dir' = [dir EXCEPT ![ent[p]] = tgt[p]] /\ pc[p] = "undel_write" /\ pc'[p] = "idle"
          /\ ent[p] \in DOMAIN dir /\ InHand(p)
      BY <1>0, <1>12, <1>t DEF UndelWrite, InRange, InHand
    <2>2. DOMAIN dir' = DOMAIN dir /\ dir'[ent[p]] = tgt[p]
          /\ \A i \in DOMAIN dir : i # ent[p] => dir'[i] = dir[i]
      BY <2>1
    <2>3. \A i, j \in DOMAIN dir : i < j /\ i # ent[p] /\ j # ent[p] => dir[i].name # dir[j].name
      BY <1>0, <2>1 DEF TwiceWhere
    <2>4. \A i \in DOMAIN dir : dir[i].name # f
      BY <1>5, <2>1
    <2>5. \A i, j \in DOMAIN dir' : dir'[i].name = dir'[j].name => i = j
      <3>1. \A i, j \in DOMAIN dir : i < j \/ i = j \/ j < i
        BY <1>t
      <3> QED
        BY <2>2, <2>3, <2>4, <3>1
    <2>6. ~InHand(p)' /\ DOMAIN dir' \subseteq Nat
      BY <2>1, <2>2, <1>t DEF InHand
    <2>7. OnlyNew(p, f)
      BY <1>5, <2>1, <2>2 DEF OnlyNew
    <2> QED
      BY <1>1, <1>2, <1>3, <2>5, <2>6, <2>7, Rewritten
  <1> QED
    BY <1>8, <1>9, <1>10, <1>11, <1>12

(* Steps that move entries. *)
LEMMA MoveSteps ==
  ASSUME TypeInv, IdInv, SortInv, OnceInv, EntMapped, NEW p \in Procs,
         DelMove(p) \/ DelFault(p) \/ UndelShift(p)
  PROVE  OnceInv'
  <1>0. /\ TypeOK /\ LockHeld /\ InRange /\ IndexedOnce /\ IndexedHasBody /\ HandsOff /\ OneHand
        /\ TwiceWhere /\ SizeCurrent /\ LocatedIsTarget
    BY DEF TypeInv, OnceInv, SortInv, IdInv
  <1>t. /\ DOMAIN pc = Procs /\ DOMAIN tgt = Procs /\ DOMAIN ent = Procs /\ dir \in Seq(Entry)
        /\ Len(dir) \in Nat /\ DOMAIN dir = 1 .. Len(dir)
        /\ size[p] \in Nat
    BY <1>0 DEF TypeOK
  <1> USE DEF At, Goto, LockFree, Keep, Finish, shared, local
  <1>1. body' = body /\ bin' = bin /\ size' = size /\ (lock = p \/ lock = NoProc) /\ ~Moving(p)
    BY <1>0 DEF DelMove, DelFault, UndelShift, LockHeld, Moving
  <1>2. \A q \in Procs : ~Moving(q)
    BY <1>0, <1>1, NoneAssumption DEF LockHeld, Moving
  <1>3. \A i, j \in DOMAIN dir : dir[i].name = dir[j].name => i = j
    BY <1>0, <1>2, AllApart
  <1>4. \A h : (\E i \in DOMAIN dir : dir[i].name = h) => h \in Posts /\ body[h] = "M"
    BY <1>0 DEF IndexedHasBody, Index, Range
  <1>5. \A q \in Procs : InHand(q) =>
          /\ tgt[q].name \in Posts
          /\ pc[q] = "undel_rename" => "undelete" \in Ops[q] /\ bin[q] \in Bins
          /\ body[tgt[q].name] = IF pc[q] = "undel_rename" THEN bin[q] ELSE "M"
          /\ \A i \in DOMAIN dir : dir[i].name # tgt[q].name
    BY <1>0, <1>2 DEF HandsOff, Moving
  <1>6. ASSUME NEW src, DOMAIN dir' = 1 .. Len(dir'), Len(dir') \in Nat,
               \A i \in DOMAIN dir' : src[i] \in DOMAIN dir /\ dir'[i] = dir[src[i]]
        PROVE  /\ IndexedHasBody'
               /\ \A q \in Procs : InHand(q) => \A i \in DOMAIN dir' : dir'[i].name # tgt[q].name
               /\ \A i, j \in DOMAIN dir' : dir'[i].name = dir'[j].name => src[i] = src[j]
    <2>1. IndexedHasBody'
      BY <1>1, <1>4, <1>6 DEF IndexedHasBody, Index, Range
    <2> QED
      BY <2>1, <1>3, <1>5, <1>6
  <1>7. CASE DelMove(p)
    <2> DEFINE e == ent[p]  n == size[p]
    <2>1. /\ pc[p] = "commit" /\ op[p] = "delete" /\ lock = p /\ lock' = lock /\ ent' = ent
          /\ tgt' = [tgt EXCEPT ![p] = dir[e]] /\ dir' = MoveOver(dir, View(n), e)
          /\ pc' = [pc EXCEPT ![p] = "del_cut"]
      BY <1>0, <1>7 DEF DelMove, LockHeld
    <2>2. n <= Len(dir) /\ e \in 1 .. n /\ e \in DOMAIN dir
      BY <1>0, <2>1, <1>t DEF SizeCurrent, Deleting, EntMapped
    <2> HIDE DEF e, n
    <2>n. n \in Nat /\ e \in Nat /\ n <= Len(dir) /\ 1 <= e /\ e <= n
      BY <1>t, <2>2 DEF n
    <2> DEFINE src == [i \in 1 .. Len(dir) |-> IF e <= i /\ i < n THEN i + 1 ELSE i]
    <2>3. /\ DOMAIN dir' = 1 .. Len(dir) /\ Len(dir') = Len(dir)
          /\ \A i \in 1 .. Len(dir) : src[i] \in DOMAIN dir /\ dir'[i] = dir[src[i]]
      <3>1. Len(View(n)) = n /\ \A i \in 1 .. n : View(n)[i] = dir[i]
        BY <2>n, <1>t DEF View
      <3>2. dir' = [i \in 1 .. Len(dir) |-> IF e <= i /\ i < n THEN View(n)[i + 1] ELSE dir[i]]
        BY <2>1, <3>1, <1>t DEF MoveOver
      <3>3. \A i \in 1 .. Len(dir) : e <= i /\ i < n => i + 1 \in 1 .. n /\ i + 1 \in 1 .. Len(dir)
        BY <2>n, <1>t
      <3>4. Len(dir') = Len(dir)
        BY <1>t, <3>2
      <3> QED
        BY <1>t, <3>1, <3>2, <3>3, <3>4
    <2>4. \A i, j \in 1 .. Len(dir) : i < j /\ src[i] = src[j] => j = i + 1 /\ j = n
      BY <2>n, <1>t
    <2>5. \A i \in 1 .. Len(dir) : src[i] = e => i = n
      BY <2>n, <1>t
    <2> HIDE DEF src
    <2>6. /\ IndexedHasBody'
          /\ \A q \in Procs : InHand(q) => \A i \in DOMAIN dir' : dir'[i].name # tgt[q].name
          /\ \A i, j \in DOMAIN dir' : dir'[i].name = dir'[j].name => src[i] = src[j]
      BY <1>6, <1>t, <2>3
    <2>7. pc'[p] = "del_cut" /\ Moving(p)' /\ lock' = p /\ size'[p] = n /\ tgt'[p] = dir[e]
          /\ \A q \in Procs \ {p} : ~Moving(q)' /\ pc'[q] = pc[q] /\ tgt'[q] = tgt[q]
      BY <1>1, <1>2, <1>t, <2>1 DEF Moving, n
    <2>8. IndexedOnce' /\ TwiceWhere'
      <3>1. \A i, j \in DOMAIN dir' : i < j /\ dir'[i].name = dir'[j].name => j = i + 1 /\ j = n
        BY <2>3, <2>4, <2>6
      <3> QED
        BY <2>7, <3>1 DEF IndexedOnce, TwiceWhere, Moving
    <2>9. dir[e].name \in Posts /\ body[dir[e].name] = "M"
          /\ \A q \in Procs : InHand(q) => tgt[q].name # dir[e].name
      BY <1>4, <1>5, <2>2
    <2>10. \A i \in DOMAIN dir' : dir'[i].name = dir[e].name => i = n
      BY <1>3, <2>2, <2>3, <2>5
    <2>11. HandsOff'
      <3> SUFFICES ASSUME NEW q \in Procs, InHand(q)'
                   PROVE  /\ tgt'[q].name \in Posts
                          /\ pc'[q] = "undel_rename" => "undelete" \in Ops[q] /\ bin'[q] \in Bins
                          /\ body'[tgt'[q].name] = IF pc'[q] = "undel_rename" THEN bin'[q] ELSE "M"
                          /\ \A i \in DOMAIN dir' : dir'[i].name = tgt'[q].name =>
                               pc'[q] = "del_cut" /\ i = size'[q]
        BY DEF HandsOff
      <3>1. CASE q = p
        BY <1>1, <2>7, <2>9, <2>10, <3>1
      <3>2. CASE q # p
        <4>1. InHand(q) /\ pc'[q] = pc[q] /\ tgt'[q] = tgt[q]
          BY <2>7, <3>2 DEF InHand
        <4> QED
          BY <1>1, <1>5, <2>6, <4>1
      <3> QED
        BY <3>1, <3>2
    <2>12. OneHand'
      <3>1. \A q \in Procs \ {p} : InHand(q)' => InHand(q) /\ tgt'[q] = tgt[q]
        BY <2>7 DEF InHand
      <3> QED
        BY <1>0, <2>7, <2>9, <3>1 DEF OneHand
    <2> QED
      BY <2>6, <2>8, <2>11, <2>12 DEF OnceInv
  <1>8. CASE DelFault(p)
    BY <1>0, <1>8, <1>t DEF DelFault, CanFault, SizeCurrent, Deleting
  <1>9. CASE UndelShift(p)
    <2>1. PICK low \in Gaps(dir, tgt[p].id) : dir' = MakeRoom(dir, low) /\ ent' = [ent EXCEPT ![p] = low]
      BY <1>9 DEF UndelShift
    <2>2. /\ pc[p] = "undel_insert" /\ dir # <<>> /\ lock' = p /\ tgt' = tgt
          /\ pc' = [pc EXCEPT ![p] = "undel_write"]
      BY <1>9 DEF UndelShift
    <2>n. Len(dir) \in Nat /\ Len(dir) >= 1 /\ low \in Nat /\ 1 <= low /\ low <= Len(dir) + 1
      <3>1. low \in 1 .. Len(dir) + 1
        BY DEF Gaps
      <3> QED
        BY <1>t, <2>2, <3>1
    <2> DEFINE src == [i \in 1 .. Len(dir) + 1 |-> IF i <= low /\ i <= Len(dir) THEN i ELSE i - 1]
    <2>3. /\ DOMAIN dir' = 1 .. Len(dir) + 1 /\ Len(dir') = Len(dir) + 1
          /\ \A i \in 1 .. Len(dir) + 1 : src[i] \in DOMAIN dir /\ dir'[i] = dir[src[i]]
      <3>1. dir' = [i \in 1 .. Len(dir) + 1 |->
                      IF i <= low /\ i <= Len(dir) THEN dir[i] ELSE dir[i - 1]]
        BY <2>1 DEF MakeRoom
      <3>2. Len(dir') = Len(dir) + 1
        BY <1>t, <3>1
      <3>3. \A i \in 1 .. Len(dir) + 1 : ~(i <= low /\ i <= Len(dir)) => i - 1 \in 1 .. Len(dir)
        BY <2>n
      <3> QED
        BY <1>t, <3>1, <3>2, <3>3
    <2>4. \A i, j \in 1 .. Len(dir) + 1 : i < j /\ src[i] = src[j] => j = i + 1 /\ low \in {i, j}
      BY <2>n
    <2> HIDE DEF src
    <2>5. /\ DOMAIN dir' = 1 .. Len(dir') /\ Len(dir') \in Nat
          /\ \A i \in DOMAIN dir' : src[i] \in DOMAIN dir /\ dir'[i] = dir[src[i]]
      <3>1. Len(dir) + 1 \in Nat
        BY <2>n
      <3> QED
        BY <2>3, <3>1
    <2>6. /\ IndexedHasBody'
          /\ \A q \in Procs : InHand(q) => \A i \in DOMAIN dir' : dir'[i].name # tgt[q].name
          /\ \A i, j \in DOMAIN dir' : dir'[i].name = dir'[j].name => src[i] = src[j]
      BY <1>6, <2>5
    <2>7. pc'[p] = "undel_write" /\ Moving(p)' /\ lock' = p /\ ent'[p] = low
          /\ \A q \in Procs \ {p} : ~Moving(q)' /\ pc'[q] = pc[q]
      BY <1>1, <1>2, <1>t, <2>1, <2>2 DEF Moving
    <2>8. IndexedOnce' /\ TwiceWhere'
      <3>1. \A i, j \in DOMAIN dir' : i < j /\ dir'[i].name = dir'[j].name => j = i + 1 /\ low \in {i, j}
        BY <2>3, <2>4, <2>6
      <3> QED
        BY <2>7, <3>1 DEF IndexedOnce, TwiceWhere, Moving
    <2>9. \A q \in Procs : InHand(q)' => InHand(q) /\ tgt'[q] = tgt[q]
                                         /\ (pc'[q] = "undel_rename" <=> pc[q] = "undel_rename")
      BY <2>2, <2>7 DEF InHand
    <2>10. HandsOff'
      BY <1>1, <1>5, <2>6, <2>9 DEF HandsOff
    <2>11. OneHand'
      BY <1>0, <2>9 DEF OneHand
    <2> QED
      BY <2>6, <2>8, <2>10, <2>11 DEF OnceInv
  <1> QED
    BY <1>7, <1>8, <1>9

LEMMA OnceStep ==
  ASSUME ~Crash, OneDeleterOnly, OneRecovererOnly,
         TypeInv, IdInv, SortInv, OnceInv, EntMapped, [Next]_vars
  PROVE  OnceInv' /\ EntMapped'
  <1>0. TypeInv' /\ TypeOK /\ LockHeld
    BY TypeInvStep DEF TypeInv
  <1>1. ASSUME NEW p \in Procs, Post(p) \/ Prepare(p) \/ Delete(p) \/ SetFlag(p) \/ Undelete(p) \/ Die(p)
        PROVE  OnceInv'
    <2>1. \/ \/ PostTakeId(p) \/ DelStart(p) \/ FlagStart(p) \/ MapDir(p) \/ Locate(p)
             \/ LocateFails(p) \/ DelTrash(p) \/ UndelTaken(p) \/ UndelEmpty(p) \/ Die(p)
          \/ PostStart(p) \/ PostFiltered(p) \/ DelRename(p) \/ UndelStart(p) \/ UndelRename(p)
          \/ PostAppend(p) \/ FlagCommit(p) \/ DelCut(p) \/ UndelWrite(p) \/ UndelAppend(p)
          \/ DelMove(p) \/ DelFault(p) \/ UndelShift(p)
      BY <1>1 DEF Post, Prepare, Delete, SetFlag, Undelete
    <2> QED
      BY <2>1, QuietSteps, FileSteps, NameSteps, MoveSteps
  <1>2. ASSUME Reboot PROVE OnceInv'
    <2>1. dir' = dir /\ body' = body /\ MoversStay /\ HandsKept
      BY <1>2 DEF Reboot, Restart, Everywhere, MoversStay, HandsKept, Moving, InHand
    <2> QED
      BY <2>1, Quiet
  <1>3. ASSUME UNCHANGED vars PROVE OnceInv'
    <2>1. dir' = dir /\ body' = body /\ MoversStay /\ HandsKept
      BY <1>3 DEF vars, MoversStay, HandsKept, Moving, InHand
    <2> QED
      BY <2>1, Quiet
  <1>4. ~FlushBcache /\ ~PowerLoss
    BY DEF FlushBcache, PowerLoss
  <1>5. EntMapped'
    <2>1. CASE Next
      BY <2>1, <1>0, EntMappedStep
    <2>2. CASE UNCHANGED vars
      BY <2>2 DEF vars, EntMapped, At
    <2> QED
      BY <2>1, <2>2
  <1> QED
    BY <1>1, <1>2, <1>3, <1>4, <1>5 DEF Next

LEMMA OnceInit == Init => OnceInv /\ EntMapped
  <1> SUFFICES ASSUME Init PROVE OnceInv /\ EntMapped
    OBVIOUS
  <1>0. \A p \in Procs : pc[p] = "idle"
    BY DEF Init, Everywhere
  <1>1. HandsOff /\ OneHand /\ EntMapped
    BY <1>0 DEF HandsOff, OneHand, EntMapped, InHand, At
  <1>2. PICK kept \in SUBSET DOMAIN Old :
          /\ dir \in [1 .. Cardinality(kept) -> {OldEntry(i) : i \in kept}]
          /\ \A i, j \in DOMAIN dir : i < j => dir[i].id < dir[j].id
          /\ \E b \in Bins : body = [f \in Posts |->
                 IF f \notin Range(Old) THEN "none"
                 ELSE IF OldId(f) \in kept THEN "M" ELSE b]
    BY DEF Init
  <1>3. \A i \in DOMAIN Old : i \in Nat /\ Old[i] \in Posts /\ OldId(Old[i]) = i /\ Old[i] \in Range(Old)
    <2>1. \A i \in DOMAIN Old : i \in Nat /\ Old[i] \in Posts /\ Old[i] \in Range(Old)
      BY OldAssumption DEF Range
    <2>2. \A i \in DOMAIN Old : OldId(Old[i]) = i
      BY OldAssumption DEF OldId
    <2> QED
      BY <2>1, <2>2
  <1>4. \A x \in DOMAIN dir : \E i \in kept : dir[x] = OldEntry(i)
    BY <1>2
  <1>5. \A x \in DOMAIN dir : dir[x].name \in Posts /\ body[dir[x].name] = "M"
    BY <1>2, <1>3, <1>4 DEF OldEntry
  <1>6. \A x, y \in DOMAIN dir : x < y => dir[x].name # dir[y].name
    <2> SUFFICES ASSUME NEW x \in DOMAIN dir, NEW y \in DOMAIN dir, x < y, dir[x].name = dir[y].name
                 PROVE FALSE
      OBVIOUS
    <2>1. PICK i \in kept : dir[x] = OldEntry(i)
      BY <1>4
    <2>2. PICK j \in kept : dir[y] = OldEntry(j)
      BY <1>4
    <2>3. i = j
      BY <2>1, <2>2, OldAssumption DEF OldEntry
    <2>4. dir[x].id = dir[y].id /\ dir[x].id \in Nat
      BY <1>3, <2>1, <2>2, <2>3 DEF OldEntry
    <2> QED
      BY <1>2, <2>4
  <1>7. IndexedOnce /\ TwiceWhere /\ IndexedHasBody
    BY <1>5, <1>6 DEF IndexedOnce, TwiceWhere, IndexedHasBody, Index, Range
  <1> QED
    BY <1>1, <1>7 DEF OnceInv

(* Without power loss, and if one process deletes and one recovers, an      *)
(* article has one entry in .DIR at most - but while entries are moved -,   *)
(* and its file is there under the name the entry says: whoever posts,      *)
(* flags, dies or is restarted between the rename of the file and the       *)
(* writing of the entry, and however stale the mapping a deletion uses      *)
(* (after_post, do_del_post, cancelpost, do_undel_post).                    *)
THEOREM IndexedRight ==
  ASSUME ~Crash, OneDeleterOnly, OneRecovererOnly
  PROVE  Spec => [](IndexedOnce /\ IndexedHasBody)
  <1> DEFINE Inv == TypeInv /\ IdInv /\ SortInv /\ OnceInv /\ EntMapped
  <1>1. Init => Inv
    BY TypeInvInit, IdInvInit, SortInvInit, OnceInit
  <1>2. Inv /\ [Next]_vars => Inv'
    BY TypeInvStep, IdInvStep, SortInvStep, OnceStep
  <1>3. Inv => IndexedOnce /\ IndexedHasBody
    BY DEF OnceInv
  <1> QED
    BY <1>1, <1>2, <1>3, PTL DEF Spec

-----------------------------------------------------------------------------
(* The fifth layer: one process posts, deletes and recovers; the others      *)
(* flag.  Then .DIR is what Board says of it.                                *)

OneWriterOnly ==
  \A p, q \in Procs : /\ Ops[p] \cap {"post", "delete", "undelete"} # {}
                      /\ Ops[q] \cap {"post", "delete", "undelete"} # {} => p = q

LEMMA OneOfEach == OneWriterOnly => OneDeleterOnly /\ OneRecovererOnly
  BY DEF OneWriterOnly, OneDeleterOnly, OneRecovererOnly

(* What a step of p leaves to the others. *)
LEMMA StepOf ==
  ASSUME TypeInv, NEW p \in Procs,
         Post(p) \/ Prepare(p) \/ Delete(p) \/ SetFlag(p) \/ Undelete(p) \/ Die(p)
  PROVE  /\ \A q \in Procs \ {p} : /\ pc'[q] = pc[q] /\ op'[q] = op[q]
                                   /\ ent'[q] = ent[q] /\ size'[q] = size[q]
         /\ \/ dir' = dir
            \/ /\ lock \in {NoProc, p}
               /\ \/ PostAppend(p) \/ FlagCommit(p) \/ DelMove(p) \/ DelCut(p) \/ DelFault(p)
                  \/ UndelShift(p) \/ UndelWrite(p) \/ UndelAppend(p)
  <1>0. LockHeld /\ DOMAIN pc = Procs /\ DOMAIN op = Procs /\ DOMAIN ent = Procs /\ DOMAIN size = Procs
    BY DEF TypeInv, TypeOK
  <1> USE DEF At, Goto, LockFree, Keep, Finish, shared, local, Pick
  <1>1. CASE Post(p) \/ Prepare(p)
    <2>1. \/ PostStart(p) \/ PostTakeId(p) \/ PostAppend(p) \/ PostFiltered(p)
          \/ MapDir(p) \/ Locate(p) \/ LocateFails(p)
      BY <1>1 DEF Post, Prepare
    <2>2. \A q \in Procs \ {p} : /\ pc'[q] = pc[q] /\ op'[q] = op[q]
                                 /\ ent'[q] = ent[q] /\ size'[q] = size[q]
      BY <1>0, <2>1 DEF PostStart, PostTakeId, PostAppend, PostFiltered, MapDir, Locate, LocateFails
    <2>3. dir' = dir \/ PostAppend(p)
      BY <2>1 DEF PostStart, PostTakeId, PostFiltered, MapDir, Locate, LocateFails
    <2>4. PostAppend(p) => lock = p
      BY <1>0 DEF PostAppend, LockHeld
    <2> QED
      BY <2>2, <2>3, <2>4
  <1>2. CASE Delete(p) \/ SetFlag(p) \/ Die(p)
    <2>1. \/ DelStart(p) \/ DelMove(p) \/ DelCut(p) \/ DelFault(p) \/ DelRename(p) \/ DelTrash(p)
          \/ FlagStart(p) \/ FlagCommit(p) \/ Die(p)
      BY <1>2 DEF Delete, SetFlag
    <2>2. \A q \in Procs \ {p} : /\ pc'[q] = pc[q] /\ op'[q] = op[q]
                                 /\ ent'[q] = ent[q] /\ size'[q] = size[q]
      BY <1>0, <2>1 DEF DelStart, DelMove, DelCut, DelFault, DelRename, DelTrash, FlagStart, FlagCommit, Die
    <2>3. dir' = dir \/ DelMove(p) \/ DelCut(p) \/ DelFault(p) \/ FlagCommit(p)
      BY <2>1 DEF DelStart, DelRename, DelTrash, FlagStart, Die
    <2>4. DelMove(p) \/ DelCut(p) \/ DelFault(p) \/ FlagCommit(p) => lock = p
      BY <1>0 DEF DelMove, DelCut, DelFault, FlagCommit, LockHeld
    <2> QED
      BY <2>2, <2>3, <2>4
  <1>3. CASE Undelete(p)
    <2>1. \/ UndelStart(p) \/ UndelRename(p) \/ UndelShift(p) \/ UndelWrite(p) \/ UndelTaken(p)
          \/ UndelEmpty(p) \/ UndelAppend(p)
      BY <1>3 DEF Undelete
    <2>2. \A q \in Procs \ {p} : /\ pc'[q] = pc[q] /\ op'[q] = op[q]
                                 /\ ent'[q] = ent[q] /\ size'[q] = size[q]
      BY <1>0, <2>1 DEF UndelStart, UndelRename, UndelShift, UndelWrite, UndelTaken, UndelEmpty, UndelAppend
    <2>3. dir' = dir \/ UndelShift(p) \/ UndelWrite(p) \/ UndelAppend(p)
      BY <2>1 DEF UndelStart, UndelRename, UndelTaken, UndelEmpty
    <2>4. UndelShift(p) \/ UndelWrite(p) \/ UndelAppend(p) => lock \in {NoProc, p}
      BY <1>0 DEF UndelShift, UndelWrite, UndelAppend, LockHeld
    <2> QED
      BY <2>2, <2>3, <2>4
  <1> QED
    BY <1>1, <1>2, <1>3

LEMMA WholeInvStep ==
  ASSUME ~Crash, OneWriterOnly, TypeInv, SortInv, WholeInv, [Next]_vars
  PROVE  WholeInv'
  <1>0. /\ TypeOK /\ LockHeld /\ RoleKept /\ SizeExact /\ RoomMade /\ SizeCurrent
        /\ DOMAIN pc = Procs /\ DOMAIN op = Procs /\ DOMAIN ent = Procs /\ DOMAIN size = Procs
        /\ dir \in Seq(Entry) /\ Len(dir) \in Nat
    BY DEF TypeInv, TypeOK, WholeInv, SortInv
  <1> USE DEF At, Goto, LockFree, Keep, Finish, shared, local, Pick
  <1>1. ASSUME NEW p \in Procs, Post(p) \/ Prepare(p) \/ Delete(p) \/ SetFlag(p) \/ Undelete(p) \/ Die(p)
        PROVE  WholeInv'
    <2>1. /\ \A q \in Procs \ {p} : /\ pc'[q] = pc[q] /\ op'[q] = op[q]
                                    /\ ent'[q] = ent[q] /\ size'[q] = size[q]
          /\ \/ dir' = dir
             \/ /\ lock \in {NoProc, p}
                /\ \/ PostAppend(p) \/ FlagCommit(p) \/ DelMove(p) \/ DelCut(p) \/ DelFault(p)
                   \/ UndelShift(p) \/ UndelWrite(p) \/ UndelAppend(p)
      BY <1>1, StepOf
    <2>2. RoleKept'
      <3>1. pc'[p] \in {"post", "post_append"} => "post" \in Ops[p]
        <4>1. CASE Post(p) \/ Prepare(p)
          BY <1>0, <4>1 DEF Post, PostStart, PostTakeId, PostAppend, PostFiltered, Prepare, MapDir,
             Locate, LocateFails, RoleKept
        <4>2. CASE Delete(p) \/ SetFlag(p) \/ Die(p)
          BY <1>0, <4>2 DEF Delete, DelStart, DelMove, DelCut, DelFault, DelRename, DelTrash,
             SetFlag, FlagStart, FlagCommit, Die
        <4>3. CASE Undelete(p)
          BY <1>0, <4>3 DEF Undelete, UndelStart, UndelRename, UndelShift, UndelWrite,
             UndelTaken, UndelEmpty, UndelAppend
        <4> QED
          BY <1>1, <4>1, <4>2, <4>3
      <3>2. pc'[p] \in {"undel_rename", "undel_insert", "undel_write", "undel_append"}
              => "undelete" \in Ops[p]
        <4>1. CASE Post(p) \/ Prepare(p)
          BY <1>0, <4>1 DEF Post, PostStart, PostTakeId, PostAppend, PostFiltered, Prepare, MapDir,
             Locate, LocateFails
        <4>2. CASE Delete(p) \/ SetFlag(p) \/ Die(p)
          BY <1>0, <4>2 DEF Delete, DelStart, DelMove, DelCut, DelFault, DelRename, DelTrash,
             SetFlag, FlagStart, FlagCommit, Die
        <4>3. CASE Undelete(p)
          BY <1>0, <4>3 DEF Undelete, UndelStart, UndelRename, UndelShift, UndelWrite,
             UndelTaken, UndelEmpty, UndelAppend, RoleKept
        <4> QED
          BY <1>1, <4>1, <4>2, <4>3
      <3> QED
        BY <1>0, <2>1, <3>1, <3>2 DEF RoleKept
    <2>3. Len(dir') = Len(dir) \/ PostAppend(p) \/ DelCut(p) \/ UndelShift(p) \/ UndelAppend(p)
      <3>1. CASE FlagCommit(p) \/ UndelWrite(p)
        BY <1>0, <3>1 DEF FlagCommit, UndelWrite
      <3>2. CASE DelMove(p)
        <4>1. View(size[p]) \in Seq(Entry) /\ ent[p] \in Nat
          BY <1>0, ViewType DEF TypeOK
        <4> QED
          BY <1>0, <3>2, <4>1, MoveOverType DEF DelMove
      <3>3. CASE DelFault(p)
        <4>1. ent[p] \in Nat
          BY <1>0 DEF TypeOK
        <4> QED
          BY <1>0, <3>3, <4>1, MoveOverType DEF DelFault
      <3> QED
        BY <2>1, <3>1, <3>2, <3>3
    <2>4. SizeExact'
      <3> SUFFICES ASSUME NEW q \in Procs, Deleting(q)' PROVE size'[q] = Len(dir')
        BY DEF SizeExact
      <3>1. CASE q # p
        <4>1. Deleting(q) /\ size'[q] = size[q] /\ "delete" \in Ops[q]
          BY <1>0, <2>1, <3>1 DEF Deleting, SizeCurrent
        <4>2. Ops[p] \cap {"post", "delete", "undelete"} = {}
          BY <3>1, <4>1 DEF OneWriterOnly
        <4>3. ~PostAppend(p) /\ ~DelCut(p) /\ ~UndelShift(p) /\ ~UndelAppend(p)
          BY <1>0, <4>2 DEF PostAppend, DelCut, UndelShift, UndelAppend, RoleKept, SizeCurrent
        <4> QED
          BY <1>0, <2>3, <4>1, <4>3 DEF SizeExact
      <3>2. CASE q = p
        <4>1. op'[p] = "delete" /\ pc'[p] \in {"lock", "commit", "del_cut"}
          BY <3>2 DEF Deleting
        <4>2. MapDir(p) \/ Locate(p) \/ DelMove(p)
          <5>1. CASE Post(p) \/ Prepare(p)
            BY <1>0, <4>1, <5>1 DEF Post, PostStart, PostTakeId, PostAppend, PostFiltered, Prepare,
               LocateFails
          <5>2. CASE Delete(p) \/ SetFlag(p) \/ Die(p)
            BY <1>0, <4>1, <5>2 DEF Delete, DelStart, DelCut, DelFault, DelRename, DelTrash,
               SetFlag, FlagStart, FlagCommit, Die
          <5>3. CASE Undelete(p)
            BY <1>0, <4>1, <5>3 DEF Undelete, UndelStart, UndelRename, UndelShift, UndelWrite,
               UndelTaken, UndelEmpty, UndelAppend
          <5> QED
            BY <1>1, <5>1, <5>2, <5>3
        <4>3. CASE MapDir(p)
          BY <1>0, <3>2, <4>1, <4>3 DEF MapDir
        <4>4. CASE Locate(p)
          BY <1>0, <3>2, <4>1, <4>4 DEF Locate, SizeExact, Deleting
        <4>5. CASE DelMove(p)
          <5>1. Deleting(p) /\ size'[p] = size[p]
            BY <4>5 DEF DelMove, Deleting
          <5>2. Len(dir') = Len(dir)
            BY <2>3, <4>5 DEF DelMove, PostAppend, DelCut, UndelShift, UndelAppend
          <5> QED
            BY <1>0, <3>2, <5>1, <5>2 DEF SizeExact
        <4> QED
          BY <4>2, <4>3, <4>4, <4>5
      <3> QED
        BY <3>1, <3>2
    <2>5. RoomMade'
      <3> SUFFICES ASSUME NEW q \in Procs, pc'[q] = "undel_write"
                   PROVE  \E k \in DOMAIN dir' \ {ent'[q]} : dir'[k] = dir'[ent'[q]]
        BY DEF RoomMade
      <3>1. CASE q # p
        <4>1. pc[q] = "undel_write" /\ ent'[q] = ent[q] /\ lock = q
          BY <1>0, <2>1, <3>1 DEF LockHeld
        <4>2. dir' = dir
          BY <2>1, <3>1, <4>1, NoneAssumption
        <4> QED
          BY <1>0, <4>1, <4>2 DEF RoomMade
      <3>2. CASE q = p
        <4>1. UndelShift(p)
          <5>1. CASE Post(p) \/ Prepare(p)
            BY <1>0, <3>2, <5>1 DEF Post, PostStart, PostTakeId, PostAppend, PostFiltered, Prepare,
               MapDir, Locate, LocateFails
          <5>2. CASE Delete(p) \/ SetFlag(p) \/ Die(p)
            BY <1>0, <3>2, <5>2 DEF Delete, DelStart, DelMove, DelCut, DelFault, DelRename, DelTrash,
               SetFlag, FlagStart, FlagCommit, Die
          <5>3. CASE Undelete(p)
            BY <1>0, <3>2, <5>3 DEF Undelete, UndelStart, UndelRename, UndelWrite,
               UndelTaken, UndelEmpty, UndelAppend
          <5> QED
            BY <1>1, <5>1, <5>2, <5>3
        <4>2. PICK low \in Gaps(dir, tgt[p].id) : dir' = MakeRoom(dir, low) /\ ent' = [ent EXCEPT ![p] = low]
          BY <4>1 DEF UndelShift
        <4>3. dir # <<>> /\ low \in 1 .. Len(dir) + 1 /\ Len(dir) >= 1 /\ low \in Nat
          BY <1>0, <4>1 DEF UndelShift, Gaps
        <4>4. DOMAIN dir' = 1 .. Len(dir) + 1
              /\ \A i \in 1 .. Len(dir) + 1 :
                   dir'[i] = IF i <= low /\ i <= Len(dir) THEN dir[i] ELSE dir[i - 1]
          BY <1>0, <4>2 DEF MakeRoom
        <4>5. CASE low <= Len(dir)
          <5>1. low + 1 \in 1 .. Len(dir) + 1 /\ (low + 1) - 1 = low /\ ~(low + 1 <= low)
            BY <1>0, <4>3, <4>5
          <5>2. dir'[low + 1] = dir[(low + 1) - 1] /\ dir'[low] = dir[low]
            BY <1>0, <4>3, <4>4, <4>5, <5>1
          <5>3. low + 1 \in DOMAIN dir' \ {ent'[p]} /\ ent'[p] = low
            BY <1>0, <4>2, <4>3, <4>4, <5>1
          <5> QED
            BY <3>2, <5>1, <5>2, <5>3
        <4>6. CASE low = Len(dir) + 1
          <5>1. Len(dir) \in 1 .. Len(dir) + 1 /\ low - 1 = Len(dir) /\ ~(low <= Len(dir)) /\ Len(dir) <= low
            BY <1>0, <4>3, <4>6
          <5>2. dir'[low] = dir[low - 1] /\ dir'[Len(dir)] = dir[Len(dir)]
            BY <1>0, <4>3, <4>4, <5>1
          <5>3. Len(dir) \in DOMAIN dir' \ {ent'[p]} /\ ent'[p] = low
            BY <1>0, <4>2, <4>3, <4>4, <4>6, <5>1
          <5> QED
            BY <3>2, <5>1, <5>2, <5>3
        <4> QED
          BY <1>0, <4>3, <4>5, <4>6
      <3> QED
        BY <3>1, <3>2
    <2> QED
      BY <2>2, <2>4, <2>5 DEF WholeInv
  <1>2. CASE Reboot
    BY <1>2 DEF Reboot, Restart, Everywhere, WholeInv, RoleKept, SizeExact, RoomMade, Deleting
  <1>3. CASE UNCHANGED vars
    BY <1>0, <1>3 DEF vars, WholeInv, RoleKept, SizeExact, RoomMade, Deleting
  <1>4. ~FlushBcache /\ ~PowerLoss
    BY DEF FlushBcache, PowerLoss
  <1> QED
    BY <1>1, <1>2, <1>3, <1>4 DEF Next

(* The steps of .DIR as steps of the index. *)
LEMMA Added ==
  ASSUME NEW e, e \in Entry, e.name \in Posts, Index' = Index \cup {e},
         \A s \in Index : s.id # e.id /\ s.name # e.name
  PROVE  Promise!Next
  <1>1. e \in Index' \ Index /\ e \in Promise!Entry
    BY DEF Entry, Promise!Entry
  <1> QED
    BY <1>1 DEF Promise!Next, Promise!Add

LEMMA IndexAfter ==
  ASSUME NEW e, NEW S,
         \A i \in DOMAIN dir' : dir'[i] = e \/ dir'[i] \in S,
         \E i \in DOMAIN dir' : dir'[i] = e,
         \A s \in S : \E i \in DOMAIN dir' : dir'[i] = s
  PROVE  Index' = S \cup {e}
  BY DEF Index, Range

LEMMA RefineStep ==
  ASSUME ~Crash, OneWriterOnly, TypeInv, IdInv, SortInv, OnceInv, EntMapped, WholeInv, [Next]_vars
  PROVE  [Promise!Next]_Index
  <1>0. /\ TypeOK /\ LockHeld /\ InRange /\ EntriesNumbered /\ IdsBounded /\ IdNamesOne /\ LocatedIsTarget
        /\ IndexedOnce /\ IndexedHasBody /\ HandsOff /\ TwiceWhere
        /\ SizeExact /\ SizeCurrent /\ RoomMade
        /\ DOMAIN pc = Procs /\ DOMAIN tgt = Procs /\ DOMAIN op = Procs
        /\ dir \in Seq(Entry) /\ Len(dir) \in Nat /\ DOMAIN dir = 1 .. Len(dir) /\ nowid \in Nat
    BY DEF TypeInv, TypeOK, WholeInv, SortInv, IdInv, OnceInv
  <1> USE DEF At, Goto, LockFree, Keep, Finish, shared, local, Pick
  <1>a. /\ \A i \in DOMAIN dir : dir[i] \in Index /\ dir[i] \in Entry
        /\ \A r \in Index : \E i \in DOMAIN dir : dir[i] = r
        /\ \A r \in Index : r \in Known /\ r.id \in Nat /\ r.id <= nowid /\ r.name \in Posts
        /\ \A p \in Procs : tgt[p] \in Known /\ tgt[p] \in Entry /\ tgt[p].id \in Nat
    <2>1. \A r \in Known : r.id \in Nat /\ r.id <= nowid
      BY <1>0, KnownType DEF IdsBounded, Entry
    <2>2. \A r \in Index : r \in Known
      BY DEF Known
    <2>3. \A p \in Procs : tgt[p] \in Known /\ tgt[p] \in Entry
      BY <1>0 DEF Known, InHands, TypeOK
    <2>4. \A r \in Index : r.name \in Posts
      BY <1>0 DEF IndexedHasBody
    <2> QED
      BY <1>0, <2>1, <2>2, <2>3, <2>4 DEF Index, Range
  <1>b. dir' = dir => Index' = Index
    BY DEF Index, Range
  <1>1. ASSUME NEW p \in Procs, Post(p) \/ Prepare(p) \/ Delete(p) \/ SetFlag(p) \/ Undelete(p) \/ Die(p),
               dir' # dir
        PROVE  Promise!Next \/ Index' = Index
    <2>1. /\ lock \in {NoProc, p}
          /\ \/ PostAppend(p) \/ FlagCommit(p) \/ DelMove(p) \/ DelCut(p) \/ DelFault(p)
             \/ UndelShift(p) \/ UndelWrite(p) \/ UndelAppend(p)
      BY <1>1, StepOf
    <2>2. ~Moving(p) => \A i, j \in DOMAIN dir : dir[i].name = dir[j].name => i = j
      <3>1. \A q \in Procs : Moving(q) => lock = q
        BY <1>0 DEF LockHeld, Moving
      <3>2. ~Moving(p) => \A q \in Procs : Moving(q) => lock # q
        BY <2>1, <3>1, NoneAssumption
      <3> QED
        BY <1>0, <3>2, AllApart
    <2>3. InHand(p) => /\ tgt[p].name \in Posts
                       /\ pc[p] # "del_cut" => \A r \in Index : r.name # tgt[p].name
      BY <1>0, <1>a DEF HandsOff
    <2>4. pc[p] \notin {"idle", "post"} => \A r \in Index : r.name # tgt[p].name => r.id # tgt[p].id
      <3> SUFFICES ASSUME pc[p] \notin {"idle", "post"}, NEW r \in Index, r.name # tgt[p].name,
                          r.id = tgt[p].id
                   PROVE FALSE
        OBVIOUS
      <3>1. r.name \in Posts /\ r.name # NoPost /\ Numbered(r)
        BY <1>0, <1>a, NoneAssumption DEF EntriesNumbered
      <3>2. r.id > 0 /\ r \in Known /\ tgt[p] \in Known
        BY <1>a, <3>1 DEF Numbered
      <3> QED
        BY <1>0, <3>2 DEF IdNamesOne
    <2>5. CASE PostAppend(p)
      <3>1. pc[p] = "post_append" /\ InHand(p) /\ dir' = Append(dir, tgt[p])
        BY <2>5 DEF PostAppend, InHand
      <3>2. Index' = Index \cup {tgt[p]}
        <4>1. DOMAIN dir' = 1 .. Len(dir) + 1 /\ dir'[Len(dir) + 1] = tgt[p]
              /\ \A i \in 1 .. Len(dir) : dir'[i] = dir[i]
          BY <1>0, <3>1
        <4>2. \A i \in DOMAIN dir' : dir'[i] = tgt[p] \/ dir'[i] \in Index
          BY <1>0, <1>a, <4>1
        <4>3. \A s \in Index : \E i \in DOMAIN dir' : dir'[i] = s
          BY <1>0, <1>a, <4>1
        <4>4. Len(dir) + 1 \in DOMAIN dir'
          BY <1>0, <4>1
        <4> QED
          BY <4>1, <4>2, <4>3, <4>4, IndexAfter
      <3> QED
        BY <1>a, <2>3, <2>4, <3>1, <3>2, Added
    <2>6. CASE UndelAppend(p)
      <3> DEFINE e == [tgt[p] EXCEPT !.id = nowid + 1]
      <3>1. pc[p] = "undel_append" /\ InHand(p) /\ dir' = Append(dir, e)
        BY <2>6 DEF UndelAppend, InHand
      <3>e. e \in Entry /\ e.name = tgt[p].name /\ e.id = nowid + 1
        <4>1. tgt[p] \in Entry
          BY <1>a
        <4> QED
          BY <1>0, <4>1 DEF Entry
      <3> HIDE DEF e
      <3>2. Index' = Index \cup {e}
        <4>1. DOMAIN dir' = 1 .. Len(dir) + 1 /\ dir'[Len(dir) + 1] = e
              /\ \A i \in 1 .. Len(dir) : dir'[i] = dir[i]
          BY <1>0, <3>1
        <4>2. \A i \in DOMAIN dir' : dir'[i] = e \/ dir'[i] \in Index
          BY <1>0, <1>a, <4>1
        <4>3. \A s \in Index : \E i \in DOMAIN dir' : dir'[i] = s
          BY <1>0, <1>a, <4>1
        <4>4. Len(dir) + 1 \in DOMAIN dir'
          BY <1>0, <4>1
        <4> QED
          BY <4>1, <4>2, <4>3, <4>4, IndexAfter
      <3>3. \A s \in Index : s.id # e.id /\ s.name # e.name
        BY <1>0, <1>a, <2>3, <3>1, <3>e
      <3>4. e.name \in Posts
        BY <2>3, <3>1, <3>e
      <3> QED
        BY <3>e, <3>2, <3>3, <3>4, Added
    <2>7. CASE UndelWrite(p)
      <3>1. pc[p] = "undel_write" /\ InHand(p) /\ dir' = [dir EXCEPT ![ent[p]] = tgt[p]]
            /\ ent[p] \in DOMAIN dir
        BY <1>0, <2>7 DEF UndelWrite, InHand, InRange
      <3>2. PICK k \in DOMAIN dir \ {ent[p]} : dir[k] = dir[ent[p]]
        BY <1>0, <3>1 DEF RoomMade
      <3>3. Index' = Index \cup {tgt[p]}
        <4>1. DOMAIN dir' = DOMAIN dir /\ dir'[ent[p]] = tgt[p]
              /\ \A i \in DOMAIN dir : i # ent[p] => dir'[i] = dir[i]
          BY <3>1
        <4>2. \A i \in DOMAIN dir' : dir'[i] = tgt[p] \/ dir'[i] \in Index
          BY <1>a, <4>1
        <4>3. \A s \in Index : \E i \in DOMAIN dir' : dir'[i] = s
          BY <1>a, <3>2, <4>1
        <4>4. ent[p] \in DOMAIN dir'
          BY <3>1, <4>1
        <4> QED
          BY <4>1, <4>2, <4>3, <4>4, IndexAfter
      <3> QED
        BY <1>a, <2>3, <2>4, <3>1, <3>3, Added
    <2>8. CASE FlagCommit(p)
      <3>1. dir' = [dir EXCEPT ![ent[p]].marked = ~tgt[p].marked] /\ ent[p] \in DOMAIN dir /\ pc[p] = "commit"
        BY <1>0, <2>8 DEF FlagCommit, InRange
      <3> DEFINE old == dir[ent[p]]  new == [old EXCEPT !.marked = ~tgt[p].marked]
      <3>2. old \in Index /\ old \in Entry /\ old.marked \in BOOLEAN /\ tgt[p].marked \in BOOLEAN
        <4>1. old \in Index /\ old \in Entry /\ tgt[p] \in Entry
          BY <1>a, <3>1
        <4> QED
          BY <4>1 DEF Entry
      <3>3. DOMAIN dir' = DOMAIN dir /\ dir'[ent[p]] = new
            /\ \A i \in DOMAIN dir : i # ent[p] => dir'[i] = dir[i] /\ dir[i] # old
        BY <2>2, <3>1 DEF Moving
      <3> HIDE DEF new
      <3>4. Index' = (Index \ {old}) \cup {new}
        <4> HIDE DEF old
        <4>1. \A i \in DOMAIN dir' : dir'[i] = new \/ dir'[i] \in Index \ {old}
          BY <1>a, <3>3
        <4>2. \A s \in Index \ {old} : \E i \in DOMAIN dir : dir[i] = s /\ i # ent[p]
          BY <1>a DEF old
        <4>3. \A s \in Index \ {old} : \E i \in DOMAIN dir' : dir'[i] = s
          BY <3>3, <4>2
        <4>4. \E i \in DOMAIN dir' : dir'[i] = new
          BY <3>1, <3>3
        <4> QED
          BY <4>1, <4>3, <4>4 DEF Index, Range
      <3>5. new = old \/ new = [old EXCEPT !.marked = ~old.marked]
        <4>1. CASE old.marked = ~tgt[p].marked
          BY <3>2, <4>1 DEF new, Entry
        <4>2. CASE old.marked # ~tgt[p].marked
          <5> DEFINE b == ~tgt[p].marked  c == ~old.marked
          <5>1. b = c
            <6>1. CASE tgt[p].marked = TRUE
              <7>1. old.marked = TRUE
                BY <3>2, <4>2, <6>1
              <7> QED
                BY <6>1, <7>1
            <6>2. CASE tgt[p].marked = FALSE
              <7>1. old.marked = FALSE
                BY <3>2, <4>2, <6>2
              <7> QED
                BY <6>2, <7>1
            <6> QED
              BY <3>2, <6>1, <6>2
          <5>2. new = [old EXCEPT !.marked = b]
            BY DEF new
          <5> HIDE DEF b, c
          <5>3. new = [old EXCEPT !.marked = c]
            BY <5>1, <5>2
          <5> QED
            BY <5>3 DEF c
        <4> QED
          BY <4>1, <4>2
      <3> HIDE DEF old
      <3>6. CASE new = old
        BY <3>2, <3>4, <3>6
      <3>7. CASE new = [old EXCEPT !.marked = ~old.marked]
        BY <3>2, <3>4, <3>7 DEF Promise!Next, Promise!Flag
      <3> QED
        BY <3>5, <3>6, <3>7
    <2>9. CASE DelMove(p)
      <3> DEFINE e == ent[p]
      <3>1. pc[p] = "commit" /\ op[p] = "delete" /\ dir' = MoveOver(dir, View(size[p]), e)
            /\ e \in DOMAIN dir /\ ~Moving(p)
        BY <1>0, <2>9 DEF DelMove, InRange, Moving
      <3>2. size[p] = Len(dir)
        BY <1>0, <3>1 DEF SizeExact, Deleting
      <3>3. Len(View(size[p])) = Len(dir) /\ \A i \in 1 .. Len(dir) : View(size[p])[i] = dir[i]
        BY <1>0, <3>2 DEF View
      <3> HIDE DEF e
      <3>4. DOMAIN dir' = 1 .. Len(dir)
            /\ \A i \in 1 .. Len(dir) : dir'[i] = IF e <= i /\ i < Len(dir) THEN dir[i + 1] ELSE dir[i]
        <4>1. dir' = [i \in 1 .. Len(dir) |-> IF e <= i /\ i < Len(dir) THEN View(size[p])[i + 1] ELSE dir[i]]
          BY <1>0, <3>1, <3>3 DEF MoveOver
        <4>2. \A i \in 1 .. Len(dir) : i < Len(dir) => i + 1 \in 1 .. Len(dir)
          BY <1>0
        <4> QED
          BY <3>3, <4>1, <4>2
      <3>5. CASE e = Len(dir)
        <4>1. \A i \in 1 .. Len(dir) : ~(e <= i /\ i < Len(dir))
          BY <1>0, <3>5
        <4>2. DOMAIN dir' = DOMAIN dir /\ \A i \in DOMAIN dir : dir'[i] = dir[i]
          BY <1>0, <3>4, <4>1
        <4> QED
          BY <4>2 DEF Index, Range
      <3>6. CASE e # Len(dir)
        <4>n. Len(dir) \in Nat /\ e \in 1 .. Len(dir) /\ e # Len(dir)
          BY <1>0, <3>1, <3>6
        <4>1. \A i \in 1 .. Len(dir) : \E j \in 1 .. Len(dir) : j # e /\ dir'[i] = dir[j]
          <5> TAKE i \in 1 .. Len(dir)
          <5>1. CASE e <= i /\ i < Len(dir)
            <6>1. i + 1 \in 1 .. Len(dir) /\ i + 1 # e
              BY <4>n, <5>1
            <6> QED
              BY <3>4, <5>1, <6>1
          <5>2. CASE ~(e <= i /\ i < Len(dir))
            <6>1. i # e
              BY <4>n, <5>2
            <6> QED
              BY <3>4, <5>2, <6>1
          <5> QED
            BY <5>1, <5>2
        <4>2. \A j \in 1 .. Len(dir) : j # e => \E i \in 1 .. Len(dir) : dir'[i] = dir[j]
          <5> SUFFICES ASSUME NEW j \in 1 .. Len(dir), j # e
                       PROVE  \E i \in 1 .. Len(dir) : dir'[i] = dir[j]
            OBVIOUS
          <5>1. CASE j < e
            <6>1. ~(e <= j /\ j < Len(dir))
              BY <4>n, <5>1
            <6> QED
              BY <3>4, <6>1
          <5>2. CASE j > e
            <6>1. j - 1 \in 1 .. Len(dir) /\ e <= j - 1 /\ j - 1 < Len(dir) /\ (j - 1) + 1 = j
              BY <4>n, <5>2
            <6>2. dir'[j - 1] = dir[(j - 1) + 1]
              BY <3>4, <6>1
            <6> QED
              BY <6>1, <6>2
          <5> QED
            BY <4>n, <5>1, <5>2
        <4>3. \A j \in DOMAIN dir : j # e => dir[j] # dir[e]
          BY <2>2, <3>1
        <4>4. Index' = Index \ {dir[e]}
          <5>1. \A r : r \in Index' <=> \E i \in 1 .. Len(dir) : dir'[i] = r
            BY <3>4 DEF Index, Range
          <5>2. \A r : r \in Index <=> \E i \in 1 .. Len(dir) : dir[i] = r
            BY <1>0 DEF Index, Range
          <5>3. \A r : r \in Index' => r \in Index /\ r # dir[e]
            <6> SUFFICES ASSUME NEW i \in 1 .. Len(dir)
                         PROVE  dir'[i] \in Index /\ dir'[i] # dir[e]
              BY <5>1
            <6>1. PICK j \in 1 .. Len(dir) : j # e /\ dir'[i] = dir[j]
              BY <4>1
            <6>2. DOMAIN dir = 1 .. Len(dir)
              BY <1>0
            <6> QED
              BY <4>3, <5>2, <6>1, <6>2
          <5>4. \A r : r \in Index /\ r # dir[e] => r \in Index'
            BY <4>2, <5>1, <5>2
          <5> QED
            BY <5>3, <5>4
        <4>5. dir[e] \in Index
          BY <1>a, <3>1
        <4> QED
          BY <4>4, <4>5 DEF Promise!Next, Promise!Remove
      <3> QED
        BY <3>5, <3>6
    <2>10. CASE DelCut(p)
      <3>1. dir' = View(size[p] - 1) /\ pc[p] = "del_cut" /\ size[p] = Len(dir) /\ size[p] > 0
        BY <1>0, <2>10 DEF DelCut, SizeExact, Deleting, SizeCurrent, InRange
      <3>2. DOMAIN dir' = 1 .. Len(dir) - 1
            /\ \A i \in 1 .. Len(dir) - 1 : i \in DOMAIN dir /\ dir'[i] = dir[i]
        BY <1>0, <3>1 DEF View
      <3>3. Len(dir) \in DOMAIN dir /\ dir[Len(dir)] \in Index
        BY <1>0, <1>a, <3>1
      <3>4. \A r : r \in Index' <=> \E i \in 1 .. Len(dir) - 1 : dir[i] = r
        BY <3>2 DEF Index, Range
      <3>5. \A r : r \in Index <=> r = dir[Len(dir)] \/ \E i \in 1 .. Len(dir) - 1 : dir[i] = r
        <4>1. \A i \in DOMAIN dir : i = Len(dir) \/ i \in 1 .. Len(dir) - 1
          BY <1>0
        <4> QED
          BY <3>2, <3>3, <4>1 DEF Index, Range
      <3>6. CASE dir[Len(dir)] \in Index'
        BY <3>4, <3>5, <3>6
      <3>7. CASE dir[Len(dir)] \notin Index'
        <4>1. Index' = Index \ {dir[Len(dir)]}
          BY <3>4, <3>5, <3>7
        <4> QED
          BY <3>3, <4>1 DEF Promise!Next, Promise!Remove
      <3> QED
        BY <3>6, <3>7
    <2>11. CASE DelFault(p)
      BY <1>0, <2>11 DEF DelFault, CanFault, SizeExact, Deleting
    <2>12. CASE UndelShift(p)
      <3>1. PICK low \in Gaps(dir, tgt[p].id) : dir' = MakeRoom(dir, low)
        BY <2>12 DEF UndelShift
      <3>2. dir # <<>> /\ low \in 1 .. Len(dir) + 1 /\ Len(dir) >= 1
        BY <1>0, <2>12 DEF UndelShift, Gaps
      <3>3. DOMAIN dir' = 1 .. Len(dir) + 1
            /\ \A i \in 1 .. Len(dir) + 1 :
                 dir'[i] = IF i <= low /\ i <= Len(dir) THEN dir[i] ELSE dir[i - 1]
        BY <1>0, <3>1 DEF MakeRoom
      <3>4. \A i \in 1 .. Len(dir) + 1 : \E j \in 1 .. Len(dir) : dir'[i] = dir[j]
        <4>1. \A i \in 1 .. Len(dir) + 1 : ~(i <= low /\ i <= Len(dir)) => i - 1 \in 1 .. Len(dir)
          BY <1>0, <3>2
        <4> QED
          BY <3>3, <4>1
      <3>5. \A j \in 1 .. Len(dir) : \E i \in 1 .. Len(dir) + 1 : dir'[i] = dir[j]
        <4> TAKE j \in 1 .. Len(dir)
        <4>1. CASE j <= low
          BY <3>3, <4>1
        <4>2. CASE ~(j <= low)
          <5>1. j + 1 \in 1 .. Len(dir) + 1 /\ ~(j + 1 <= low) /\ (j + 1) - 1 = j
            BY <1>0, <3>2, <4>2
          <5>2. dir'[j + 1] = dir[(j + 1) - 1]
            BY <3>3, <5>1
          <5> QED
            BY <5>1, <5>2
        <4> QED
          BY <4>1, <4>2
      <3>6. Index' = Index
        <4>1. \A r : r \in Index' <=> \E i \in 1 .. Len(dir) + 1 : dir'[i] = r
          BY <3>3 DEF Index, Range
        <4>2. \A r : r \in Index <=> \E i \in 1 .. Len(dir) : dir[i] = r
          BY <1>0 DEF Index, Range
        <4> QED
          BY <3>4, <3>5, <4>1, <4>2
      <3> QED
        BY <3>6
    <2> QED
      BY <2>1, <2>5, <2>6, <2>7, <2>8, <2>9, <2>10, <2>11, <2>12
  <1>2. Reboot \/ FlushBcache \/ PowerLoss \/ UNCHANGED vars => dir' = dir
    BY DEF Reboot, FlushBcache, PowerLoss, Restart, vars
  <1> QED
    BY <1>1, <1>2, <1>b DEF Next

LEMMA RefineInit == Init => Promise!Init
  <1> SUFFICES ASSUME Init PROVE Promise!Init
    OBVIOUS
  <1>1. dir \in Seq(Entry) /\ \A r \in Index : r.name \in Posts
    BY TypeInvInit, OnceInit DEF TypeInv, TypeOK, OnceInv, IndexedHasBody
  <1>2. \A r \in Index : r \in Entry /\ \E i \in DOMAIN dir : dir[i] = r
    BY <1>1 DEF Index, Range
  <1>3. \A i, j \in DOMAIN dir : i < j => dir[i].id < dir[j].id
    BY DEF Init
  <1>4. Index \subseteq Promise!Entry
    BY <1>1, <1>2 DEF Entry, Promise!Entry
  <1>5. ASSUME NEW r \in Index, NEW s \in Index, r.id = s.id PROVE r = s
    <2>1. PICK i \in DOMAIN dir : dir[i] = r
      BY <1>2
    <2>2. PICK j \in DOMAIN dir : dir[j] = s
      BY <1>2
    <2>3. i \in Nat /\ j \in Nat /\ r.id \in Nat
      BY <1>1, <1>2 DEF Entry
    <2>4. i = j
      BY <1>3, <1>5, <2>1, <2>2, <2>3
    <2> QED
      BY <2>1, <2>2, <2>4
  <1> QED
    BY <1>4, <1>5 DEF Promise!Init

LEMMA WholeInvInit == Init => WholeInv
  BY DEF Init, Everywhere, WholeInv, RoleKept, SizeExact, RoomMade, Deleting, At

(* With one process that posts, deletes and recovers, and no power loss,    *)
(* .DIR does what Board promises, for any number of processes that flag and *)
(* whoever dies between two steps: an entry is added under an id and a name *)
(* the index does not have, or one is taken away, or the flag of one is     *)
(* turned, and nothing happens to any other (after_post, do_del_post,       *)
(* do_undel_post, change_post_flag; the moves of entries show nothing).     *)
THEOREM KeepsPromise ==
  ASSUME ~Crash, OneWriterOnly
  PROVE  Spec => OneEntryAtATime
  <1> DEFINE Inv == TypeInv /\ IdInv /\ SortInv /\ OnceInv /\ EntMapped /\ WholeInv
  <1>0. OneDeleterOnly /\ OneRecovererOnly
    BY OneOfEach
  <1>1. Init => Inv /\ Promise!Init
    BY TypeInvInit, IdInvInit, SortInvInit, OnceInit, WholeInvInit, RefineInit
  <1>2. Inv /\ [Next]_vars => Inv'
    BY <1>0, TypeInvStep, IdInvStep, SortInvStep, OnceStep, WholeInvStep
  <1>3. Inv /\ [Next]_vars => [Promise!Next]_Index
    BY RefineStep
  <1> QED
    BY <1>1, <1>2, <1>3, PTL DEF Spec, OneEntryAtATime, Promise!Spec

=============================================================================
