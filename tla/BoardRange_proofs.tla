-------------------------- MODULE BoardRange_proofs --------------------------
(***************************************************************************)
(* Proofs about the range operations, and at the end about the binary      *)
(* search they look up the originals of the digest with (SearchBin).       *)
(*                                                                         *)
(* Three inductive invariants, each on top of CoreInv (who has which lock, *)
(* and where a process is): SafeInv for the articles, if nobody posts      *)
(* beside a manager who takes articles out of .DIR; FlagSafe for the       *)
(* digest flags, if those who put articles into the digest and managers of *)
(* .DIGEST do not meet; SearchInv for the search.  A range only shortens a *)
(* file from the size it saw, so both need Covers: behind that size there  *)
(* is nothing a manager could cut off.                                     *)
(***************************************************************************)
EXTENDS BoardRange, SearchBin, FiniteSetTheorems, WellFoundedInduction, TLAPS

-----------------------------------------------------------------------------
(* Sets of numbers, and sequences of entries.                              *)

LEMMA LeastNat ==
  ASSUME NEW T \in SUBSET Nat, T # {}
  PROVE  \E x \in T : \A y \in T : x <= y
<1> DEFINE R == OpToRel(<, Nat)
<1>1. IsWellFoundedOn(R, Nat)
  BY NatLessThanWellFounded
<1>2. \A x, y \in Nat : <<x, y>> \in R <=> x < y
  BY DEF OpToRel
<1> HIDE DEF R
<1>3. PICK x \in T : \A y \in T : ~ (<<y, x>> \in R)
  BY <1>1, WFMin
<1>4. \A y \in T : ~(y < x)
  BY <1>2, <1>3
<1> QED BY <1>4

Enumerates(q, S) ==
  /\ q \in [1 .. Cardinality(S) -> S] /\ Range(q) = S
  /\ \A i, j \in DOMAIN q : i < j => q[i] < q[j]

LEMMA EnumerationExists ==
  ASSUME NEW n \in Nat, NEW S \in SUBSET (1 .. n)
  PROVE  \E q : Enumerates(q, S)
<1> DEFINE Bad == {k \in Nat : \E T \in SUBSET (1 .. k) : ~ \E q : Enumerates(q, T)}
<1>1. SUFFICES ASSUME Bad # {} PROVE FALSE
  OBVIOUS
<1>2. PICK k \in Bad : \A m \in Bad : k <= m
  BY <1>1, LeastNat
<1>3. PICK T \in SUBSET (1 .. k) : ~ \E q : Enumerates(q, T)
  BY <1>2
<1>4. CASE T = {}
  <2>1. Cardinality(T) = 0
    BY <1>4, FS_EmptySet
  <2>2. Enumerates(<<>>, T)
    BY <1>4, <2>1 DEF Enumerates, Range
  <2> QED BY <1>3, <2>2
<1>5. CASE T # {}
  <2>0. k \in Nat /\ k # 0
    <3>1. k \in Nat
      BY <1>2
    <3>2. CASE k = 0
      <4>1. 1 .. 0 = {}
        OBVIOUS
      <4>2. T \subseteq 1 .. k
        BY <1>3
      <4> QED BY <1>5, <3>2, <4>1, <4>2
    <3> QED BY <3>1, <3>2
  <2>1. k - 1 \in Nat /\ k - 1 \notin Bad
    <3>1. \A m \in Bad : k <= m
      BY <1>2
    <3> HIDE DEF Bad
    <3> QED BY <2>0, <3>1
  <2> DEFINE U == T \ {k}
  <2>2. U \in SUBSET (1 .. k - 1)
    BY <2>0
  <2>3. PICK q : Enumerates(q, U)
    BY <2>1, <2>2
  <2>4. IsFiniteSet(U) /\ Cardinality(U) \in Nat
    <3>1. IsFiniteSet(1 .. k - 1)
      BY <2>0, FS_Interval
    <3>2. IsFiniteSet(U)
      BY <2>2, <3>1, FS_Subset
    <3> QED BY <3>2, FS_CardinalityType
  <2>5. CASE k \notin T
    BY <1>3, <2>3, <2>5
  <2>6. CASE k \in T
    <3>1. T = U \cup {k} /\ k \notin U
      BY <2>6
    <3>2. Cardinality(T) = Cardinality(U) + 1
      BY <2>4, <3>1, FS_AddElement
    <3> DEFINE c == Cardinality(U)
               r == [i \in 1 .. c + 1 |-> IF i <= c THEN q[i] ELSE k]
    <3>3. q \in [1 .. c -> U] /\ Range(q) = U /\ \A i, j \in 1 .. c : i < j => q[i] < q[j]
      BY <2>3 DEF Enumerates
    <3>4. r \in [1 .. Cardinality(T) -> T]
      <4>1. c \in Nat
        BY <2>4
      <4> HIDE DEF c, U
      <4>2. ASSUME NEW i \in 1 .. c + 1 PROVE (IF i <= c THEN q[i] ELSE k) \in T
        <5>1. i <= c => i \in 1 .. c
          BY <4>1
        <5> QED BY <3>1, <3>3, <5>1
      <4>3. Cardinality(T) = c + 1
        BY <3>2 DEF c
      <4> QED BY <4>2, <4>3
    <3>5. Range(r) = T
      <4>1. \A i \in 1 .. c : r[i] = q[i] /\ i \in 1 .. c + 1
        BY <2>4
      <4>2. r[c + 1] = k /\ c + 1 \in 1 .. c + 1
        BY <2>4
      <4>3. \A x \in U : \E i \in 1 .. c : q[i] = x
        BY <3>3 DEF Range
      <4>4. \A x \in T : \E i \in 1 .. c + 1 : r[i] = x
        <5> HIDE DEF r
        <5> QED BY <3>1, <4>1, <4>2, <4>3
      <4>5. DOMAIN r = 1 .. c + 1
        OBVIOUS
      <4> HIDE DEF r
      <4> QED BY <3>2, <3>4, <4>4, <4>5 DEF Range
    <3>6. \A i, j \in DOMAIN r : i < j => r[i] < r[j]
      <4> SUFFICES ASSUME NEW i \in 1 .. c + 1, NEW j \in 1 .. c + 1, i < j
                   PROVE  r[i] < r[j]
        OBVIOUS
      <4>1. i \in 1 .. c /\ r[i] = q[i] /\ q[i] \in 1 .. k - 1
        <5>1. i \in 1 .. c
          BY <2>4
        <5>2. q[i] \in U
          BY <3>3, <5>1
        <5>3. r[i] = q[i]
          BY <2>4, <5>1
        <5>4. q[i] \in 1 .. k - 1
          <6> HIDE DEF U
          <6> QED BY <2>2, <5>2
        <5> QED BY <5>1, <5>3, <5>4
      <4>2. CASE j = c + 1
        BY <2>0, <2>4, <4>1, <4>2
      <4>3. CASE j # c + 1
        <5>1. j \in 1 .. c /\ r[j] = q[j]
          BY <2>4, <4>3
        <5> QED BY <3>3, <4>1, <5>1
      <4> QED BY <4>2, <4>3
    <3>7. Enumerates(r, T)
      <4> HIDE DEF r
      <4> QED BY <3>4, <3>5, <3>6 DEF Enumerates
    <3> QED BY <1>3, <3>7
  <2> QED BY <2>5, <2>6
<1> QED BY <1>4, <1>5

LEMMA Ordered ==
  ASSUME NEW n \in Nat, NEW S \in SUBSET (1 .. n)
  PROVE  /\ InOrder(S) \in Seq(S) /\ Len(InOrder(S)) \in Nat
         /\ DOMAIN InOrder(S) = 1 .. Len(InOrder(S))
         /\ \A i \in DOMAIN InOrder(S) : InOrder(S)[i] \in S
         /\ \A x \in S : \E i \in DOMAIN InOrder(S) : InOrder(S)[i] = x
         /\ \A i, j \in DOMAIN InOrder(S) : i < j => InOrder(S)[i] < InOrder(S)[j]
         /\ \A i \in DOMAIN InOrder(S) : i <= InOrder(S)[i]
<1> DEFINE q == InOrder(S)
<1>1. q = CHOOSE r \in [1 .. Cardinality(S) -> S] :
            Range(r) = S /\ \A i, j \in DOMAIN r : i < j => r[i] < r[j]
  BY DEF InOrder
<1>2. \E r \in [1 .. Cardinality(S) -> S] :
         Range(r) = S /\ \A i, j \in DOMAIN r : i < j => r[i] < r[j]
  BY EnumerationExists DEF Enumerates
<1> HIDE DEF q
<1>3. /\ q \in [1 .. Cardinality(S) -> S] /\ Range(q) = S
      /\ \A i, j \in DOMAIN q : i < j => q[i] < q[j]
  BY <1>1, <1>2
<1>4. Cardinality(S) \in Nat
  <2>1. IsFiniteSet(1 .. n)
    BY FS_Interval
  <2> QED BY <2>1, FS_Subset, FS_CardinalityType
<1>5. q \in Seq(S) /\ Len(q) \in Nat /\ DOMAIN q = 1 .. Len(q)
  BY <1>3, <1>4
<1>6. \A x \in S : \E i \in DOMAIN q : q[i] = x
  BY <1>3 DEF Range
<1>7. \A i \in DOMAIN q : q[i] \in S
  BY <1>3
<1>8. \A i \in DOMAIN q : i <= q[i]
  <2> DEFINE Bad == {i \in DOMAIN q : ~(i <= q[i])}
  <2>1. SUFFICES ASSUME Bad # {} PROVE FALSE
    OBVIOUS
  <2>2. Bad \in SUBSET Nat
    BY <1>5
  <2>3. PICK i \in Bad : \A j \in Bad : i <= j
    BY <2>1, <2>2, LeastNat
  <2>4. i \in 1 .. Len(q) /\ q[i] \in 1 .. n /\ ~(i <= q[i])
    BY <1>5, <1>7, <2>3
  <2>5. i - 1 \in 1 .. Len(q) /\ i - 1 < i
    BY <2>4
  <2>6. i - 1 \notin Bad
    <3> HIDE DEF Bad
    <3> QED BY <2>3, <2>4, <2>5
  <2>7. i - 1 <= q[i - 1] /\ q[i - 1] < q[i] /\ q[i - 1] \in 1 .. n
    BY <1>3, <1>5, <1>7, <2>4, <2>5, <2>6
  <2> QED BY <2>4, <2>7
<1> QED BY <1>3, <1>5, <1>6, <1>7, <1>8 DEF q

-----------------------------------------------------------------------------
(* Types.                                                                  *)

LEMMA EntryFacts ==
  /\ Zero \in Entry /\ Zero.id = 0 /\ ~Zero.marked /\ ~Zero.digest
  /\ \A n \in Nat : New(n) \in Entry /\ New(n).id = n /\ ~New(n).digest
  /\ \A e \in Entry, b \in BOOLEAN :
       /\ [e EXCEPT !.marked = b] \in Entry /\ [e EXCEPT !.marked = b].id = e.id
       /\ [e EXCEPT !.digest = b] \in Entry /\ [e EXCEPT !.digest = b].id = e.id
       /\ [e EXCEPT !.del = b] \in Entry /\ [e EXCEPT !.del = b].id = e.id
       /\ [e EXCEPT !.marked = b].digest = e.digest /\ [e EXCEPT !.del = b].digest = e.digest
       /\ [e EXCEPT !.digest = b].digest = b
       /\ [e EXCEPT !.digest = b].marked = e.marked /\ [e EXCEPT !.del = b].marked = e.marked
  /\ \A e \in Entry : e.id \in Nat /\ e.marked \in BOOLEAN /\ e.digest \in BOOLEAN /\ e.del \in BOOLEAN
BY DEF Zero, New, Entry

LEMMA FunSeq ==
  ASSUME NEW S, NEW n \in Nat, NEW f \in [1 .. n -> S]
  PROVE  f \in Seq(S) /\ Len(f) = n /\ DOMAIN f = 1 .. n
OBVIOUS

LEMMA FreshType == Fresh \in Local
<1>1. <<>> \in Seq(Entry)
  OBVIOUS
<1> QED BY <1>1, EntryFacts DEF Fresh, Local

LEMMA LocalFacts ==
  /\ \A l \in Local :
       /\ l.look \in Seq(Entry) /\ l.from \in Nat /\ l.to \in Nat /\ l.mode \in RangeModes \cup {"none"}
       /\ l.over \in BOOLEAN /\ l.check \in BOOLEAN /\ l.size \in Nat /\ l.sel \in SUBSET (Nat \ {0})
       /\ l.todo \in SUBSET Nat /\ l.ent \in Nat /\ l.tgt \in Entry
  /\ \A l \in Local, n \in Nat : [l EXCEPT !.size = n] \in Local
  /\ \A l \in Local, n \in Nat : [l EXCEPT !.ent = n] \in Local
  /\ \A l \in Local : [l EXCEPT !.check = FALSE] \in Local
  /\ \A l \in Local, T \in SUBSET Nat : [l EXCEPT !.todo = T] \in Local
  /\ \A l \in Local, e \in Entry : [l EXCEPT !.tgt = e] \in Local
BY DEF Local

LEMMA NoJobs ==
  /\ \A p \in Procs : mix \in Mixes => mix.job[p] \in Jobs
  /\ mix \in Mixes => mix \in Mix
BY MixAssumption DEF Mix

LEMMA Viewed ==
  ASSUME file \in [Files -> Seq(Entry)], NEW f \in Files, NEW n \in Int
  PROVE  /\ View(f, n) \in Seq(Entry)
         /\ DOMAIN View(f, n) = 1 .. n
         /\ n \in Nat => Len(View(f, n)) = n
         /\ \A i \in 1 .. n : View(f, n)[i] \in Entry
         /\ \A i \in 1 .. n : i <= Len(file[f]) => View(f, n)[i] = file[f][i]
         /\ \A i \in 1 .. n : i > Len(file[f]) => View(f, n)[i] = Zero
<1>0. file[f] \in Seq(Entry) /\ Len(file[f]) \in Nat /\ DOMAIN file[f] = 1 .. Len(file[f])
  OBVIOUS
<1>1. \A i \in 1 .. n : (IF i <= Len(file[f]) THEN file[f][i] ELSE Zero) \in Entry
  BY <1>0, EntryFacts
<1>2. CASE n \in Nat
  BY <1>0, <1>1, <1>2 DEF View
<1>3. CASE n \notin Nat
  <2>1. 1 .. n = 1 .. 0
    BY <1>3
  <2> QED BY <1>1, <1>3, <2>1 DEF View
<1> QED BY <1>2, <1>3

Types ==
  /\ mix \in Mixes
  /\ pc \in [Procs -> Stages]
  /\ file \in [Files -> Seq(Entry)]
  /\ holder \in [Files -> Procs \cup {Nobody}]
  /\ posted \in Nat
  /\ loc \in [Procs -> Local]

(* What is selected, and what stays.                                       *)
LEMMA RangeFacts ==
  ASSUME Types, NEW m \in Managers
  PROVE  /\ Source(m) \in {"DIR", "DIGEST"} /\ Source(m) \in Files /\ m \in Procs
         /\ InRange(m) \subseteq Nat /\ \A i \in InRange(m) : loc[m].from <= i /\ i <= loc[m].size
         /\ loc[m].from >= 1 => InRange(m) \subseteq 1 .. loc[m].size
         /\ Selected(m) \subseteq InRange(m)
<1>1. m \in Procs /\ Source(m) \in {"DIR", "DIGEST"}
  BY DEF Managers, Source
<1>2. loc[m].from \in Nat /\ loc[m].to \in Nat /\ loc[m].size \in Nat
  BY <1>1, LocalFacts DEF Types
<1> QED BY <1>1, <1>2 DEF Files, InRange, Selected

LEMMA CompactedFacts ==
  ASSUME Types, NEW m \in Managers
  PROVE  LET kept == InOrder((1 .. loc[m].size) \ loc[m].sel)
             new  == Compacted(m)
             view == View(Source(m), loc[m].size)
         IN  /\ new \in Seq(Entry) /\ Len(new) = Len(kept) /\ DOMAIN new = DOMAIN kept
             /\ DOMAIN kept = 1 .. Len(kept) /\ Len(kept) \in Nat
             /\ \A k \in DOMAIN new :
                  /\ kept[k] \in (1 .. loc[m].size) \ loc[m].sel /\ k <= kept[k]
                  /\ new[k].id = view[kept[k]].id /\ new[k].marked = view[kept[k]].marked
                  /\ new[k].digest = view[kept[k]].digest
             /\ \A i, j \in DOMAIN new : i < j => kept[i] < kept[j]
             /\ \A i \in (1 .. loc[m].size) \ loc[m].sel : \E k \in DOMAIN new : kept[k] = i
<1> DEFINE n == loc[m].size
           S == (1 .. n) \ loc[m].sel
           kept == InOrder(S)
           view == View(Source(m), n)
           new == Compacted(m)
<1>0. n \in Nat /\ Source(m) \in Files
  BY RangeFacts, LocalFacts DEF Types
<1>1. S \in SUBSET (1 .. n)
  OBVIOUS
<1>2. /\ kept \in Seq(S) /\ Len(kept) \in Nat
      /\ DOMAIN kept = 1 .. Len(kept)
      /\ \A i \in DOMAIN kept : kept[i] \in S
      /\ \A x \in S : \E i \in DOMAIN kept : kept[i] = x
      /\ \A i, j \in DOMAIN kept : i < j => kept[i] < kept[j]
      /\ \A i \in DOMAIN kept : i <= kept[i]
  BY <1>0, <1>1, Ordered
<1>3. \A i \in 1 .. n : view[i] \in Entry
  BY <1>0, Viewed DEF Types
<1>4. new = [k \in DOMAIN kept |-> IF kept[k] \in InRange(m) THEN [view[kept[k]] EXCEPT !.del = FALSE]
                                   ELSE view[kept[k]]]
  BY DEF Compacted
<1>5. \A k \in DOMAIN kept : kept[k] \in 1 .. n /\ view[kept[k]] \in Entry
  BY <1>1, <1>2, <1>3
<1> HIDE DEF kept, view, new, n
<1>6. \A k \in DOMAIN kept :
        /\ new[k] \in Entry
        /\ new[k].id = view[kept[k]].id /\ new[k].marked = view[kept[k]].marked
        /\ new[k].digest = view[kept[k]].digest
  <2> SUFFICES ASSUME NEW k \in DOMAIN kept
               PROVE  /\ new[k] \in Entry
                      /\ new[k].id = view[kept[k]].id /\ new[k].marked = view[kept[k]].marked
                      /\ new[k].digest = view[kept[k]].digest
    OBVIOUS
  <2>1. new[k] = view[kept[k]] \/ new[k] = [view[kept[k]] EXCEPT !.del = FALSE]
    BY <1>4
  <2>2. view[kept[k]] \in Entry
    BY <1>5
  <2> DEFINE d == [view[kept[k]] EXCEPT !.del = FALSE]
  <2>3. d \in Entry /\ d.id = view[kept[k]].id /\ d.digest = view[kept[k]].digest
        /\ d.marked = view[kept[k]].marked
    BY <2>2, EntryFacts
  <2> HIDE DEF d
  <2>4. new[k] = view[kept[k]] \/ new[k] = d
    BY <2>1 DEF d
  <2> QED BY <2>2, <2>3, <2>4
<1>7. DOMAIN new = 1 .. Len(kept)
  BY <1>2, <1>4
<1>8. new \in Seq(Entry) /\ Len(new) = Len(kept)
  <2>1. new \in [1 .. Len(kept) -> Entry]
    BY <1>2, <1>4, <1>6, <1>7
  <2> QED BY <1>2, <2>1
<1> QED BY <1>2, <1>6, <1>7, <1>8 DEF kept, view, new, n

LEMMA HolderType ==
  ASSUME holder \in [Files -> Procs \cup {Nobody}], NEW p \in Procs
  PROVE  /\ \A f \in Files : Lock(p, f) => holder' \in [Files -> Procs \cup {Nobody}]
         /\ \A f \in Files : LockOrFail(p, f) => holder' \in [Files -> Procs \cup {Nobody}]
         /\ \A fs : Unlock(p, fs) => holder' \in [Files -> Procs \cup {Nobody}]
BY DEF Lock, LockOrFail, Unlock

(* Setting a field of an entry.                                            *)
LEMMA FieldSet ==
  ASSUME file \in [Files -> Seq(Entry)], NEW i \in DOMAIN file["DIR"], NEW e \in Entry,
         e.id = file["DIR"][i].id, file' = [file EXCEPT !["DIR"] = [@ EXCEPT ![i] = e]]
  PROVE  /\ file' \in [Files -> Seq(Entry)]
         /\ Len(file'["DIR"]) = Len(file["DIR"]) /\ DOMAIN file'["DIR"] = DOMAIN file["DIR"]
         /\ file'["DIR"][i] = e
         /\ \A j \in DOMAIN file["DIR"] : j # i => file'["DIR"][j] = file["DIR"][j]
         /\ \A f \in Files : f # "DIR" => file'[f] = file[f]
<1> DEFINE d == file["DIR"]
<1>1. d \in Seq(Entry) /\ Len(d) \in Nat /\ DOMAIN d = 1 .. Len(d)
  BY DEF Files
<1>2. [d EXCEPT ![i] = e] \in Seq(Entry) /\ Len([d EXCEPT ![i] = e]) = Len(d)
      /\ DOMAIN [d EXCEPT ![i] = e] = DOMAIN d
  BY <1>1
<1>3. file'["DIR"] = [d EXCEPT ![i] = e]
  BY DEF Files
<1> QED BY <1>1, <1>2, <1>3 DEF Files

LEMMA TypesStep ==
  ASSUME Types, PlaceInv, [Next]_vars
  PROVE  Types'
<1> USE DEF Types, Goto, Stages, OnSource, Flagging
<1>l. \A p \in Procs : loc[p] \in Local
  OBVIOUS
<1>m. \A m \in Managers : m \in Procs /\ Source(m) \in Files
  BY RangeFacts
<1>e. \A f \in Files : file[f] \in Seq(Entry) /\ Len(file[f]) \in Nat
  OBVIOUS
<1>f. "DIR" \in Files /\ "DIGEST" \in Files /\ "DELETED" \in Files
  BY DEF Files
<1>u. \A m \in Markers : m \in Procs
  BY DEF Markers
<1>1. ASSUME NEW m \in Procs, Choose(m) PROVE Types'
  <2>0. \E a, b \in DOMAIN file[Source(m)], mode \in mix.modes, over \in BOOLEAN :
          /\ a <= b
          /\ loc' = [loc EXCEPT ![m].look = file[Source(m)], ![m].from = a,
                                ![m].to = b, ![m].mode = mode, ![m].over = over]
    BY <1>1, Zenon DEF Choose
  <2>1. PICK a, b \in DOMAIN file[Source(m)], mode \in mix.modes, over \in BOOLEAN :
          /\ a <= b
          /\ loc' = [loc EXCEPT ![m].look = file[Source(m)], ![m].from = a,
                                ![m].to = b, ![m].mode = mode, ![m].over = over]
    BY <2>0, Zenon
  <2>2. mode \in RangeModes
    BY NoJobs DEF Mix
  <2>3. a \in Nat /\ b \in Nat /\ file[Source(m)] \in Seq(Entry)
    BY <1>1, <1>m, <1>e DEF Choose
  <2>4. [loc[m] EXCEPT !.look = file[Source(m)], !.from = a, !.to = b, !.mode = mode, !.over = over] \in Local
    BY <2>2, <2>3, <1>l DEF Local
  <2>5. loc' \in [Procs -> Local]
    BY <2>1, <2>4
  <2> QED BY <1>1, <2>5 DEF Choose
<1>2. ASSUME NEW m \in Procs, Stat(m) PROVE Types'
  <2>1. loc' \in [Procs -> Local]
    BY <1>2, <1>m, <1>e, LocalFacts DEF Stat
  <2> QED BY <1>2, <2>1 DEF Stat
<1>3. ASSUME NEW m \in Procs, Insist(m) PROVE Types'
  <2>1. loc' \in [Procs -> Local]
    BY <1>3, LocalFacts DEF Insist
  <2> QED BY <1>3, <2>1 DEF Insist
<1>4. ASSUME NEW m \in Procs, GiveUp(m) PROVE Types'
  BY <1>4, FreshType DEF GiveUp
<1>5. ASSUME NEW m \in Procs, LockSource(m) PROVE Types'
  <2>1. holder' \in [Files -> Procs \cup {Nobody}]
    BY <1>5, <1>m, HolderType DEF LockSource
  <2>2. loc' \in [Procs -> Local]
    BY <1>5, FreshType DEF LockSource
  <2>3. pc' \in [Procs -> Stages]
    BY <1>5 DEF LockSource
  <2> QED BY <1>5, <2>1, <2>2, <2>3 DEF LockSource
<1>6. ASSUME NEW m \in Procs, LockBin(m) PROVE Types'
  BY <1>6, <1>f, HolderType DEF LockBin
<1>7. ASSUME NEW m \in Procs, TakeOut(m) PROVE Types'
  <2> DEFINE view == View(Source(m), loc[m].size)
             out == InOrder(Selected(m))
  <2>0. m \in Managers /\ loc[m].from >= 1 /\ loc[m].size \in Nat
    BY <1>7, <1>l, LocalFacts DEF TakeOut, PlaceInv, ManagerPlace, MarkerPlace
  <2>1. Selected(m) \in SUBSET (1 .. loc[m].size)
    BY <2>0, RangeFacts
  <2>2. out \in Seq(Selected(m)) /\ \A k \in DOMAIN out : out[k] \in 1 .. loc[m].size
    BY <2>0, <2>1, Ordered
  <2>3. \A i \in 1 .. loc[m].size : view[i] \in Entry
    BY <2>0, <1>m, Viewed
  <2>4. [i \in DOMAIN out |-> view[out[i]]] \in Seq(Entry)
    <3>1. Len(out) \in Nat /\ DOMAIN out = 1 .. Len(out)
      BY <2>0, <2>1, Ordered
    <3> HIDE DEF view, out
    <3>2. [i \in DOMAIN out |-> view[out[i]]] \in [1 .. Len(out) -> Entry]
      BY <2>2, <2>3, <3>1
    <3> QED BY <3>1, <3>2
  <2>5. file' = [file EXCEPT !["DELETED"] = @ \o [i \in DOMAIN out |-> view[out[i]]]] \/ file' = file
    BY <1>7 DEF TakeOut
  <2>6. file' \in [Files -> Seq(Entry)]
    <3> HIDE DEF view, out
    <3>1. file["DELETED"] \o [i \in DOMAIN out |-> view[out[i]]] \in Seq(Entry)
      BY <2>4, <1>e, <1>f
    <3> QED BY <2>5, <3>1
  <2>7. {view[i].id : i \in Selected(m)} \in SUBSET Nat
    <3> HIDE DEF view
    <3> QED BY <2>1, <2>3, EntryFacts
  <2>8. loc' \in [Procs -> Local]
    <3>1. Selected(m) \in SUBSET (Nat \ {0})
      BY <2>0, <2>1
    <3>2. [loc[m] EXCEPT !.sel = Selected(m), !.todo = {view[i].id : i \in Selected(m)}] \in Local
      <4> HIDE DEF view
      <4> QED BY <2>7, <3>1, <1>l DEF Local
    <3>3. loc' = [loc EXCEPT ![m] = [loc[m] EXCEPT !.sel = Selected(m), !.todo = {view[i].id : i \in Selected(m)}]]
      BY <1>7 DEF TakeOut
    <3> QED BY <3>2, <3>3
  <2>9. holder' \in [Files -> Procs \cup {Nobody}]
    BY <1>7, HolderType DEF TakeOut
  <2> QED BY <1>7, <2>6, <2>8, <2>9 DEF TakeOut
<1>8. ASSUME NEW m \in Procs, Original(m) PROVE Types'
  <2>1. loc' \in [Procs -> Local]
    BY <1>8, <1>l, <1>e, <1>f, LocalFacts DEF Original
  <2> QED BY <1>8, <2>1 DEF Original
<1>9. ASSUME NEW m \in Procs, OriginalLock(m) PROVE Types'
  BY <1>9, <1>f, HolderType DEF OriginalLock
<1>10. ASSUME NEW m \in Procs, OriginalFlag(m) PROVE Types'
  <2>1. holder' \in [Files -> Procs \cup {Nobody}]
    BY <1>10, HolderType DEF OriginalFlag
  <2>2. loc' \in [Procs -> Local]
    BY <1>10, <1>l, LocalFacts DEF OriginalFlag
  <2>3. file' \in [Files -> Seq(Entry)]
    <3>1. \/ file' = file
          \/ \E i \in 1 .. loc[m].ent : ~(i > Len(file["DIR"])) /\ file' = [file EXCEPT !["DIR"][i].digest = FALSE]
      <4>1. DOMAIN View("DIR", loc[m].ent) = 1 .. loc[m].ent
        BY <1>l, <1>f, LocalFacts, Viewed
      <4> QED BY <1>10, <4>1 DEF OriginalFlag, Hits
    <3>2. ASSUME NEW i \in 1 .. loc[m].ent, ~(i > Len(file["DIR"])), file' = [file EXCEPT !["DIR"][i].digest = FALSE]
          PROVE  file' \in [Files -> Seq(Entry)]
      <4>1. i \in DOMAIN file["DIR"] /\ file["DIR"][i] \in Entry
        BY <3>2, <1>e, <1>f, <1>l, LocalFacts
      <4>2. file' = [file EXCEPT !["DIR"] = [@ EXCEPT ![i] = [file["DIR"][i] EXCEPT !.digest = FALSE]]]
        BY <3>2
      <4> QED BY <4>1, <4>2, EntryFacts, FieldSet
    <3> QED BY <3>1, <3>2
  <2> QED BY <1>10, <2>1, <2>2, <2>3 DEF OriginalFlag
<1>11. ASSUME NEW m \in Procs, OriginalsDone(m) PROVE Types'
  BY <1>11 DEF OriginalsDone
<1>12. ASSUME NEW m \in Procs, Compact(m) PROVE Types'
  <2>1. Compacted(m) \in Seq(Entry)
    BY <1>12, CompactedFacts DEF Compact
  <2>2. file' \in [Files -> Seq(Entry)]
    BY <1>12, <2>1 DEF Compact
  <2>3. holder' \in [Files -> Procs \cup {Nobody}] /\ loc' \in [Procs -> Local]
    BY <1>12, HolderType, FreshType DEF Compact
  <2> QED BY <1>12, <2>2, <2>3 DEF Compact
<1>13. ASSUME NEW m \in Procs, Tokens(m) PROVE Types'
  <2> DEFINE s == file[Source(m)]
             b(i) == loc[m].mode = "mpdel" /\ ~Undeletable(m, i)
             new == [i \in DOMAIN s |-> IF i \in InRange(m) THEN [s[i] EXCEPT !.del = b(i)] ELSE s[i]]
  <2>1. s \in Seq(Entry) /\ Len(s) \in Nat
    BY <1>13, <1>m, <1>e DEF Tokens
  <2>2. \A i \in DOMAIN s : s[i] \in Entry /\ [s[i] EXCEPT !.del = b(i)] \in Entry
    <3>1. \A i \in DOMAIN s : b(i) \in BOOLEAN
      OBVIOUS
    <3> HIDE DEF s, b
    <3>2. \A i \in DOMAIN s : s[i] \in Entry
      BY <2>1
    <3> QED BY <3>1, <3>2, EntryFacts
  <2>3. new \in Seq(Entry)
    <3> HIDE DEF s, b
    <3>1. DOMAIN s = 1 .. Len(s)
      BY <2>1
    <3>2. new \in [1 .. Len(s) -> Entry]
      BY <2>2, <3>1
    <3> HIDE DEF new
    <3> QED BY <2>1, <3>2, FunSeq
  <2>4. file' = [file EXCEPT ![Source(m)] = new]
    BY <1>13 DEF Tokens
  <2>5. file' \in [Files -> Seq(Entry)]
    <3> HIDE DEF new
    <3> QED BY <2>3, <2>4
  <2>6. holder' \in [Files -> Procs \cup {Nobody}] /\ loc' \in [Procs -> Local]
    BY <1>13, HolderType, FreshType DEF Tokens
  <2> QED BY <1>13, <2>5, <2>6 DEF Tokens
<1>14. ASSUME NEW m \in Procs, Fault(m) PROVE Types'
  BY <1>14, HolderType, FreshType DEF Fault
<1>15. ASSUME NEW u \in Procs, Toggle(u) PROVE Types'
  <2>1. PICK e \in Range(file["DIR"]) : loc' = [loc EXCEPT ![u].tgt = e]
    BY <1>15 DEF Toggle
  <2>2. e \in Entry
    BY <1>e, <1>f DEF Range
  <2>3. loc' \in [Procs -> Local]
    BY <2>1, <2>2, LocalFacts
  <2> QED BY <1>15, <2>3 DEF Toggle
<1>16. ASSUME NEW u \in Procs, FlagMap(u) PROVE Types'
  <2>1. loc' \in [Procs -> Local]
    BY <1>16, <1>e, <1>f, LocalFacts DEF FlagMap
  <2> QED BY <1>16, <2>1 DEF FlagMap
<1>17. ASSUME NEW u \in Procs, FlagLock(u) PROVE Types'
  BY <1>17, <1>f, HolderType DEF FlagLock
<1>18. ASSUME NEW u \in Procs, FlagFind(u) PROVE Types'
  <2>1. loc' \in [Procs -> Local]
    <3>1. \/ \E i \in DOMAIN file["DIR"] : loc' = [loc EXCEPT ![u].ent = i]
          \/ loc' = [loc EXCEPT ![u] = Fresh]
      BY <1>18 DEF FlagFind
    <3>2. DOMAIN file["DIR"] \subseteq Nat
      BY <1>e, <1>f
    <3>3. ASSUME NEW i \in DOMAIN file["DIR"], loc' = [loc EXCEPT ![u].ent = i]
          PROVE  loc' \in [Procs -> Local]
      BY <3>2, <3>3, LocalFacts
    <3>4. ASSUME loc' = [loc EXCEPT ![u] = Fresh] PROVE loc' \in [Procs -> Local]
      BY <3>4, FreshType
    <3> QED BY <3>1, <3>3, <3>4
  <2>2. holder' \in [Files -> Procs \cup {Nobody}]
    BY <1>18, HolderType DEF FlagFind
  <2>3. pc' \in [Procs -> Stages]
    BY <1>18 DEF FlagFind
  <2> QED BY <1>18, <2>1, <2>2, <2>3 DEF FlagFind
<1>19. ASSUME NEW u \in Procs, NEW b \in BOOLEAN,
              u \in Markers, pc[u] \in Flagging \ {"flag_find"},
              SetFlag(u, "marked", b) \/ SetFlag(u, "digest", b)
       PROVE  file' \in [Files -> Seq(Entry)]
  <2> DEFINE i == loc[u].ent  d == file["DIR"]
  <2>1. i \in DOMAIN d /\ d[i] \in Entry
    BY <1>19, <1>e, <1>f DEF PlaceInv, ManagerPlace, MarkerPlace
  <2>2. \/ file' = [file EXCEPT !["DIR"] = [@ EXCEPT ![i] = [d[i] EXCEPT !.marked = b]]]
        \/ file' = [file EXCEPT !["DIR"] = [@ EXCEPT ![i] = [d[i] EXCEPT !.digest = b]]]
    BY <1>19 DEF SetFlag
  <2>3. ASSUME NEW e \in Entry, e.id = d[i].id, file' = [file EXCEPT !["DIR"] = [@ EXCEPT ![i] = e]]
        PROVE  file' \in [Files -> Seq(Entry)]
    BY <2>1, <2>3, FieldSet
  <2> DEFINE x == [d[i] EXCEPT !.marked = b]  y == [d[i] EXCEPT !.digest = b]
  <2>4. x \in Entry /\ x.id = d[i].id /\ y \in Entry /\ y.id = d[i].id
    <3> DEFINE v == d[i]
    <3>1. v \in Entry
      BY <2>1
    <3> HIDE DEF v
    <3>2. /\ [v EXCEPT !.marked = b] \in Entry /\ [v EXCEPT !.marked = b].id = v.id
          /\ [v EXCEPT !.digest = b] \in Entry /\ [v EXCEPT !.digest = b].id = v.id
      BY <3>1 DEF Entry
    <3> QED BY <3>2 DEF v
  <2> HIDE DEF x, y
  <2>5. \/ file' = [file EXCEPT !["DIR"] = [@ EXCEPT ![i] = x]]
        \/ file' = [file EXCEPT !["DIR"] = [@ EXCEPT ![i] = y]]
    BY <2>2 DEF x, y
  <2> QED BY <2>3, <2>4, <2>5
<1>20. ASSUME NEW u \in Procs, FlagMark(u) PROVE Types'
  <2>1. loc[u].tgt.marked \in BOOLEAN
    BY LocalFacts, EntryFacts
  <2>2. file' \in [Files -> Seq(Entry)]
    BY <1>20, <1>19, <2>1 DEF FlagMark, Flagging
  <2> QED BY <1>20, <2>2, HolderType, FreshType DEF FlagMark, Finish
<1>21. ASSUME NEW u \in Procs, DigestLock(u) PROVE Types'
  BY <1>21, <1>f, HolderType DEF DigestLock
<1>22. ASSUME NEW u \in Procs, DigestAdd(u) PROVE Types'
  <2>1. file["DIR"][loc[u].ent] \in Entry
    BY <1>22, <1>e, <1>f DEF DigestAdd, PlaceInv, ManagerPlace, MarkerPlace, Flagging
  <2>2. New(file["DIR"][loc[u].ent].id) \in Entry
    BY <2>1, EntryFacts
  <2>3. file' \in [Files -> Seq(Entry)]
    BY <1>22, <1>e, <1>f, <2>2 DEF DigestAdd
  <2> QED BY <1>22, <2>3, HolderType DEF DigestAdd
<1>23. ASSUME NEW u \in Procs, DigestFlag(u) PROVE Types'
  <2>1. file' \in [Files -> Seq(Entry)]
    BY <1>23, <1>19 DEF DigestFlag, Flagging
  <2> QED BY <1>23, <2>1, HolderType, FreshType DEF DigestFlag, Finish
<1>24. ASSUME NEW u \in Procs, DigestClear(u) PROVE Types'
  <2>1. file' \in [Files -> Seq(Entry)]
    BY <1>24, <1>19 DEF DigestClear, Flagging
  <2> QED BY <1>24, <2>1 DEF DigestClear
<1>25. ASSUME NEW u \in Procs, DigestMap(u) PROVE Types'
  <2>1. loc' \in [Procs -> Local]
    <3>1. loc' = [loc EXCEPT ![u].size = Len(file["DIGEST"])] \/ loc' = [loc EXCEPT ![u] = Fresh]
      BY <1>25 DEF DigestMap, Finish
    <3>2. Len(file["DIGEST"]) \in Nat
      BY <1>e, <1>f
    <3>3. CASE loc' = [loc EXCEPT ![u].size = Len(file["DIGEST"])]
      BY <3>2, <3>3, LocalFacts
    <3>4. CASE loc' = [loc EXCEPT ![u] = Fresh]
      BY <3>4, FreshType
    <3> QED BY <3>1, <3>3, <3>4
  <2>2. holder' \in [Files -> Procs \cup {Nobody}]
    BY <1>25, HolderType DEF DigestMap, Finish
  <2> QED BY <1>25, <2>1, <2>2 DEF DigestMap, Finish
<1>26. ASSUME NEW u \in Procs, DigestShift(u) PROVE Types'
  <2> DEFINE view == View("DIGEST", loc[u].size)
             g == file["DIGEST"]
  <2>0. loc[u].size \in Nat /\ g \in Seq(Entry) /\ Len(g) \in Nat
    BY <1>l, <1>e, <1>f, LocalFacts
  <2>1. view \in Seq(Entry) /\ Len(view) = loc[u].size
    BY <2>0, <1>f, Viewed
  <2>2. \A e \in 1 .. loc[u].size : MoveOver(g, view, e) \in Seq(Entry)
    <3> HIDE DEF view, g
    <3>1. SUFFICES ASSUME NEW e \in 1 .. loc[u].size PROVE MoveOver(g, view, e) \in Seq(Entry)
      OBVIOUS
    <3>2. \A i \in DOMAIN g : (IF e <= i /\ i < Len(view) THEN view[i + 1] ELSE g[i]) \in Entry
      BY <2>0, <2>1
    <3> QED BY <2>0, <3>2 DEF MoveOver
  <2>3. \/ file' = file
        \/ \E e \in 1 .. loc[u].size : file' = [file EXCEPT !["DIGEST"] = MoveOver(g, view, e)]
    <3> DEFINE hits == {i \in 1 .. loc[u].size : view[i].id = loc[u].tgt.id}
    <3>1. CASE hits = {}
      BY <1>26, <3>1 DEF DigestShift
    <3>2. CASE hits # {}
      <4>1. file' = [file EXCEPT !["DIGEST"] = MoveOver(@, view, CHOOSE i \in hits : \A j \in hits : i <= j)]
        BY <1>26, <3>2 DEF DigestShift
      <4>2. hits \in SUBSET Nat
        BY <2>0
      <4>3. (CHOOSE i \in hits : \A j \in hits : i <= j) \in hits
        <5> HIDE DEF hits
        <5> QED BY <3>2, <4>2, LeastNat
      <4> QED BY <4>1, <4>3
    <3> QED BY <3>1, <3>2
  <2>4. file' \in [Files -> Seq(Entry)]
    <3> HIDE DEF view, g
    <3> QED BY <2>2, <2>3
  <2>5. holder' \in [Files -> Procs \cup {Nobody}] /\ loc' \in [Procs -> Local] /\ pc' \in [Procs -> Stages]
    BY <1>26, HolderType, FreshType DEF DigestShift, Finish
  <2> QED BY <1>26, <2>4, <2>5 DEF DigestShift
<1>27. ASSUME NEW u \in Procs, DigestCut(u) PROVE Types'
  <2>1. loc[u].size - 1 \in Int
    BY <1>l, LocalFacts
  <2>2. View("DIGEST", loc[u].size - 1) \in Seq(Entry)
    BY <2>1, <1>f, Viewed
  <2>3. file' \in [Files -> Seq(Entry)]
    BY <1>27, <2>2 DEF DigestCut
  <2> QED BY <1>27, <2>3, HolderType, FreshType DEF DigestCut, Finish
<1>28. ASSUME NEW q \in Procs, Post(q) PROVE Types'
  <2>1. New(posted + 1) \in Entry
    BY EntryFacts
  <2>2. file' \in [Files -> Seq(Entry)]
    BY <1>28, <1>e, <1>f, <2>1 DEF Post
  <2> QED BY <1>28, <2>2 DEF Post
<1>29. CASE UNCHANGED vars
  BY <1>29 DEF vars
<1> QED BY <1>1, <1>2, <1>3, <1>4, <1>5, <1>6, <1>7, <1>8, <1>9, <1>10, <1>11, <1>12, <1>13, <1>14,
           <1>15, <1>16, <1>17, <1>18, <1>20, <1>21, <1>22, <1>23, <1>24, <1>25, <1>26, <1>27, <1>28, <1>29
     DEF Next, Range_, SetsFlag

-----------------------------------------------------------------------------
(* The locks.                                                              *)

(* Only p does something: the others are where they were, with the locks   *)
(* they had.                                                               *)
Only(p) ==
  /\ mix' = mix
  /\ \A q \in Procs \ {p} : pc'[q] = pc[q] /\ loc'[q] = loc[q]
  /\ \A q \in Procs \ {p}, f \in Files : holder'[f] = q <=> holder[f] = q

LEMMA Same ==
  ASSUME mix' = mix
  PROVE  /\ Managers' = Managers /\ Markers' = Markers /\ Posters' = Posters
         /\ \A m \in Procs : Source(m)' = Source(m) /\ Flag(m)' = Flag(m)
BY DEF Managers, Markers, Posters, Source, Flag

LEMMA Jobs3 ==
  /\ Managers \cap Markers = {} /\ Managers \cap Posters = {} /\ Markers \cap Posters = {}
  /\ Managers \subseteq Procs /\ Markers \subseteq Procs /\ Posters \subseteq Procs
BY DEF Managers, Markers, Posters

LEMMA LockMoves ==
  ASSUME Types, NEW p \in Procs
  PROVE  /\ \A f \in Files : holder[f] = Nobody /\ Lock(p, f) =>
              /\ holder'[f] = p /\ \A g \in Files : g # f => holder'[g] = holder[g]
              /\ \A q \in Procs \ {p}, g \in Files : holder'[g] = q <=> holder[g] = q
         /\ \A f \in Files : LockOrFail(p, f) =>
              /\ holder'[f] = p \/ (Deadlocked(p, f) /\ holder' = holder)
              /\ \A g \in Files : g # f => holder'[g] = holder[g]
              /\ \A q \in Procs \ {p}, g \in Files : holder'[g] = q <=> holder[g] = q
         /\ \A fs : Unlock(p, fs) =>
              /\ \A g \in Files : holder'[g] = p <=> holder[g] = p /\ g \notin fs
              /\ \A q \in Procs \ {p}, g \in Files : holder'[g] = q <=> holder[g] = q
              /\ \A g \in Files : holder'[g] = Nobody <=> holder[g] = Nobody \/ (holder[g] = p /\ g \in fs)
BY NobodyAssumption DEF Types, Lock, LockOrFail, Unlock

LEMMA LockFrame ==
  ASSUME Types, LockInv, NEW p \in Procs, Only(p),
         \A f \in Files : holder'[f] = p => MayHold(p, f)',
         p \in Managers /\ pc'[p] \in OnSource => holder'[Source(p)] = p,
         p \in Managers /\ pc'[p] = "take_out" /\ HasBin(p)' => holder'["DELETED"] = p,
         p \in Markers /\ pc'[p] \in Flagging => holder'["DIR"] = p
  PROVE  LockInv'
<1>1. /\ Managers' = Managers /\ Markers' = Markers
      /\ \A m \in Procs : Source(m)' = Source(m) /\ Flag(m)' = Flag(m)
  BY Same DEF Only
<1>2. \A q \in Procs \ {p} : HasBin(q)' <=> HasBin(q)
  BY <1>1 DEF Only, HasBin, TakesOut
<1>3. \A f \in Files, q \in Procs \ {p} : MayHold(q, f)' <=> MayHold(q, f)
  BY <1>1, <1>2 DEF Only, MayHold
<1>4. \A f \in Files, q \in Procs : holder'[f] = q => MayHold(q, f)'
  BY <1>3 DEF Only, LockInv
<1>5. "DIR" \in Files /\ "DELETED" \in Files /\ \A m \in Managers : m \in Procs /\ Source(m) \in Files
  BY RangeFacts DEF Files
<1>6. ASSUME NEW m \in Managers, pc'[m] \in OnSource PROVE holder'[Source(m)] = m
  BY <1>5, <1>6 DEF Only, LockInv
<1>7. ASSUME NEW u \in Markers, pc'[u] \in Flagging PROVE holder'["DIR"] = u
  BY <1>5, <1>7, Jobs3 DEF Only, LockInv
<1>8. ASSUME NEW m \in Managers, pc'[m] = "take_out", HasBin(m)' PROVE holder'["DELETED"] = m
  BY <1>5, <1>8, <1>2 DEF Only, LockInv
<1> HIDE DEF Only, MayHold, HasBin
<1>9. (\A m \in Managers : pc[m] \in OnSource => holder[Source(m)] = m)'
  <2>1. \A m \in Managers' : pc'[m] \in OnSource => holder'[Source(m)'] = m
    BY <1>1, <1>5, <1>6
  <2> QED BY <2>1
<1>10. (\A u \in Markers : pc[u] \in Flagging => holder["DIR"] = u)'
  BY <1>1, <1>7
<1>11. (\A m \in Managers : pc[m] = "take_out" /\ HasBin(m) => holder["DELETED"] = m)'
  BY <1>1, <1>8
<1>12. (\A f \in Files, q \in Procs : holder[f] = q => MayHold(q, f))'
  BY <1>4
<1> QED BY <1>9, <1>10, <1>11, <1>12 DEF LockInv

(* Who has no lock, and where.                                             *)
LEMMA Unheld ==
  ASSUME Types, LockInv, NEW p \in Procs, pc[p] \notin OnSource, pc[p] \notin Flagging
  PROVE  \A f \in Files : holder[f] # p
BY DEF LockInv, MayHold, OnSource, Flagging

LEMMA LockStep ==
  ASSUME Types, LockInv, PlaceInv, [Next]_vars
  PROVE  LockInv'
<1> USE DEF Goto
<1>t. Types'
  BY TypesStep
<1>p. \A p, q \in Procs : /\ \A s : Goto(p, s) => pc'[p] = s /\ (q # p => pc'[q] = pc[q])
  BY DEF Types
<1>s. \A m \in Managers : Source(m) \in {"DIR", "DIGEST"} /\ m \in Procs /\ m \notin Markers
  BY RangeFacts, Jobs3
<1>f. "DIR" \in Files /\ "DIGEST" \in Files /\ "DELETED" \in Files
  BY DEF Files
<1>u. \A u \in Markers : u \in Procs /\ u \notin Managers
  BY Jobs3
(* Steps that leave the locks alone. *)
<1>k. ASSUME NEW p \in Procs, mix' = mix, UNCHANGED holder, NEW s, Goto(p, s),
             \A q \in Procs \ {p} : loc'[q] = loc[q]
      PROVE  Only(p)
  BY <1>k, <1>p DEF Only
<1>l. ASSUME NEW p \in Procs, Only(p), \A f \in Files : holder'[f] # p,
             pc'[p] \notin OnSource, pc'[p] \notin Flagging
      PROVE  LockInv'
  BY <1>l, LockFrame DEF OnSource
<1>1. ASSUME NEW m \in Procs, Choose(m) PROVE LockInv'
  <2>1. Only(m) /\ pc'[m] = "stat"
    BY <1>1, <1>k, <1>p DEF Choose, Types
  <2>2. \A f \in Files : holder'[f] # m
    BY <1>1, Unheld DEF Choose, OnSource, Flagging
  <2> QED BY <2>1, <2>2, <1>l DEF OnSource, Flagging
<1>2. ASSUME NEW m \in Procs, Stat(m) PROVE LockInv'
  <2>1. Only(m) /\ pc'[m] \in {"lock", "refused"}
    BY <1>2, <1>k, <1>p DEF Stat, Types
  <2>2. \A f \in Files : holder'[f] # m
    BY <1>2, Unheld DEF Stat, OnSource, Flagging
  <2> QED BY <2>1, <2>2, <1>l DEF OnSource, Flagging
<1>3. ASSUME NEW m \in Procs, Insist(m) \/ GiveUp(m) PROVE LockInv'
  <2>1. Only(m) /\ pc'[m] \in {"stat", "done"}
    BY <1>3, <1>k, <1>p DEF Insist, GiveUp, Types
  <2>2. \A f \in Files : holder'[f] # m
    BY <1>3, Unheld DEF Insist, GiveUp, OnSource, Flagging
  <2> QED BY <2>1, <2>2, <1>l DEF OnSource, Flagging
<1>5. ASSUME NEW m \in Procs, LockSource(m) PROVE LockInv'
  <2>0. \A f \in Files : holder[f] # m
    BY <1>5, Unheld DEF LockSource, OnSource, Flagging
  <2>1. CASE InRange(m) = {}
    <3>1. Only(m) /\ pc'[m] = "done" /\ holder' = holder
      BY <1>5, <2>1, <1>k, <1>p DEF LockSource, Types
    <3> QED BY <2>0, <3>1, <1>l DEF OnSource, Flagging
  <2>2. CASE InRange(m) # {}
    <3> DEFINE there == IF HasBin(m) THEN "lock_bin" ELSE IF TakesOut(m) THEN "take_out" ELSE "tokens"
    <3>1. m \in Managers /\ Lock(m, Source(m)) /\ loc' = loc /\ Goto(m, there) /\ mix' = mix
          /\ holder[Source(m)] = Nobody
      BY <1>5, <2>2 DEF LockSource
    <3>2. pc'[m] = there /\ \A q \in Procs \ {m} : pc'[q] = pc[q]
      BY <3>1, <1>p
    <3>3. /\ holder'[Source(m)] = m /\ \A g \in Files : g # Source(m) => holder'[g] = holder[g]
          /\ \A q \in Procs \ {m}, g \in Files : holder'[g] = q <=> holder[g] = q
      BY <3>1, <1>s, <1>f, LockMoves
    <3>4. Only(m)
      BY <3>1, <3>2, <3>3 DEF Only
    <3>5. \A f \in Files : holder'[f] = m => f = Source(m)
      BY <2>0, <3>3
    <3>6. (HasBin(m)' <=> HasBin(m)) /\ (TakesOut(m)' <=> TakesOut(m)) /\ Source(m)' = Source(m) /\ Managers' = Managers
      BY <3>1, Same DEF HasBin, TakesOut
    <3>7. there \in OnSource /\ (there = "take_out" => ~HasBin(m))
      BY DEF OnSource
    <3>8. \A f \in Files : holder'[f] = m => MayHold(m, f)'
      BY <3>1, <3>2, <3>5, <3>6, <3>7 DEF MayHold
    <3> QED BY <3>1, <3>2, <3>3, <3>4, <3>6, <3>7, <3>8, <1>s, LockFrame
  <2> QED BY <2>1, <2>2
<1>6. ASSUME NEW m \in Procs, LockBin(m) PROVE LockInv'
  <2>1. m \in Managers /\ Lock(m, "DELETED") /\ holder["DELETED"] = Nobody /\ loc' = loc /\ mix' = mix
        /\ pc[m] = "lock_bin" /\ Source(m) = "DIR" /\ TakesOut(m)
    BY <1>6 DEF LockBin, PlaceInv, ManagerPlace, MarkerPlace
  <2>2. pc'[m] = "take_out" /\ \A q \in Procs \ {m} : pc'[q] = pc[q]
    BY <1>6, <1>p DEF LockBin
  <2>3. /\ holder'["DELETED"] = m /\ \A g \in Files : g # "DELETED" => holder'[g] = holder[g]
        /\ \A q \in Procs \ {m}, g \in Files : holder'[g] = q <=> holder[g] = q
    BY <2>1, <1>f, LockMoves
  <2>4. Only(m)
    BY <2>1, <2>2, <2>3 DEF Only
  <2>5. HasBin(m) /\ HasBin(m)' /\ Source(m)' = Source(m) /\ Managers' = Managers
    BY <2>1, Same DEF HasBin, TakesOut
  <2>6. holder'["DIR"] = m /\ \A f \in Files : holder'[f] = m => f \in {"DIR", "DELETED"}
    BY <2>1, <2>3, <1>f, <1>s DEF LockInv, MayHold, OnSource
  <2>7. \A f \in Files : holder'[f] = m => MayHold(m, f)'
    BY <2>1, <2>2, <2>5, <2>6 DEF MayHold, OnSource
  <2> QED BY <2>1, <2>2, <2>3, <2>4, <2>5, <2>6, <2>7, <1>s, LockFrame
(* A manager goes on, perhaps letting go of other files than his own. *)
<1>r. ASSUME NEW m \in Managers, Only(m), pc[m] \in OnSource, pc'[m] \in OnSource,
             holder'[Source(m)] = m,
             \A f \in Files : holder'[f] = m /\ f # Source(m) =>
               f = "DIR" /\ Source(m) = "DIGEST" /\ pc'[m] = "orig_flag",
             pc'[m] # "take_out"
      PROVE  LockInv'
  <2>1. Source(m)' = Source(m) /\ Managers' = Managers
    BY <1>r, <1>s, Same DEF Only
  <2>2. \A f \in Files : holder'[f] = m => MayHold(m, f)'
    BY <1>r, <2>1 DEF MayHold
  <2> QED BY <1>r, <2>1, <2>2, <1>s, LockFrame
(* What a manager may hold. *)
<1>h. ASSUME NEW m \in Managers, pc[m] \in OnSource
      PROVE  /\ holder[Source(m)] = m
             /\ \A f \in Files : holder[f] = m /\ f # Source(m) =>
                  \/ f = "DELETED" /\ pc[m] = "take_out"
                  \/ f = "DIR" /\ Source(m) = "DIGEST" /\ pc[m] = "orig_flag"
  BY <1>h, <1>s DEF LockInv, MayHold
<1>7. ASSUME NEW m \in Procs, TakeOut(m) PROVE LockInv'
  <2>1. m \in Managers /\ pc[m] = "take_out" /\ Unlock(m, {"DELETED"}) /\ mix' = mix
        /\ \A q \in Procs \ {m} : loc'[q] = loc[q]
    BY <1>7 DEF TakeOut, Types
  <2>2. pc'[m] \in {"originals", "compact"} /\ \A q \in Procs \ {m} : pc'[q] = pc[q]
    BY <1>7, <1>p DEF TakeOut
  <2>3. /\ \A g \in Files : holder'[g] = m <=> holder[g] = m /\ g # "DELETED"
        /\ \A q \in Procs \ {m}, g \in Files : holder'[g] = q <=> holder[g] = q
    BY <2>1, LockMoves
  <2>4. Only(m)
    BY <2>1, <2>2, <2>3 DEF Only
  <2> QED BY <2>1, <2>2, <2>3, <2>4, <1>h, <1>r, <1>s, <1>f DEF OnSource
<1>8. ASSUME NEW m \in Procs, Original(m) PROVE LockInv'
  <2>1. m \in Managers /\ pc[m] = "originals" /\ holder' = holder /\ pc'[m] = "orig_lock" /\ Only(m)
    BY <1>8, <1>k, <1>p DEF Original, Types
  <2> QED BY <2>1, <1>h, <1>r DEF OnSource
<1>9. ASSUME NEW m \in Procs, OriginalLock(m) PROVE LockInv'
  <2>1. m \in Managers /\ pc[m] = "orig_lock" /\ Source(m) = "DIGEST" /\ LockOrFail(m, "DIR") /\ mix' = mix /\ loc' = loc
    BY <1>9 DEF OriginalLock, PlaceInv, ManagerPlace, MarkerPlace
  <2>2. pc'[m] = "orig_flag" /\ \A q \in Procs \ {m} : pc'[q] = pc[q]
    BY <1>9, <1>p DEF OriginalLock
  <2>3. /\ \A g \in Files : g # "DIR" => holder'[g] = holder[g]
        /\ \A q \in Procs \ {m}, g \in Files : holder'[g] = q <=> holder[g] = q
    BY <2>1, <1>f, LockMoves
  <2>4. Only(m)
    BY <2>1, <2>2, <2>3 DEF Only
  <2> QED BY <2>1, <2>2, <2>3, <2>4, <1>h, <1>r, <1>f DEF OnSource
<1>10. ASSUME NEW m \in Procs, OriginalFlag(m) PROVE LockInv'
  <2>1. m \in Managers /\ pc[m] = "orig_flag" /\ Source(m) = "DIGEST" /\ Unlock(m, {"DIR"}) /\ mix' = mix
        /\ \A q \in Procs \ {m} : loc'[q] = loc[q]
    BY <1>10 DEF OriginalFlag, PlaceInv, ManagerPlace, MarkerPlace, Types
  <2>2. pc'[m] = "originals" /\ \A q \in Procs \ {m} : pc'[q] = pc[q]
    BY <1>10, <1>p DEF OriginalFlag
  <2>3. /\ \A g \in Files : holder'[g] = m <=> holder[g] = m /\ g # "DIR"
        /\ \A q \in Procs \ {m}, g \in Files : holder'[g] = q <=> holder[g] = q
    BY <2>1, LockMoves
  <2>4. Only(m)
    BY <2>1, <2>2, <2>3 DEF Only
  <2> QED BY <2>1, <2>2, <2>3, <2>4, <1>h, <1>r, <1>f DEF OnSource
<1>11. ASSUME NEW m \in Procs, OriginalsDone(m) PROVE LockInv'
  <2>1. m \in Managers /\ pc[m] = "originals" /\ holder' = holder /\ pc'[m] = "compact" /\ Only(m)
    BY <1>11, <1>k, <1>p DEF OriginalsDone, Types
  <2> QED BY <2>1, <1>h, <1>r DEF OnSource
(* Who is done lets go of everything. *)
<1>d. ASSUME NEW p \in Procs, mix' = mix, Unlock(p, Files), Goto(p, "done"),
             \A q \in Procs \ {p} : loc'[q] = loc[q]
      PROVE  LockInv'
  <2>1. /\ \A g \in Files : holder'[g] # p
        /\ \A q \in Procs \ {p}, g \in Files : holder'[g] = q <=> holder[g] = q
    BY <1>d, LockMoves
  <2>2. pc'[p] = "done" /\ Only(p)
    BY <1>d, <1>p, <2>1 DEF Only
  <2> QED BY <2>1, <2>2, <1>l DEF OnSource, Flagging
<1>12. ASSUME NEW m \in Procs, Compact(m) \/ Tokens(m) \/ Fault(m) PROVE LockInv'
  <2>1. mix' = mix /\ Unlock(m, Files) /\ Goto(m, "done") /\ loc' = [loc EXCEPT ![m] = Fresh]
    BY <1>12 DEF Compact, Tokens, Fault
  <2> QED BY <2>1, <1>d DEF Types
<1>15. ASSUME NEW u \in Procs, Toggle(u) \/ FlagMap(u) PROVE LockInv'
  <2>1. Only(u) /\ pc'[u] \in {"flag_map", "flag_lock"}
    BY <1>15, <1>k, <1>p DEF Toggle, FlagMap, Types
  <2>2. \A f \in Files : holder'[f] # u
    BY <1>15, Unheld DEF Toggle, FlagMap, OnSource, Flagging
  <2> QED BY <2>1, <2>2, <1>l DEF OnSource, Flagging
(* A user at a flag. *)
<1>v. ASSUME NEW u \in Markers, Only(u), pc'[u] \in Flagging,
             holder'["DIR"] = u, \A f \in Files : holder'[f] = u /\ f # "DIR" => f = "DIGEST" /\ pc'[u] = "digest_add"
      PROVE  LockInv'
  <2>1. Markers' = Markers
    BY <1>v, Same DEF Only
  <2>2. \A f \in Files : holder'[f] = u => MayHold(u, f)'
    BY <1>v, <2>1 DEF MayHold
  <2> QED BY <1>v, <2>2, <1>u, LockFrame
<1>w. ASSUME NEW u \in Markers, pc[u] \in Flagging
      PROVE  holder["DIR"] = u /\ \A f \in Files : holder[f] = u /\ f # "DIR" => f = "DIGEST" /\ pc[u] = "digest_add"
  BY <1>w, <1>u DEF LockInv, MayHold
<1>17. ASSUME NEW u \in Procs, FlagLock(u) PROVE LockInv'
  <2>0. \A f \in Files : holder[f] # u
    BY <1>17, Unheld DEF FlagLock, OnSource, Flagging
  <2>1. u \in Markers /\ LockOrFail(u, "DIR") /\ mix' = mix /\ loc' = loc
    BY <1>17 DEF FlagLock
  <2>2. pc'[u] = "flag_find" /\ \A q \in Procs \ {u} : pc'[q] = pc[q]
    BY <1>17, <1>p DEF FlagLock
  <2>3. ~Deadlocked(u, "DIR")
    BY <2>0 DEF Deadlocked
  <2>4. /\ holder'["DIR"] = u /\ \A g \in Files : g # "DIR" => holder'[g] = holder[g]
        /\ \A q \in Procs \ {u}, g \in Files : holder'[g] = q <=> holder[g] = q
    BY <2>1, <2>3, <1>f, LockMoves
  <2>5. Only(u)
    BY <2>1, <2>2, <2>4 DEF Only
  <2> QED BY <2>0, <2>1, <2>2, <2>4, <2>5, <1>v DEF Flagging
<1>18. ASSUME NEW u \in Procs, FlagFind(u) PROVE LockInv'
  <2>0. u \in Markers /\ pc[u] = "flag_find" /\ mix' = mix
    BY <1>18 DEF FlagFind
  <2>1. \A q \in Procs \ {u} : loc'[q] = loc[q]
    BY <1>18 DEF FlagFind, Types
  <2>2. CASE UNCHANGED holder
    <3>1. /\ Goto(u, IF Flag(u) = "marked" THEN "flag_mark"
                     ELSE IF loc[u].tgt.digest THEN "digest_clear" ELSE "digest_lock")
      BY <1>18, <2>2, <1>w, <1>f, LockMoves DEF FlagFind, Flagging
    <3>2. Only(u)
      BY <2>0, <2>1, <2>2, <3>1, <1>k
    <3>3. pc'[u] \in Flagging \ {"digest_add"}
      BY <3>1, <1>p, <2>0 DEF Flagging
    <3> QED BY <2>0, <2>2, <3>2, <3>3, <1>v, <1>w DEF Flagging
  <2>3. CASE Unlock(u, {"DIR"}) /\ Goto(u, "done")
    <3>1. /\ \A g \in Files : holder'[g] = u <=> holder[g] = u /\ g # "DIR"
          /\ \A q \in Procs \ {u}, g \in Files : holder'[g] = q <=> holder[g] = q
      BY <2>3, LockMoves
    <3>2. \A g \in Files : holder'[g] # u
      BY <2>0, <3>1, <1>w DEF Flagging
    <3>3. Only(u) /\ pc'[u] = "done"
      BY <2>0, <2>1, <2>3, <3>1, <1>p DEF Only
    <3> QED BY <3>2, <3>3, <1>l DEF OnSource, Flagging
  <2> QED BY <1>18, <2>2, <2>3 DEF FlagFind
<1>20. ASSUME NEW u \in Procs, FlagMark(u) \/ DigestFlag(u) \/ DigestCut(u) PROVE LockInv'
  <2>1. mix' = mix /\ Unlock(u, Files) /\ Goto(u, "done") /\ loc' = [loc EXCEPT ![u] = Fresh]
    BY <1>20 DEF FlagMark, DigestFlag, DigestCut, Finish
  <2> QED BY <2>1, <1>d DEF Types
<1>21. ASSUME NEW u \in Procs, DigestLock(u) PROVE LockInv'
  <2>1. u \in Markers /\ pc[u] = "digest_lock" /\ LockOrFail(u, "DIGEST") /\ mix' = mix /\ loc' = loc
    BY <1>21 DEF DigestLock
  <2>2. pc'[u] = "digest_add" /\ \A q \in Procs \ {u} : pc'[q] = pc[q]
    BY <1>21, <1>p DEF DigestLock
  <2>3. /\ \A g \in Files : g # "DIGEST" => holder'[g] = holder[g]
        /\ \A q \in Procs \ {u}, g \in Files : holder'[g] = q <=> holder[g] = q
    BY <2>1, <1>f, LockMoves
  <2>4. Only(u)
    BY <2>1, <2>2, <2>3 DEF Only
  <2>5. holder["DIR"] = u /\ \A f \in Files : holder[f] = u => f \in {"DIR", "DIGEST"}
    BY <2>1, <1>w DEF Flagging
  <2> QED BY <2>1, <2>2, <2>3, <2>4, <2>5, <1>f, <1>v DEF Flagging
<1>22. ASSUME NEW u \in Procs, DigestAdd(u) PROVE LockInv'
  <2>1. u \in Markers /\ pc[u] = "digest_add" /\ Unlock(u, {"DIGEST"}) /\ mix' = mix /\ loc' = loc
    BY <1>22 DEF DigestAdd
  <2>2. pc'[u] = "digest_flag" /\ \A q \in Procs \ {u} : pc'[q] = pc[q]
    BY <1>22, <1>p DEF DigestAdd
  <2>3. /\ \A g \in Files : holder'[g] = u <=> holder[g] = u /\ g # "DIGEST"
        /\ \A q \in Procs \ {u}, g \in Files : holder'[g] = q <=> holder[g] = q
    BY <2>1, LockMoves
  <2>4. Only(u)
    BY <2>1, <2>2, <2>3 DEF Only
  <2> QED BY <2>1, <2>2, <2>3, <2>4, <1>f, <1>v, <1>w DEF Flagging
<1>24. ASSUME NEW u \in Procs, DigestClear(u) PROVE LockInv'
  <2>1. u \in Markers /\ pc[u] = "digest_clear" /\ holder' = holder /\ pc'[u] = "digest_map" /\ Only(u)
    BY <1>24, <1>k, <1>p DEF DigestClear
  <2> QED BY <2>1, <1>v, <1>w DEF Flagging
<1>25. ASSUME NEW u \in Procs, DigestMap(u) PROVE LockInv'
  <2>1. CASE loc[u].tgt.id \in Ids("DIGEST")
    <3>1. u \in Markers /\ pc[u] = "digest_map" /\ holder' = holder /\ pc'[u] = "digest_shift" /\ Only(u)
      BY <1>25, <2>1, <1>k, <1>p DEF DigestMap, Types
    <3> QED BY <3>1, <1>v, <1>w DEF Flagging
  <2>2. CASE loc[u].tgt.id \notin Ids("DIGEST")
    <3>1. mix' = mix /\ Unlock(u, Files) /\ Goto(u, "done") /\ loc' = [loc EXCEPT ![u] = Fresh]
      BY <1>25, <2>2 DEF DigestMap, Finish
    <3> QED BY <3>1, <1>d DEF Types
  <2> QED BY <2>1, <2>2
<1>26. ASSUME NEW u \in Procs, DigestShift(u) PROVE LockInv'
  <2>0. u \in Markers /\ pc[u] = "digest_shift" /\ mix' = mix
    BY <1>26 DEF DigestShift
  <2>1. \/ Goto(u, "digest_cut") /\ UNCHANGED <<holder, loc>>
        \/ Finish(u)
    BY <1>26 DEF DigestShift
  <2>2. CASE Goto(u, "digest_cut") /\ UNCHANGED <<holder, loc>>
    <3>1. Only(u) /\ pc'[u] = "digest_cut"
      BY <2>0, <2>2, <1>k, <1>p
    <3> QED BY <2>0, <2>2, <3>1, <1>v, <1>w DEF Flagging
  <2>3. CASE Finish(u)
    BY <2>0, <2>3, <1>d DEF Finish, Types
  <2> QED BY <2>1, <2>2, <2>3
<1>28. ASSUME NEW q \in Procs, Post(q) PROVE LockInv'
  <2>1. Only(q) /\ pc'[q] = "done"
    BY <1>28, <1>k, <1>p DEF Post
  <2>2. \A f \in Files : holder'[f] # q
    BY <1>28, Unheld DEF Post, OnSource, Flagging
  <2> QED BY <2>1, <2>2, <1>l DEF OnSource, Flagging
<1>29. CASE UNCHANGED vars
  <2>1. /\ UNCHANGED <<mix, holder, pc, loc>> /\ Managers' = Managers /\ Markers' = Markers
        /\ \A m \in Procs : Source(m)' = Source(m)
    BY <1>29, Same DEF vars
  <2> QED BY <2>1, <1>s DEF LockInv, MayHold, HasBin, TakesOut
<1> QED BY <1>1, <1>2, <1>3, <1>5, <1>6, <1>7, <1>8, <1>9, <1>10, <1>11, <1>12,
           <1>15, <1>17, <1>18, <1>20, <1>21, <1>22, <1>24, <1>25, <1>26, <1>28, <1>29
     DEF Next, Range_, SetsFlag

-----------------------------------------------------------------------------
(* What the steps do to the files.                                         *)

SameIds(f) ==
  /\ Len(file'[f]) = Len(file[f]) /\ DOMAIN file'[f] = DOMAIN file[f]
  /\ \A i \in DOMAIN file[f] : file'[f][i].id = file[f][i].id
SameElse(f) == \A g \in Files : g # f => file'[g] = file[g]

LEMMA OriginalFlagFiles ==
  ASSUME Types, NEW m \in Procs, OriginalFlag(m)
  PROVE  /\ SameIds("DIR") /\ SameElse("DIR")
         /\ \A i \in DOMAIN file["DIR"] : /\ file'["DIR"][i].marked = file["DIR"][i].marked
                                          /\ file'["DIR"][i].digest => file["DIR"][i].digest
<1> USE DEF Types
<1>1. \/ file' = file
      \/ \E i \in 1 .. loc[m].ent : ~(i > Len(file["DIR"])) /\ file' = [file EXCEPT !["DIR"][i].digest = FALSE]
  <2>1. DOMAIN View("DIR", loc[m].ent) = 1 .. loc[m].ent
    BY LocalFacts, Viewed DEF Files
  <2> QED BY <2>1 DEF OriginalFlag, Hits
<1>2. CASE file' = file
  BY <1>2 DEF SameIds, SameElse
<1>3. ASSUME NEW i \in 1 .. loc[m].ent, ~(i > Len(file["DIR"])), file' = [file EXCEPT !["DIR"][i].digest = FALSE]
      PROVE  /\ SameIds("DIR") /\ SameElse("DIR")
             /\ \A k \in DOMAIN file["DIR"] : /\ file'["DIR"][k].marked = file["DIR"][k].marked
                                              /\ file'["DIR"][k].digest => file["DIR"][k].digest
  <2>0. loc[m].ent \in Nat /\ file["DIR"] \in Seq(Entry)
    BY LocalFacts DEF Files
  <2>1. i \in DOMAIN file["DIR"] /\ file["DIR"][i] \in Entry
    BY <1>3, <2>0
  <2> DEFINE e == [file["DIR"][i] EXCEPT !.digest = FALSE]
  <2>2. file' = [file EXCEPT !["DIR"] = [@ EXCEPT ![i] = e]]
    BY <1>3
  <2>3. e \in Entry /\ e.id = file["DIR"][i].id /\ e.marked = file["DIR"][i].marked /\ ~e.digest
    BY <2>1, EntryFacts
  <2> HIDE DEF e
  <2> QED BY <2>1, <2>2, <2>3, FieldSet DEF SameIds, SameElse
<1> QED BY <1>1, <1>2, <1>3

LEMMA TokensFiles ==
  ASSUME Types, NEW m \in Managers, Tokens(m)
  PROVE  /\ SameIds(Source(m)) /\ SameElse(Source(m))
         /\ \A i \in DOMAIN file[Source(m)] :
              /\ file'[Source(m)][i].marked = file[Source(m)][i].marked
              /\ file'[Source(m)][i].digest = file[Source(m)][i].digest
<1> DEFINE s == file[Source(m)]
           b(i) == loc[m].mode = "mpdel" /\ ~Undeletable(m, i)
           new == [i \in DOMAIN s |-> IF i \in InRange(m) THEN [s[i] EXCEPT !.del = b(i)] ELSE s[i]]
<1>1. Source(m) \in Files /\ s \in Seq(Entry) /\ Len(s) \in Nat /\ DOMAIN s = 1 .. Len(s)
  BY RangeFacts DEF Types
<1>2. file' = [file EXCEPT ![Source(m)] = new]
  BY DEF Tokens
<1>3. \A i \in DOMAIN s : new[i].id = s[i].id /\ new[i].marked = s[i].marked /\ new[i].digest = s[i].digest
  <2>1. \A i \in DOMAIN s : b(i) \in BOOLEAN
    OBVIOUS
  <2> HIDE DEF s, b
  <2>2. \A i \in DOMAIN s : s[i] \in Entry
    BY <1>1
  <2> SUFFICES ASSUME NEW i \in DOMAIN s
               PROVE  new[i].id = s[i].id /\ new[i].marked = s[i].marked /\ new[i].digest = s[i].digest
    OBVIOUS
  <2>3. new[i] = s[i] \/ new[i] = [s[i] EXCEPT !.del = b(i)]
    OBVIOUS
  <2> HIDE DEF new
  <2> DEFINE v == s[i]  c == b(i)
  <2>4. v \in Entry /\ c \in BOOLEAN /\ (new[i] = v \/ new[i] = [v EXCEPT !.del = c])
    BY <2>1, <2>2, <2>3
  <2> HIDE DEF v, c
  <2>5. new[i].id = v.id /\ new[i].marked = v.marked /\ new[i].digest = v.digest
    BY <2>4 DEF Entry
  <2> QED BY <2>5 DEF v
<1>4. DOMAIN new = 1 .. Len(s) /\ Len(new) = Len(s)
  <2> HIDE DEF s, b
  <2> QED BY <1>1
<1>5. file'[Source(m)] = new /\ \A g \in Files : g # Source(m) => file'[g] = file[g]
  <2> HIDE DEF new
  <2> QED BY <1>1, <1>2 DEF Types
<1> HIDE DEF new
<1> QED BY <1>1, <1>3, <1>4, <1>5 DEF SameIds, SameElse

LEMMA SetFlagFiles ==
  ASSUME Types, NEW u \in Markers, MarkerPlace(u), pc[u] \in Flagging \ {"flag_find"},
         NEW b \in BOOLEAN
  PROVE  /\ SetFlag(u, "marked", b) =>
              /\ SameIds("DIR") /\ SameElse("DIR")
              /\ \A i \in DOMAIN file["DIR"] : file'["DIR"][i].digest = file["DIR"][i].digest
              /\ \A i \in DOMAIN file["DIR"] : i # loc[u].ent => file'["DIR"][i].marked = file["DIR"][i].marked
         /\ SetFlag(u, "digest", b) =>
              /\ SameIds("DIR") /\ SameElse("DIR")
              /\ \A i \in DOMAIN file["DIR"] : i # loc[u].ent => file'["DIR"][i].digest = file["DIR"][i].digest
              /\ file'["DIR"][loc[u].ent].digest = b
              /\ \A i \in DOMAIN file["DIR"] : file'["DIR"][i].marked = file["DIR"][i].marked
<1> DEFINE i == loc[u].ent  d == file["DIR"]
<1>0. file \in [Files -> Seq(Entry)] /\ "DIR" \in Files
  BY DEF Types, Files
<1>1. i \in DOMAIN d /\ d[i] \in Entry
  BY <1>0 DEF MarkerPlace
<1> DEFINE x == [d[i] EXCEPT !.marked = b]  y == [d[i] EXCEPT !.digest = b]
<1>2. /\ x \in Entry /\ x.id = d[i].id /\ x.digest = d[i].digest
      /\ y \in Entry /\ y.id = d[i].id /\ y.digest = b /\ y.marked = d[i].marked
  <2> DEFINE v == d[i]
  <2>1. v \in Entry
    BY <1>1
  <2> HIDE DEF v
  <2>2. /\ [v EXCEPT !.marked = b] \in Entry /\ [v EXCEPT !.marked = b].id = v.id
        /\ [v EXCEPT !.marked = b].digest = v.digest
        /\ [v EXCEPT !.digest = b] \in Entry /\ [v EXCEPT !.digest = b].id = v.id
        /\ [v EXCEPT !.digest = b].digest = b /\ [v EXCEPT !.digest = b].marked = v.marked
    BY <2>1 DEF Entry
  <2> QED BY <2>2 DEF v
<1>3. /\ SetFlag(u, "marked", b) => file' = [file EXCEPT !["DIR"] = [@ EXCEPT ![i] = x]]
      /\ SetFlag(u, "digest", b) => file' = [file EXCEPT !["DIR"] = [@ EXCEPT ![i] = y]]
  BY DEF SetFlag
<1> HIDE DEF x, y, i
<1>4. ASSUME NEW e \in Entry, e.id = d[i].id, file' = [file EXCEPT !["DIR"] = [@ EXCEPT ![i] = e]]
      PROVE  /\ SameIds("DIR") /\ SameElse("DIR") /\ file'["DIR"][i] = e
             /\ \A j \in DOMAIN file["DIR"] : j # i => file'["DIR"][j] = file["DIR"][j]
  BY <1>0, <1>1, <1>4, FieldSet DEF SameIds, SameElse
<1>5. ASSUME SetFlag(u, "marked", b)
      PROVE  /\ SameIds("DIR") /\ SameElse("DIR") /\ file'["DIR"][i] = x
             /\ \A j \in DOMAIN file["DIR"] : j # i => file'["DIR"][j] = file["DIR"][j]
  BY <1>2, <1>3, <1>4, <1>5
<1>6. ASSUME SetFlag(u, "digest", b)
      PROVE  /\ SameIds("DIR") /\ SameElse("DIR") /\ file'["DIR"][i] = y
             /\ \A j \in DOMAIN file["DIR"] : j # i => file'["DIR"][j] = file["DIR"][j]
  BY <1>2, <1>3, <1>4, <1>6
<1>7. ASSUME SetFlag(u, "marked", b)
      PROVE  \A j \in DOMAIN file["DIR"] : /\ file'["DIR"][j].digest = file["DIR"][j].digest
                                           /\ j # i => file'["DIR"][j].marked = file["DIR"][j].marked
  BY <1>2, <1>5, <1>7
<1>8. ASSUME SetFlag(u, "digest", b)
      PROVE  /\ file'["DIR"][i].digest = b
             /\ \A j \in DOMAIN file["DIR"] : /\ j # i => file'["DIR"][j].digest = file["DIR"][j].digest
                                              /\ file'["DIR"][j].marked = file["DIR"][j].marked
  BY <1>2, <1>6, <1>8
<1> QED BY <1>5, <1>6, <1>7, <1>8 DEF i

(* A step is one process's.                                                *)
LEMMA OneMoves ==
  ASSUME Types, NEW p \in Procs, Range_(p) \/ SetsFlag(p) \/ Post(p)
  PROVE  Only(p)
<1> USE DEF Goto, Types
<1>l. \A f \in Files : ((holder[f] = Nobody /\ Lock(p, f)) \/ LockOrFail(p, f)) =>
                          \A q \in Procs \ {p}, g \in Files : holder'[g] = q <=> holder[g] = q
  BY LockMoves
<1>u. ASSUME NEW fs, Unlock(p, fs) PROVE \A q \in Procs \ {p}, g \in Files : holder'[g] = q <=> holder[g] = q
  BY <1>u, LockMoves
<1>f. "DIR" \in Files /\ "DIGEST" \in Files /\ "DELETED" \in Files /\ \A m \in Managers : Source(m) \in Files
  BY RangeFacts DEF Files
<1>1. ASSUME mix' = mix, \E s : pc' = [pc EXCEPT ![p] = s], \A q \in Procs \ {p} : loc'[q] = loc[q],
             \A q \in Procs \ {p}, g \in Files : holder'[g] = q <=> holder[g] = q
      PROVE  Only(p)
  BY <1>1 DEF Only
<1>2. CASE Choose(p)
  <2>1. \A q \in Procs \ {p} : loc'[q] = loc[q]
    BY <1>2 DEF Choose
  <2> QED BY <1>2, <2>1, <1>1 DEF Choose
<1>3. CASE Stat(p) \/ Insist(p) \/ GiveUp(p) \/ Original(p) \/ OriginalsDone(p)
  BY <1>3, <1>1 DEF Stat, Insist, GiveUp, Original, OriginalsDone
<1>4. CASE LockSource(p)
  BY <1>4, <1>1, <1>l, <1>f DEF LockSource
<1>5. CASE LockBin(p) \/ OriginalLock(p)
  BY <1>5, <1>1, <1>l, <1>f DEF LockBin, OriginalLock
<1>6. CASE TakeOut(p)
  <2>1. \A q \in Procs \ {p} : loc'[q] = loc[q]
    BY <1>6 DEF TakeOut
  <2>2. mix' = mix /\ Unlock(p, {"DELETED"}) /\ \E s : pc' = [pc EXCEPT ![p] = s]
    BY <1>6 DEF TakeOut
  <2> QED BY <2>1, <2>2, <1>1, <1>u
<1>7. CASE OriginalFlag(p)
  <2>1. \A q \in Procs \ {p} : loc'[q] = loc[q]
    BY <1>7 DEF OriginalFlag
  <2>2. mix' = mix /\ Unlock(p, {"DIR"}) /\ \E s : pc' = [pc EXCEPT ![p] = s]
    BY <1>7 DEF OriginalFlag
  <2> QED BY <2>1, <2>2, <1>1, <1>u
<1>8. CASE Compact(p) \/ Tokens(p) \/ Fault(p) \/ FlagMark(p) \/ DigestFlag(p) \/ DigestCut(p)
  <2>1. mix' = mix /\ Unlock(p, Files) /\ loc' = [loc EXCEPT ![p] = Fresh] /\ \E s : pc' = [pc EXCEPT ![p] = s]
    BY <1>8 DEF Compact, Tokens, Fault, FlagMark, DigestFlag, DigestCut, Finish
  <2> QED BY <2>1, <1>1, <1>u
<1>9. CASE Toggle(p) \/ FlagMap(p) \/ Post(p) \/ DigestClear(p)
  BY <1>9, <1>1 DEF Toggle, FlagMap, Post, DigestClear
<1>10. CASE FlagLock(p) \/ DigestLock(p)
  BY <1>10, <1>1, <1>l, <1>f DEF FlagLock, DigestLock
<1>11. CASE FlagFind(p) \/ DigestMap(p) \/ DigestShift(p)
  <2>1. mix' = mix /\ (UNCHANGED holder \/ Unlock(p, {"DIR"}) \/ Unlock(p, Files))
    BY <1>11 DEF FlagFind, DigestMap, DigestShift, Finish
  <2>2. \A q \in Procs \ {p} : loc'[q] = loc[q]
    BY <1>11 DEF FlagFind, DigestMap, DigestShift, Finish
  <2>3. \E s : pc' = [pc EXCEPT ![p] = s]
    BY <1>11 DEF FlagFind, DigestMap, DigestShift, Finish
  <2>4. \A q \in Procs \ {p}, g \in Files : holder'[g] = q <=> holder[g] = q
    BY <2>1, <1>u
  <2> QED BY <2>1, <2>2, <2>3, <2>4, <1>1
<1>12. CASE DigestAdd(p)
  BY <1>12, <1>1, <1>u DEF DigestAdd
<1> QED BY <1>2, <1>3, <1>4, <1>5, <1>6, <1>7, <1>8, <1>9, <1>10, <1>11, <1>12 DEF Range_, SetsFlag

(* Who changes .DIR: a manager who cuts it, who posts, who sets a flag.    *)
SameMarks   == \A i \in DOMAIN file["DIR"] : file'["DIR"][i].marked = file["DIR"][i].marked
SameDigests == \A i \in DOMAIN file["DIR"] : file'["DIR"][i].digest = file["DIR"][i].digest

LEMMA DirKinds ==
  ASSUME Types, PlaceInv, NEW p \in Procs, Range_(p) \/ SetsFlag(p) \/ Post(p)
  PROVE  \/ /\ SameIds("DIR") /\ posted' = posted
            /\ FlagMark(p) \/ SameMarks
            /\ OriginalFlag(p) \/ DigestFlag(p) \/ DigestClear(p) \/ SameDigests
         \/ p \in Managers /\ Source(p) = "DIR" /\ Compact(p) /\ posted' = posted
         \/ Post(p)
<1> DEFINE Steady == SameIds("DIR") /\ SameMarks /\ SameDigests
<1>f. "DIR" \in Files /\ "DIGEST" \in Files /\ "DELETED" \in Files
  BY DEF Files
<1>2. file' = file => Steady
  BY DEF SameIds, SameMarks, SameDigests
<1>3. \A f \in Files \ {"DIR"} : SameElse(f) => Steady
  BY <1>f DEF SameIds, SameElse, SameMarks, SameDigests
<1>4. CASE Compact(p)
  <2>1. p \in Managers /\ posted' = posted
    BY <1>4 DEF Compact
  <2>2. Source(p) \in Files /\ SameElse(Source(p))
    BY <1>4, <2>1, RangeFacts DEF Compact, SameElse, Types
  <2> QED BY <1>4, <2>1, <2>2, <1>3
<1>6. CASE OriginalFlag(p)
  <2>1. posted' = posted
    BY <1>6 DEF OriginalFlag
  <2> QED BY <1>6, <2>1, OriginalFlagFiles DEF SameMarks
<1>7. CASE Tokens(p)
  <2>1. p \in Managers /\ posted' = posted
    BY <1>7 DEF Tokens
  <2>2. Source(p) # "DIR" => Steady
    BY <1>7, <2>1, <1>3, TokensFiles, RangeFacts
  <2>3. Source(p) = "DIR" => Steady
    BY <1>7, <2>1, TokensFiles DEF SameMarks, SameDigests
  <2> QED BY <2>1, <2>2, <2>3
<1>8. ASSUME p \in Markers, pc[p] \in Flagging \ {"flag_find"}, NEW b \in BOOLEAN
      PROVE  /\ SetFlag(p, "marked", b) => SameIds("DIR") /\ SameDigests
             /\ SetFlag(p, "digest", b) => SameIds("DIR") /\ SameMarks
  BY <1>8, SetFlagFiles DEF PlaceInv, SameMarks, SameDigests
<1>9. CASE FlagMark(p)
  <2>1. loc[p].tgt.marked \in BOOLEAN
    BY LocalFacts, EntryFacts DEF Types
  <2>2. p \in Markers /\ pc[p] \in Flagging \ {"flag_find"} /\ posted' = posted
        /\ SetFlag(p, "marked", ~loc[p].tgt.marked)
    BY <1>9 DEF FlagMark, Flagging
  <2> QED BY <1>8, <1>9, <2>1, <2>2
<1>10. CASE DigestFlag(p) \/ DigestClear(p)
  <2>1. p \in Markers /\ pc[p] \in Flagging \ {"flag_find"} /\ posted' = posted
        /\ (SetFlag(p, "digest", TRUE) \/ SetFlag(p, "digest", FALSE))
    BY <1>10 DEF DigestFlag, DigestClear, Flagging
  <2> QED BY <1>8, <1>10, <2>1
<1>11. CASE TakeOut(p) \/ DigestAdd(p) \/ DigestShift(p) \/ DigestCut(p)
  <2>1. SameElse("DELETED") \/ SameElse("DIGEST")
    <3>1. CASE TakeOut(p)
      BY <3>1 DEF TakeOut, SameElse, Types
    <3>2. CASE DigestAdd(p)
      BY <3>2 DEF DigestAdd, SameElse, Types
    <3>3. CASE DigestShift(p)
      BY <3>3 DEF DigestShift, SameElse, Types
    <3>4. CASE DigestCut(p)
      BY <3>4 DEF DigestCut, SameElse, Types
    <3> QED BY <1>11, <3>1, <3>2, <3>3, <3>4
  <2>2. posted' = posted
    BY <1>11 DEF TakeOut, DigestAdd, DigestShift, DigestCut
  <2> QED BY <2>1, <2>2, <1>3, <1>f
<1>12. ASSUME \/ Choose(p) \/ Stat(p) \/ Insist(p) \/ GiveUp(p) \/ LockSource(p) \/ LockBin(p)
              \/ Original(p) \/ OriginalLock(p) \/ OriginalsDone(p) \/ Fault(p)
              \/ Toggle(p) \/ FlagMap(p) \/ FlagLock(p) \/ FlagFind(p) \/ DigestLock(p) \/ DigestMap(p)
       PROVE  file' = file /\ posted' = posted
  BY <1>12 DEF Choose, Stat, Insist, GiveUp, LockSource, LockBin, Original, OriginalLock, OriginalsDone,
               Fault, Toggle, FlagMap, FlagLock, FlagFind, DigestLock, DigestMap
<1> HIDE DEF Steady
<1>13. Steady => SameIds("DIR") /\ SameMarks /\ SameDigests
  BY DEF Steady
<1> QED BY <1>2, <1>4, <1>6, <1>7, <1>9, <1>10, <1>11, <1>12, <1>13 DEF Range_, SetsFlag

(* Nobody changes the ids beside a user who has the lock.                  *)
LEMMA DirBeside ==
  ASSUME Types, LockInv, PlaceInv, NEW p \in Procs, Range_(p) \/ SetsFlag(p) \/ Post(p),
         NEW u \in Markers, u # p, pc[u] \in Flagging
  PROVE  SameIds("DIR")
<1>1. holder["DIR"] = u /\ u # Nobody
  BY Jobs3, NobodyAssumption DEF LockInv
<1>2. ~(p \in Managers /\ Source(p) = "DIR" /\ Compact(p))
  BY <1>1 DEF Compact, LockInv, OnSource
<1>3. ~Post(p)
  BY <1>1 DEF Post
<1> QED BY <1>2, <1>3, DirKinds

-----------------------------------------------------------------------------
(* Where everybody is.                                                     *)

LEMMA PlaceFrame ==
  ASSUME Types, LockInv, PlaceInv, NEW p \in Procs, Range_(p) \/ SetsFlag(p) \/ Post(p),
         p \in Managers => ManagerPlace(p)', p \in Markers => MarkerPlace(p)'
  PROVE  PlaceInv'
<1>0. Only(p)
  BY OneMoves
<1>1. /\ Managers' = Managers /\ Markers' = Markers /\ mix' = mix
      /\ \A m \in Procs : Source(m)' = Source(m) /\ Flag(m)' = Flag(m)
  BY <1>0, Same DEF Only
<1>2. ASSUME NEW m \in Managers, m # p PROVE ManagerPlace(m)'
  <2>1. ManagerPlace(m) /\ m \in Procs
    BY Jobs3 DEF PlaceInv
  <2>2. pc'[m] = pc[m] /\ loc'[m] = loc[m] /\ Source(m)' = Source(m) /\ (TakesOut(m)' <=> TakesOut(m))
    BY <1>0, <1>1, <1>2, <2>1 DEF Only, TakesOut
  <2> QED BY <1>1, <2>1, <2>2 DEF ManagerPlace
<1>3. ASSUME NEW u \in Markers, u # p PROVE MarkerPlace(u)'
  <2>1. MarkerPlace(u) /\ u \in Procs
    BY Jobs3 DEF PlaceInv
  <2>2. pc'[u] = pc[u] /\ loc'[u] = loc[u] /\ Flag(u)' = Flag(u)
    BY <1>0, <1>1, <1>3, <2>1 DEF Only
  <2>3. CASE pc[u] \in Flagging
    BY <1>3, <2>1, <2>2, <2>3, DirBeside DEF MarkerPlace, SameIds
  <2>4. CASE pc[u] \notin Flagging
    BY <2>2, <2>4 DEF MarkerPlace, Flagging
  <2> QED BY <2>3, <2>4
<1>4. ASSUME NEW m \in Managers' PROVE ManagerPlace(m)'
  BY <1>1, <1>2
<1>5. ASSUME NEW u \in Markers' PROVE MarkerPlace(u)'
  BY <1>1, <1>3
<1> QED BY <1>4, <1>5 DEF PlaceInv

LEMMA PlaceStep ==
  ASSUME Types, LockInv, PlaceInv, [Next]_vars
  PROVE  PlaceInv'
<1> USE DEF Goto
<1>t. Types'
  BY TypesStep
<1>s. \A m \in Managers : Source(m) \in {"DIR", "DIGEST"} /\ m \in Procs /\ m \notin Markers /\ ManagerPlace(m)
  BY RangeFacts, Jobs3 DEF PlaceInv
<1>u. \A u \in Markers : u \in Procs /\ u \notin Managers /\ MarkerPlace(u) /\ Flag(u) \in {"marked", "digest"}
  BY Jobs3 DEF PlaceInv, Markers, Flag
<1>x. ASSUME NEW p \in Procs, mix' = mix
      PROVE  Source(p)' = Source(p) /\ Flag(p)' = Flag(p) /\ (TakesOut(p)' <=> loc'[p].mode \in {"token", "range", "force"})
  BY <1>x, Same DEF TakesOut
<1>d. ASSUME NEW p \in Procs, pc'[p] \in {"idle", "done"} PROVE ManagerPlace(p)' /\ MarkerPlace(p)'
  BY <1>d DEF ManagerPlace, MarkerPlace, Flagging
<1>e. ASSUME NEW p \in Procs, Goto(p, "done") PROVE ManagerPlace(p)' /\ MarkerPlace(p)'
  BY <1>d, <1>e DEF Types
<1>1. ASSUME NEW m \in Procs, Choose(m) PROVE ManagerPlace(m)'
  <2>0. \E a, b \in DOMAIN file[Source(m)], mode \in mix.modes, over \in BOOLEAN :
          /\ a <= b
          /\ loc' = [loc EXCEPT ![m].look = file[Source(m)], ![m].from = a,
                                ![m].to = b, ![m].mode = mode, ![m].over = over]
    BY <1>1, Zenon DEF Choose
  <2>1. PICK a, b \in DOMAIN file[Source(m)], mode \in mix.modes, over \in BOOLEAN :
          /\ a <= b
          /\ loc' = [loc EXCEPT ![m].look = file[Source(m)], ![m].from = a,
                                ![m].to = b, ![m].mode = mode, ![m].over = over]
    BY <2>0, Zenon
  <2>2. a >= 1
    BY <1>1, <1>s, RangeFacts DEF Choose, Types
  <2>3. loc'[m].from = a /\ loc'[m].mode = mode
    BY <2>1, LocalFacts DEF Types, Local
  <2>4. pc'[m] = "stat" /\ mix' = mix
    BY <1>1 DEF Choose, Types
  <2> QED BY <2>1, <2>2, <2>3, <2>4 DEF ManagerPlace
<1>2. ASSUME NEW m \in Procs, Stat(m) \/ Insist(m) PROVE ManagerPlace(m)'
  <2>1. loc'[m].from = loc[m].from /\ loc'[m].mode = loc[m].mode /\ mix' = mix
    BY <1>2 DEF Stat, Insist, Types, Local
  <2>2. m \in Managers /\ pc[m] \in {"stat", "refused"} /\ pc'[m] \in {"stat", "lock", "refused"}
    BY <1>2 DEF Stat, Insist, Types
  <2> QED BY <2>1, <2>2, <1>s DEF ManagerPlace
<1>4. ASSUME NEW m \in Procs, GiveUp(m) PROVE ManagerPlace(m)'
  BY <1>4, <1>e DEF GiveUp
<1>5. ASSUME NEW m \in Procs, LockSource(m) PROVE ManagerPlace(m)'
  <2>1. CASE Goto(m, "done")
    BY <2>1, <1>e
  <2>2. CASE ~Goto(m, "done")
    <3>1. loc' = loc /\ mix' = mix /\ m \in Managers /\ pc[m] = "lock"
      BY <1>5, <2>2 DEF LockSource
    <3>2. pc'[m] = IF HasBin(m) THEN "lock_bin" ELSE IF TakesOut(m) THEN "take_out" ELSE "tokens"
      BY <1>5, <2>2 DEF LockSource, Types
    <3>3. TakesOut(m)' = TakesOut(m) /\ Source(m)' = Source(m)
      BY <3>1, <1>x, Same DEF TakesOut
    <3> QED BY <3>1, <3>2, <3>3, <1>s DEF ManagerPlace, HasBin
  <2> QED BY <2>1, <2>2
<1>6. ASSUME NEW m \in Procs, LockBin(m) PROVE ManagerPlace(m)'
  <2>1. loc' = loc /\ mix' = mix /\ m \in Managers /\ pc[m] = "lock_bin" /\ pc'[m] = "take_out"
    BY <1>6 DEF LockBin, Types
  <2>2. TakesOut(m)' = TakesOut(m) /\ Source(m)' = Source(m)
    BY <2>1, <1>x, Same DEF TakesOut
  <2> QED BY <2>1, <2>2, <1>s DEF ManagerPlace
<1>7. ASSUME NEW m \in Procs, TakeOut(m) PROVE ManagerPlace(m)'
  <2>1. mix' = mix /\ m \in Managers /\ pc[m] = "take_out"
        /\ pc'[m] = IF Source(m) = "DIGEST" THEN "originals" ELSE "compact"
    BY <1>7 DEF TakeOut, Types
  <2>2. loc'[m].sel = Selected(m) /\ loc'[m].from = loc[m].from /\ loc'[m].mode = loc[m].mode
        /\ loc'[m].size = loc[m].size
    <3>1. loc[m] \in Local /\ m \in Procs
      BY DEF Types
    <3>2. loc'[m] = [loc[m] EXCEPT !.sel = Selected(m),
                                   !.todo = {View(Source(m), loc[m].size)[i].id : i \in Selected(m)}]
      BY <1>7, <3>1 DEF TakeOut, Types
    <3> QED BY <3>1, <3>2 DEF Local
  <2>3. Selected(m) \subseteq 1 .. loc[m].size
    BY <2>1, <1>s, RangeFacts DEF ManagerPlace
  <2>4. (TakesOut(m)' <=> TakesOut(m)) /\ Source(m)' = Source(m)
    BY <2>1, <2>2, <1>x DEF TakesOut
  <2> QED BY <2>1, <2>2, <2>3, <2>4, <1>s DEF ManagerPlace
<1>8. ASSUME NEW m \in Procs, Original(m) PROVE ManagerPlace(m)'
  <2>1. mix' = mix /\ m \in Managers /\ pc[m] = "originals" /\ pc'[m] = "orig_lock" /\ loc[m].todo # {}
    BY <1>8 DEF Original, Types
  <2>2. Len(file["DIR"]) \in Nat /\ loc[m].ent \in Nat /\ (file["DIR"] = <<>> <=> Len(file["DIR"]) = 0)
    BY LocalFacts DEF Types, Files
  <2>3. /\ loc'[m].sel = loc[m].sel /\ loc'[m].from = loc[m].from /\ loc'[m].mode = loc[m].mode
        /\ loc'[m].size = loc[m].size /\ loc'[m].todo = loc[m].todo
        /\ loc'[m].ent = IF loc[m].ent = 0 THEN Len(file["DIR"]) ELSE loc[m].ent
    BY <1>8 DEF Original, Types, Local
  <2>4. loc'[m].ent > 0
    BY <1>8, <2>2, <2>3 DEF Original
  <2>5. (TakesOut(m)' <=> TakesOut(m)) /\ Source(m)' = Source(m)
    BY <2>1, <2>3, <1>x DEF TakesOut
  <2> QED BY <2>1, <2>3, <2>4, <2>5, <1>s DEF ManagerPlace
<1>9. ASSUME NEW m \in Procs, OriginalLock(m) PROVE ManagerPlace(m)'
  <2>1. loc' = loc /\ mix' = mix /\ m \in Managers /\ pc[m] = "orig_lock" /\ pc'[m] = "orig_flag"
    BY <1>9 DEF OriginalLock, Types
  <2>2. TakesOut(m)' = TakesOut(m) /\ Source(m)' = Source(m)
    BY <2>1, <1>x, Same DEF TakesOut
  <2> QED BY <2>1, <2>2, <1>s DEF ManagerPlace
<1>10. ASSUME NEW m \in Procs, OriginalFlag(m) PROVE ManagerPlace(m)'
  <2>1. mix' = mix /\ m \in Managers /\ pc[m] = "orig_flag" /\ pc'[m] = "originals"
    BY <1>10 DEF OriginalFlag, Types
  <2>2. /\ loc'[m].sel = loc[m].sel /\ loc'[m].from = loc[m].from /\ loc'[m].mode = loc[m].mode
        /\ loc'[m].size = loc[m].size
    BY <1>10 DEF OriginalFlag, Types, Local
  <2>3. (TakesOut(m)' <=> TakesOut(m)) /\ Source(m)' = Source(m)
    BY <2>1, <2>2, <1>x DEF TakesOut
  <2> QED BY <2>1, <2>2, <2>3, <1>s DEF ManagerPlace
<1>11. ASSUME NEW m \in Procs, OriginalsDone(m) PROVE ManagerPlace(m)'
  <2>1. loc' = loc /\ mix' = mix /\ m \in Managers /\ pc[m] = "originals" /\ pc'[m] = "compact"
    BY <1>11 DEF OriginalsDone, Types
  <2>2. TakesOut(m)' = TakesOut(m) /\ Source(m)' = Source(m)
    BY <2>1, <1>x, Same DEF TakesOut
  <2> QED BY <2>1, <2>2, <1>s DEF ManagerPlace
<1>12. ASSUME NEW m \in Procs, Compact(m) \/ Tokens(m) \/ Fault(m) PROVE ManagerPlace(m)'
  BY <1>12, <1>e DEF Compact, Tokens, Fault
<1>15. ASSUME NEW u \in Procs, Toggle(u) \/ FlagMap(u) \/ FlagLock(u) PROVE MarkerPlace(u)'
  <2>1. pc'[u] \in {"flag_map", "flag_lock", "flag_find"}
    BY <1>15 DEF Toggle, FlagMap, FlagLock, Types
  <2> QED BY <2>1 DEF MarkerPlace, Flagging
<1>18. ASSUME NEW u \in Procs, FlagFind(u) PROVE MarkerPlace(u)'
  <2>1. CASE Goto(u, "done")
    BY <2>1, <1>e
  <2>2. CASE ~Goto(u, "done")
    <3>1. u \in Markers /\ file' = file /\ mix' = mix
      BY <1>18 DEF FlagFind
    <3>2. PICK i \in Hits(View("DIR", loc[u].size), loc[u].tgt.id) \cap DOMAIN file["DIR"] :
            loc' = [loc EXCEPT ![u].ent = i]
      BY <1>18, <2>2 DEF FlagFind
    <3>3. pc'[u] = IF Flag(u) = "marked" THEN "flag_mark"
                   ELSE IF loc[u].tgt.digest THEN "digest_clear" ELSE "digest_lock"
      BY <1>18, <2>2 DEF FlagFind, Types
    <3>4. i \in DOMAIN file["DIR"] /\ file["DIR"][i].id = loc[u].tgt.id
      <4>1. loc[u].size \in Nat /\ file["DIR"] \in Seq(Entry) /\ i \in DOMAIN file["DIR"]
        BY LocalFacts DEF Types, Files
      <4> DEFINE view == View("DIR", loc[u].size)
      <4>2. DOMAIN view = 1 .. loc[u].size
            /\ \A k \in 1 .. loc[u].size : k <= Len(file["DIR"]) => view[k] = file["DIR"][k]
        <5>1. file \in [Files -> Seq(Entry)] /\ "DIR" \in Files /\ loc[u].size \in Int
          BY <4>1 DEF Types, Files
        <5> QED BY <5>1, Viewed
      <4> HIDE DEF view
      <4>3. i \in DOMAIN view /\ view[i].id = loc[u].tgt.id
        BY DEF view, Hits
      <4> QED BY <4>1, <4>2, <4>3
    <3>5. loc'[u].ent = i /\ loc'[u].tgt = loc[u].tgt
      BY <3>2 DEF Types, Local
    <3>6. Flag(u)' = Flag(u) /\ Flag(u) \in {"marked", "digest"}
      BY <3>1, <1>x, <1>u
    <3> QED BY <3>1, <3>3, <3>4, <3>5, <3>6 DEF MarkerPlace
  <2> QED BY <2>1, <2>2
<1>20. ASSUME NEW u \in Procs, FlagMark(u) \/ DigestFlag(u) \/ DigestCut(u) PROVE MarkerPlace(u)'
  BY <1>20, <1>e DEF FlagMark, DigestFlag, DigestCut, Finish
(* On within the user's work. *)
<1>v. ASSUME NEW u \in Markers, mix' = mix, SameIds("DIR"), pc[u] \in Flagging \ {"flag_find", "flag_mark"},
             pc'[u] \in Flagging \ {"flag_find", "flag_mark"}, loc'[u].ent = loc[u].ent, loc'[u].tgt = loc[u].tgt,
             pc'[u] = "digest_cut" => loc'[u].size >= 1
      PROVE  MarkerPlace(u)'
  <2>1. Flag(u)' = Flag(u) /\ MarkerPlace(u)
    BY <1>v, <1>x, <1>u
  <2> QED BY <1>v, <2>1 DEF MarkerPlace, SameIds
<1>i. file' = file => SameIds("DIR")
  BY DEF SameIds
<1>j. file'["DIR"] = file["DIR"] => SameIds("DIR")
  BY DEF SameIds
<1>21. ASSUME NEW u \in Procs, DigestLock(u) \/ DigestAdd(u) PROVE MarkerPlace(u)'
  <2>1. u \in Markers /\ mix' = mix /\ loc' = loc /\ pc[u] \in {"digest_lock", "digest_add"}
        /\ pc'[u] \in {"digest_add", "digest_flag"} /\ file'["DIR"] = file["DIR"]
    BY <1>21 DEF DigestLock, DigestAdd, Types, Files
  <2> QED BY <2>1, <1>j, <1>v DEF Flagging
<1>24. ASSUME NEW u \in Procs, DigestClear(u) PROVE MarkerPlace(u)'
  <2>1. u \in Markers /\ mix' = mix /\ loc' = loc /\ pc[u] = "digest_clear" /\ pc'[u] = "digest_map"
    BY <1>24 DEF DigestClear, Types
  <2>2. SameIds("DIR")
    BY <1>24, <2>1, <1>u, SetFlagFiles DEF DigestClear, Flagging
  <2> QED BY <2>1, <2>2, <1>v DEF Flagging
<1>25. ASSUME NEW u \in Procs, DigestMap(u) PROVE MarkerPlace(u)'
  <2>1. CASE loc[u].tgt.id \in Ids("DIGEST")
    <3>1. u \in Markers /\ mix' = mix /\ pc[u] = "digest_map" /\ pc'[u] = "digest_shift" /\ file' = file
      BY <1>25, <2>1 DEF DigestMap, Types
    <3>2. loc'[u].ent = loc[u].ent /\ loc'[u].tgt = loc[u].tgt
      BY <1>25, <2>1 DEF DigestMap, Types, Local
    <3> QED BY <3>1, <3>2, <1>i, <1>v DEF Flagging
  <2>2. CASE loc[u].tgt.id \notin Ids("DIGEST")
    BY <1>25, <2>2, <1>e DEF DigestMap, Finish
  <2> QED BY <2>1, <2>2
<1>26. ASSUME NEW u \in Procs, DigestShift(u) PROVE MarkerPlace(u)'
  <2> DEFINE hits == {i \in 1 .. loc[u].size : View("DIGEST", loc[u].size)[i].id = loc[u].tgt.id}
  <2>1. CASE hits = {}
    <3>1. Goto(u, "done")
      BY <1>26, <2>1 DEF DigestShift, Finish
    <3> QED BY <3>1, <1>e
  <2>2. CASE hits # {}
    <3>1. u \in Markers /\ mix' = mix /\ loc' = loc /\ pc[u] = "digest_shift" /\ pc'[u] = "digest_cut"
          /\ file'["DIR"] = file["DIR"]
      BY <1>26, <2>2 DEF DigestShift, Types, Files
    <3>2. loc[u].size \in Nat /\ loc[u].size >= 1
      BY <2>2, LocalFacts DEF Types
    <3> QED BY <3>1, <3>2, <1>j, <1>v DEF Flagging
  <2> QED BY <2>1, <2>2
<1>28. ASSUME NEW q \in Procs, Post(q) PROVE q \notin Managers /\ q \notin Markers
  BY <1>28, Jobs3 DEF Post
<1>29. CASE UNCHANGED vars
  <2>1. Managers' = Managers /\ Markers' = Markers /\ \A p \in Procs : Source(p)' = Source(p) /\ Flag(p)' = Flag(p)
    BY <1>29, Same DEF vars
  <2>2. \A m \in Managers : ManagerPlace(m)'
    BY <1>29, <1>s, <2>1 DEF vars, ManagerPlace, TakesOut
  <2>3. \A u \in Markers : MarkerPlace(u)'
    BY <1>29, <1>u, <2>1 DEF vars, MarkerPlace
  <2> QED BY <2>1, <2>2, <2>3 DEF PlaceInv
<1>30. ASSUME NEW p \in Procs, Range_(p) PROVE PlaceInv'
  <2>1. ManagerPlace(p)' /\ p \in Managers
    <3>1. p \in Managers
      BY <1>30 DEF Range_, Choose, Stat, Insist, GiveUp, LockSource, LockBin, TakeOut, Original,
                   OriginalLock, OriginalFlag, OriginalsDone, Compact, Tokens, Fault
    <3> QED BY <3>1, <1>30, <1>1, <1>2, <1>4, <1>5, <1>6, <1>7, <1>8, <1>9, <1>10, <1>11, <1>12 DEF Range_
  <2> QED BY <1>30, <2>1, <1>s, PlaceFrame
<1>31. ASSUME NEW p \in Procs, SetsFlag(p) PROVE PlaceInv'
  <2>1. MarkerPlace(p)' /\ p \in Markers
    <3>1. p \in Markers
      BY <1>31 DEF SetsFlag, Toggle, FlagMap, FlagLock, FlagFind, FlagMark, DigestLock, DigestAdd, DigestFlag,
                   DigestClear, DigestMap, DigestShift, DigestCut
    <3> QED BY <3>1, <1>31, <1>15, <1>18, <1>20, <1>21, <1>24, <1>25, <1>26 DEF SetsFlag
  <2> QED BY <1>31, <2>1, <1>u, PlaceFrame
<1>32. ASSUME NEW p \in Procs, Post(p) PROVE PlaceInv'
  BY <1>28, <1>32, PlaceFrame
<1> QED BY <1>29, <1>30, <1>31, <1>32 DEF Next

LEMMA InitFiles ==
  ASSUME Init
  PROVE  /\ Types /\ posted = Old
         /\ Len(file["DIR"]) = Old /\ DOMAIN file["DIR"] = 1 .. Old
         /\ \A i \in 1 .. Old : /\ file["DIR"][i].id = i /\ ~file["DIR"][i].marked
                                /\ file["DIR"][i].digest <=> i \in mix.digested
         /\ mix.digested \subseteq Ids("DIGEST") /\ file["DELETED"] = <<>>
         /\ \A p \in Procs : pc[p] = "idle" /\ loc[p] = Fresh
         /\ \A f \in Files : holder[f] = Nobody
<1> DEFINE dir == [i \in 1 .. Old |-> [New(i) EXCEPT !.digest = i \in mix.digested]]
           ids == InOrder(mix.digested)
           dig == [k \in DOMAIN ids |-> New(ids[k])]
<1>0. Old \in Nat /\ mix \in Mixes /\ mix \in Mix /\ mix.digested \in SUBSET (1 .. Old)
  <2>1. mix \in Mixes /\ mix \in Mix
    BY NoJobs DEF Init
  <2> QED BY <2>1, OldAssumption DEF Mix
<1>1. /\ file = [f \in Files |-> CASE f = "DIR" -> dir [] f = "DIGEST" -> dig [] f = "DELETED" -> <<>>]
  BY DEF Init
<1>2. \A i \in 1 .. Old : dir[i] \in Entry /\ dir[i].id = i /\ ~dir[i].marked /\ (dir[i].digest <=> i \in mix.digested)
  <2> SUFFICES ASSUME NEW i \in 1 .. Old
               PROVE  dir[i] \in Entry /\ dir[i].id = i /\ ~dir[i].marked /\ (dir[i].digest <=> i \in mix.digested)
    OBVIOUS
  <2> DEFINE e == New(i)  b == i \in mix.digested
  <2>1. i \in Nat /\ e \in Entry /\ e.id = i /\ ~e.marked
    BY <1>0, EntryFacts DEF New
  <2>2. dir[i] = [e EXCEPT !.digest = b] /\ b \in BOOLEAN
    OBVIOUS
  <2> HIDE DEF e, b, dir
  <2>3. dir[i] \in Entry /\ dir[i].id = e.id /\ dir[i].marked = e.marked /\ dir[i].digest = b
    BY <2>1, <2>2 DEF Entry
  <2> QED BY <2>1, <2>3 DEF b
<1>3. dir \in Seq(Entry) /\ Len(dir) = Old /\ DOMAIN dir = 1 .. Old
  <2>1. dir \in [1 .. Old -> Entry]
    BY <1>2
  <2> HIDE DEF dir
  <2> QED BY <1>0, <2>1, FunSeq
<1>4. /\ Len(ids) \in Nat /\ DOMAIN ids = 1 .. Len(ids) /\ \A k \in DOMAIN ids : ids[k] \in mix.digested
      /\ \A x \in mix.digested : \E k \in DOMAIN ids : ids[k] = x
  BY <1>0, Ordered
<1>5. dig \in Seq(Entry) /\ DOMAIN dig = DOMAIN ids /\ \A k \in DOMAIN ids : dig[k] = New(ids[k])
  <2> HIDE DEF ids
  <2>1. \A k \in DOMAIN ids : New(ids[k]) \in Entry
    BY <1>0, <1>4, EntryFacts
  <2>2. dig \in [1 .. Len(ids) -> Entry]
    BY <1>4, <2>1
  <2> QED BY <1>4, <2>2, FunSeq
<1> HIDE DEF dir, dig, ids
<1>6. /\ "DIR" \in Files /\ "DIGEST" \in Files /\ "DELETED" \in Files /\ <<>> \in Seq(Entry)
      /\ file["DIR"] = dir /\ file["DIGEST"] = dig /\ file["DELETED"] = <<>>
      /\ file \in [Files -> Seq(Entry)]
  <2>1. dir \in Seq(Entry) /\ dig \in Seq(Entry) /\ <<>> \in Seq(Entry)
    BY <1>3, <1>5
  <2> QED BY <1>1, <2>1 DEF Files
<1>7. Types
  <2>1. "idle" \in Stages /\ posted \in Nat
    BY <1>0 DEF Stages, Init
  <2> QED BY <1>0, <1>6, <2>1, FreshType DEF Types, Init
<1>8. mix.digested \subseteq Ids("DIGEST")
  <2>1. ASSUME NEW x \in mix.digested PROVE x \in Ids("DIGEST")
    <3>1. PICK k \in DOMAIN ids : ids[k] = x
      BY <1>4
    <3>2. dig[k].id = x /\ dig[k] \in Range(dig)
      BY <1>0, <1>5, <3>1, EntryFacts DEF Range
    <3> QED BY <1>6, <3>2 DEF Ids
  <2> QED BY <2>1
<1>9. /\ \A p \in Procs : pc[p] = "idle" /\ loc[p] = Fresh
      /\ \A f \in Files : holder[f] = Nobody
      /\ posted = Old
  BY DEF Init
<1> QED BY <1>2, <1>3, <1>6, <1>7, <1>8, <1>9

CoreInv == Types /\ LockInv /\ PlaceInv

LEMMA InitCore == Init => CoreInv
<1> SUFFICES ASSUME Init PROVE CoreInv
  OBVIOUS
<1>1. Types /\ \A p \in Procs : pc[p] = "idle" /\ \A f \in Files : holder[f] # p
  BY InitFiles, NobodyAssumption
<1>2. LockInv
  BY <1>1, Jobs3 DEF LockInv, OnSource, Flagging
<1>3. PlaceInv
  BY <1>1, Jobs3 DEF PlaceInv, ManagerPlace, MarkerPlace, Flagging
<1> QED BY <1>1, <1>2, <1>3 DEF CoreInv

LEMMA CoreStep == CoreInv /\ [Next]_vars => CoreInv'
BY TypesStep, LockStep, PlaceStep DEF CoreInv

(* Types of the variables, and: a process that is done, or asks its user,  *)
(* has given back every lock of an index file (bm.c, delete_range_base,    *)
(* change_post_flag).                                                      *)
THEOREM RangeTypeCorrect == Spec => []TypeOK
<1>1. CoreInv => TypeOK
  <2> SUFFICES ASSUME CoreInv PROVE TypeOK
    OBVIOUS
  <2>1. ASSUME NEW f \in Files, holder[f] # Nobody PROVE pc[holder[f]] \notin {"idle", "refused", "done"}
    <3>1. holder[f] \in Procs
      BY <2>1 DEF CoreInv, Types
    <3>2. MayHold(holder[f], f)
      BY <3>1 DEF CoreInv, LockInv
    <3> QED BY <3>2 DEF MayHold, OnSource, Flagging
  <2> QED BY <2>1 DEF CoreInv, Types, TypeOK
<1> QED BY <1>1, InitCore, CoreStep, PTL DEF Spec

-----------------------------------------------------------------------------
(* Taking out and moving together.                                         *)

LEMMA DirFacts ==
  ASSUME Types, NEW f \in Files
  PROVE  /\ file[f] \in Seq(Entry) /\ Len(file[f]) \in Nat /\ DOMAIN file[f] = 1 .. Len(file[f])
         /\ \A i \in DOMAIN file[f] : file[f][i] \in Entry /\ file[f][i].id \in Nat
         /\ \A x : x \in Ids(f) <=> \E i \in DOMAIN file[f] : file[f][i].id = x
<1>1. /\ file[f] \in Seq(Entry) /\ Len(file[f]) \in Nat /\ DOMAIN file[f] = 1 .. Len(file[f])
      /\ \A i \in DOMAIN file[f] : file[f][i] \in Entry
  BY DEF Types
<1>2. \A x : x \in Ids(f) <=> \E i \in DOMAIN file[f] : file[f][i].id = x
  BY DEF Ids, Range
<1> QED BY <1>1, <1>2, EntryFacts

LEMMA SizeFacts ==
  ASSUME Types, NEW p \in Procs
  PROVE  /\ loc[p] \in Local /\ loc[p].size \in Nat /\ loc[p].ent \in Nat /\ loc[p].from \in Nat
         /\ loc[p].tgt \in Entry /\ loc[p].tgt.id \in Nat /\ loc[p].todo \in SUBSET Nat
         /\ loc[p].sel \in SUBSET (Nat \ {0})
<1>1. loc[p] \in Local
  BY DEF Types
<1> QED BY <1>1, LocalFacts, EntryFacts

(* The ids of what a manager takes out.                                    *)
LEMMA TakenFacts ==
  ASSUME Types, NEW m \in Managers, loc[m].sel \subseteq 1 .. loc[m].size
  PROVE  /\ \A x : x \in TakenOut(m) /\ x # 0 =>
              \E i \in DOMAIN file[Source(m)] : i \in loc[m].sel /\ file[Source(m)][i].id = x
         /\ \A i \in DOMAIN file[Source(m)] : i \in loc[m].sel => file[Source(m)][i].id \in TakenOut(m)
<1> DEFINE d == file[Source(m)]  n == loc[m].size  view == View(Source(m), n)
<1>1. Source(m) \in Files /\ m \in Procs /\ n \in Nat
  BY RangeFacts, SizeFacts
<1>2. d \in Seq(Entry) /\ Len(d) \in Nat /\ DOMAIN d = 1 .. Len(d)
  BY <1>1, DirFacts
<1>3. \A i \in 1 .. n : /\ i <= Len(d) => view[i] = d[i]
                        /\ i > Len(d) => view[i] = Zero
  <2>1. file \in [Files -> Seq(Entry)] /\ n \in Int
    BY <1>1 DEF Types
  <2> QED BY <1>1, <2>1, Viewed
<1>4. TakenOut(m) = {view[i].id : i \in loc[m].sel}
  BY DEF TakenOut
<1> HIDE DEF view, d, n
<1>5. ASSUME NEW x, x \in TakenOut(m), x # 0
      PROVE  \E i \in DOMAIN d : i \in loc[m].sel /\ d[i].id = x
  <2>1. PICK i \in loc[m].sel : view[i].id = x
    BY <1>4, <1>5
  <2>2. i \in 1 .. n /\ i \in Nat
    BY <1>1 DEF n
  <2>3. i <= Len(d)
    BY <1>2, <1>3, <1>5, <2>1, <2>2, EntryFacts
  <2> QED BY <1>2, <1>3, <2>1, <2>2, <2>3
<1>6. ASSUME NEW i \in DOMAIN d, i \in loc[m].sel PROVE d[i].id \in TakenOut(m)
  <2>1. i \in 1 .. n /\ i <= Len(d)
    BY <1>1, <1>2, <1>6 DEF n
  <2> QED BY <1>3, <1>4, <1>6, <2>1
<1> QED BY <1>5, <1>6 DEF d

LEMMA Compaction ==
  ASSUME CoreInv, NEW m \in Managers, Compact(m), NEW f, f = Source(m)
  PROVE  /\ f \in Files /\ SameElse(f) /\ holder[f] = m /\ TakesOut(m)
         /\ loc[m].sel \subseteq 1 .. loc[m].size
         /\ \A k \in DOMAIN file'[f] :
              \/ file'[f][k].id = 0 /\ ~file'[f][k].digest /\ loc[m].size > Len(file[f])
              \/ \E i \in DOMAIN file[f] :
                   /\ i \notin loc[m].sel /\ i <= loc[m].size /\ k <= i
                   /\ file'[f][k].id = file[f][i].id /\ file'[f][k].digest = file[f][i].digest
         /\ Once(f) => Once(f)'
         /\ \A i \in DOMAIN file[f] : i \notin loc[m].sel /\ i <= loc[m].size =>
              \E k \in DOMAIN file'[f] : file'[f][k].id = file[f][i].id
<1> DEFINE d == file[f]  n == loc[m].size  view == View(Source(m), n)
           new == Compacted(m)  kept == InOrder((1 .. n) \ loc[m].sel)
<1>0. Types /\ m \in Procs /\ f \in Files /\ n \in Nat /\ pc[m] = "compact" /\ ManagerPlace(m)
  BY RangeFacts, SizeFacts DEF CoreInv, PlaceInv, Compact
<1>1. holder[f] = m /\ TakesOut(m) /\ loc[m].sel \subseteq 1 .. n
  BY <1>0 DEF CoreInv, LockInv, OnSource, ManagerPlace
<1>2. file'[f] = new /\ SameElse(f)
  BY <1>0 DEF Compact, Types, SameElse
<1>3. d \in Seq(Entry) /\ Len(d) \in Nat /\ DOMAIN d = 1 .. Len(d)
  BY <1>0, DirFacts
<1>4. \A i \in 1 .. n : /\ i <= Len(d) => view[i] = d[i]
                        /\ i > Len(d) => view[i] = Zero
  BY <1>0, Viewed DEF Types
<1>5. /\ DOMAIN new = DOMAIN kept /\ DOMAIN kept = 1 .. Len(kept) /\ Len(kept) \in Nat
      /\ \A k \in DOMAIN new :
           /\ kept[k] \in (1 .. n) \ loc[m].sel /\ k <= kept[k]
           /\ new[k].id = view[kept[k]].id /\ new[k].marked = view[kept[k]].marked
           /\ new[k].digest = view[kept[k]].digest
      /\ \A i, j \in DOMAIN new : i < j => kept[i] < kept[j]
      /\ \A i \in (1 .. n) \ loc[m].sel : \E k \in DOMAIN new : kept[k] = i
  BY <1>0, CompactedFacts
<1> HIDE DEF d, n, view, new, kept
<1>6. ASSUME NEW k \in DOMAIN new
      PROVE  \/ new[k].id = 0 /\ ~new[k].digest /\ n > Len(d)
             \/ \E i \in DOMAIN d : /\ i \notin loc[m].sel /\ i <= n /\ k <= i
                                    /\ new[k].id = d[i].id /\ new[k].digest = d[i].digest
  <2> DEFINE i == kept[k]
  <2>1. i \in 1 .. n /\ i \notin loc[m].sel /\ k <= i
        /\ new[k].id = view[i].id /\ new[k].marked = view[i].marked /\ new[k].digest = view[i].digest
    BY <1>5
  <2> HIDE DEF i
  <2>2. i \in Nat /\ i <= n
    BY <1>0, <2>1
  <2>3. CASE i <= Len(d)
    BY <1>3, <1>4, <2>1, <2>2, <2>3
  <2>4. CASE i > Len(d)
    <3>1. n > Len(d)
      BY <1>0, <1>3, <2>2, <2>4 DEF n
    <3> QED BY <1>4, <2>1, <2>4, <3>1, EntryFacts
  <2> QED BY <1>3, <2>2, <2>3, <2>4
<1>7. ASSUME \A i, j \in DOMAIN d : d[i].id = d[j].id /\ d[i].id # 0 => i = j,
             NEW k \in DOMAIN new, NEW l \in DOMAIN new, new[k].id = new[l].id, new[k].id # 0
      PROVE  k = l
  <2> DEFINE i == kept[k]  j == kept[l]
  <2>1. i \in 1 .. n /\ j \in 1 .. n /\ new[k].id = view[i].id /\ new[l].id = view[j].id
    BY <1>5
  <2>2. (k < l => i < j) /\ (l < k => j < i) /\ k \in Nat /\ l \in Nat
    BY <1>5
  <2> HIDE DEF i, j
  <2>0. view[i].id = view[j].id /\ view[i].id # 0
    BY <1>7, <2>1
  <2>3. i \in Nat /\ j \in Nat /\ view[i].id = view[j].id /\ view[i].id # 0
    BY <2>0, <2>1
  <2>4. i \in DOMAIN d /\ view[i] = d[i]
    <3>1. ~(i > Len(d))
      BY <1>4, <2>1, <2>3, EntryFacts
    <3> QED BY <1>3, <1>4, <2>1, <2>3, <3>1
  <2>6. j \in DOMAIN d /\ view[j] = d[j]
    <3>1. ~(j > Len(d))
      BY <1>4, <2>1, <2>3, EntryFacts
    <3> QED BY <1>3, <1>4, <2>1, <2>3, <3>1
  <2>5. i = j /\ i \in Nat
    BY <1>3, <1>7, <2>3, <2>4, <2>6
  <2> QED BY <2>2, <2>5
<1>8. ASSUME NEW i \in DOMAIN d, i \notin loc[m].sel, i <= n
      PROVE  \E k \in DOMAIN new : new[k].id = d[i].id
  <2>1. i \in (1 .. n) \ loc[m].sel /\ i <= Len(d)
    BY <1>0, <1>3, <1>8
  <2> QED BY <1>4, <1>5, <2>1
<1>9. Once(f) <=> \A i, j \in DOMAIN d : d[i].id = d[j].id /\ d[i].id # 0 => i = j
  BY DEF Once, d
<1>10. Once(f)' <=> \A i, j \in DOMAIN new : new[i].id = new[j].id /\ new[i].id # 0 => i = j
  BY <1>2 DEF Once
<1>11. Once(f) => Once(f)'
  BY <1>7, <1>9, <1>10
<1> QED BY <1>0, <1>1, <1>2, <1>6, <1>8, <1>11 DEF d, n

(* What is appended to the bin.                                            *)
LEMMA Taking ==
  ASSUME CoreInv, NEW m \in Managers, TakeOut(m), Source(m) = "DIR"
  PROVE  /\ SameElse("DELETED") /\ HasBin(m) /\ holder["DIR"] = m
         /\ loc'[m].sel = Selected(m) /\ loc'[m].size = loc[m].size /\ loc'[m].mode = loc[m].mode
         /\ loc'[m].over = loc[m].over
         /\ Selected(m) \subseteq 1 .. loc[m].size
         /\ Len(file["DELETED"]) <= Len(file'["DELETED"])
         /\ \A k \in DOMAIN file["DELETED"] : file'["DELETED"][k] = file["DELETED"][k]
         /\ \A i \in Selected(m) : \E k \in DOMAIN file'["DELETED"] :
              file'["DELETED"][k].id = View("DIR", loc[m].size)[i].id
         /\ \A k \in DOMAIN file'["DELETED"] : k > Len(file["DELETED"]) =>
              \E i \in Selected(m) : file'["DELETED"][k].id = View("DIR", loc[m].size)[i].id
         /\ Once("DIR") => \A k, l \in DOMAIN file'["DELETED"] :
              k > Len(file["DELETED"]) /\ l > Len(file["DELETED"])
                /\ file'["DELETED"][k].id = file'["DELETED"][l].id /\ file'["DELETED"][k].id # 0 => k = l
<1> DEFINE d == file["DIR"]  b == file["DELETED"]  n == loc[m].size  view == View("DIR", n)
           out == InOrder(Selected(m))  add == [i \in DOMAIN out |-> view[out[i]]]
<1>0. Types /\ m \in Procs /\ n \in Nat /\ ManagerPlace(m) /\ pc[m] = "take_out"
  BY RangeFacts, SizeFacts DEF CoreInv, PlaceInv, TakeOut
<1>1. TakesOut(m) /\ HasBin(m) /\ holder["DIR"] = m /\ loc[m].from >= 1
  BY <1>0 DEF CoreInv, LockInv, OnSource, ManagerPlace, HasBin
<1>2. Selected(m) \in SUBSET (1 .. n)
  BY <1>0, <1>1, RangeFacts
<1>3. /\ Len(out) \in Nat /\ DOMAIN out = 1 .. Len(out)
      /\ \A i \in DOMAIN out : out[i] \in Selected(m)
      /\ \A x \in Selected(m) : \E i \in DOMAIN out : out[i] = x
      /\ \A i, j \in DOMAIN out : i < j => out[i] < out[j]
  BY <1>0, <1>2, Ordered
<1>4. "DIR" \in Files /\ "DELETED" \in Files /\ "DIGEST" \in Files
  BY DEF Files
<1>5. /\ d \in Seq(Entry) /\ Len(d) \in Nat /\ DOMAIN d = 1 .. Len(d)
      /\ b \in Seq(Entry) /\ Len(b) \in Nat /\ DOMAIN b = 1 .. Len(b)
  BY <1>0, <1>4, DirFacts
<1>6. \A i \in 1 .. n : /\ view[i] \in Entry
                        /\ i <= Len(d) => view[i] = d[i]
                        /\ i > Len(d) => view[i] = Zero
  <2>1. file \in [Files -> Seq(Entry)] /\ n \in Int
    BY <1>0 DEF Types
  <2> QED BY <1>4, <2>1, Viewed
<1>7. file' = [file EXCEPT !["DELETED"] = @ \o add]
  BY <1>1 DEF TakeOut
<1>8. loc'[m].sel = Selected(m) /\ loc'[m].size = n /\ loc'[m].mode = loc[m].mode /\ loc'[m].over = loc[m].over
  <2>1. loc[m] \in Local
    BY <1>0 DEF Types
  <2>2. loc'[m] = [loc[m] EXCEPT !.sel = Selected(m),
                                 !.todo = {View(Source(m), loc[m].size)[i].id : i \in Selected(m)}]
    BY <1>0 DEF TakeOut, Types
  <2> QED BY <2>1, <2>2 DEF Local
<1> HIDE DEF d, b, n, view, out
<1>9. add \in Seq(Entry) /\ Len(add) = Len(out) /\ \A i \in DOMAIN out : add[i] = view[out[i]]
  <2>1. \A i \in DOMAIN out : view[out[i]] \in Entry
    BY <1>2, <1>3, <1>6
  <2>2. add \in [1 .. Len(out) -> Entry]
    BY <1>3, <2>1
  <2>3. add \in Seq(Entry) /\ Len(add) = Len(out)
    <3> HIDE DEF add
    <3> QED BY <1>3, <2>2, FunSeq
  <2> QED BY <2>3
<1> HIDE DEF add
<1>10. file'["DELETED"] = b \o add /\ SameElse("DELETED")
  BY <1>0, <1>4, <1>7 DEF Types, SameElse, b
<1> DEFINE c == b \o add
<1>11. /\ Len(c) = Len(b) + Len(out) /\ DOMAIN c = 1 .. Len(b) + Len(out)
       /\ \A k \in 1 .. Len(b) : c[k] = b[k]
       /\ \A k \in 1 .. Len(out) : c[Len(b) + k] = add[k]
  <2>1. add \in Seq(Entry) /\ b \in Seq(Entry) /\ Len(add) = Len(out) /\ Len(out) \in Nat /\ Len(b) \in Nat
    BY <1>3, <1>5, <1>9
  <2> QED BY <2>1
<1> HIDE DEF c
<1>12. \A k \in DOMAIN c : k > Len(b) =>
         k - Len(b) \in DOMAIN out /\ c[k] = view[out[k - Len(b)]]
  BY <1>3, <1>5, <1>9, <1>11
<1>13. ASSUME NEW i \in Selected(m) PROVE \E k \in DOMAIN c : c[k].id = view[i].id
  <2>1. PICK k \in DOMAIN out : out[k] = i
    BY <1>3
  <2>2. Len(b) + k \in DOMAIN c /\ c[Len(b) + k] = view[i]
    BY <1>3, <1>5, <1>9, <1>11, <2>1
  <2> QED BY <2>2
<1>14. ASSUME Once("DIR"), NEW k \in DOMAIN c, NEW l \in DOMAIN c, k > Len(b), l > Len(b),
              c[k].id = c[l].id, c[k].id # 0
       PROVE  k = l
  <2> DEFINE s == k - Len(b)  t == l - Len(b)  i == out[s]  j == out[t]
  <2>1. s \in DOMAIN out /\ t \in DOMAIN out /\ c[k] = view[i] /\ c[l] = view[j]
    BY <1>12, <1>14
  <2>2. i \in 1 .. n /\ j \in 1 .. n
    BY <1>2, <1>3, <2>1
  <2>3. (s < t => i < j) /\ (t < s => j < i)
    BY <1>3, <2>1
  <2>4. s \in Int /\ t \in Int /\ (s = t => k = l)
    BY <1>5, <1>11
  <2> HIDE DEF s, t, i, j
  <2>5. i <= Len(d) /\ j <= Len(d)
    BY <1>0, <1>5, <1>6, <1>14, <2>1, <2>2, EntryFacts
  <2>6. i \in DOMAIN d /\ j \in DOMAIN d /\ d[i].id = d[j].id /\ d[i].id # 0
    BY <1>0, <1>5, <1>6, <1>14, <2>1, <2>2, <2>5
  <2>7. i = j /\ i \in Nat
    BY <1>5, <1>14, <2>6 DEF Once, d
  <2> QED BY <2>3, <2>4, <2>7
<1>15. Len(b) <= Len(c) /\ \A k \in DOMAIN b : c[k] = b[k]
  BY <1>3, <1>5, <1>11
<1>16. file'["DELETED"] = c
  BY <1>10 DEF c
<1>17. \A k \in DOMAIN c : k > Len(b) => \E i \in Selected(m) : c[k].id = view[i].id
  BY <1>3, <1>12
<1>18. SameElse("DELETED") /\ HasBin(m) /\ holder["DIR"] = m /\ Selected(m) \subseteq 1 .. loc[m].size
  BY <1>1, <1>2, <1>10 DEF n
<1>19. loc'[m].size = loc[m].size
  BY <1>8 DEF n
<1> USE DEF b, view, n
<1> QED BY <1>8, <1>13, <1>14, <1>15, <1>16, <1>17, <1>18, <1>19

-----------------------------------------------------------------------------
(* How a manager goes on.                                                  *)

LEMMA ManagerMoves ==
  ASSUME CoreInv, NEW p \in Procs, Range_(p) \/ SetsFlag(p) \/ Post(p), NEW m \in Managers
  PROVE  /\ m \in Managers' /\ Source(m)' = Source(m) /\ m \in Procs
         /\ m # p => pc'[m] = pc[m] /\ loc'[m] = loc[m]
         /\ pc'[m] \in Going =>
              \/ loc'[m].size = Len(file[Source(m)]) /\ file' = file
              \/ pc[m] \in Going /\ loc'[m].size = loc[m].size /\ loc'[m].mode = loc[m].mode
         /\ pc'[m] = "tokens" => pc[m] \in Going \cup {"tokens"} /\ loc'[m].size = loc[m].size
         /\ pc'[m] = "compact" /\ pc[m] # "compact" => m = p /\ (TakeOut(m) \/ OriginalsDone(m))
         /\ pc[m] = "compact" /\ pc'[m] # "compact" => m = p /\ Compact(m)
         /\ pc[m] = "compact" /\ pc'[m] = "compact" => m # p
<1> USE DEF Goto
<1>0. m \in Procs /\ m \notin Markers /\ m \notin Posters /\ Types
  BY Jobs3 DEF CoreInv
<1>1. Only(p) /\ mix' = mix
  BY <1>0, OneMoves DEF Only
<1>2. m \in Managers' /\ Source(m)' = Source(m)
  BY <1>0, <1>1, Same
<1>3. m # p => pc'[m] = pc[m] /\ loc'[m] = loc[m]
  BY <1>0, <1>1 DEF Only
<1>4. CASE m # p
  BY <1>0, <1>2, <1>3, <1>4
<1>5. CASE m = p
  <2>0. Range_(m) /\ loc[m] \in Local
    BY <1>0, <1>5 DEF SetsFlag, Post, Toggle, FlagMap, FlagLock, FlagFind, FlagMark, DigestLock, DigestAdd,
                      DigestFlag, DigestClear, DigestMap, DigestShift, DigestCut, Types
  <2>1. CASE Choose(m) \/ Insist(m) \/ GiveUp(m) \/ Tokens(m) \/ Fault(m)
    <3>1. pc'[m] \in {"stat", "done"} /\ pc[m] # "compact"
      BY <1>0, <2>1 DEF Choose, Insist, GiveUp, Tokens, Fault, Types
    <3> QED BY <1>0, <1>2, <1>5, <3>1 DEF Going
  <2>2. CASE Stat(m)
    <3>1. pc'[m] \in {"lock", "refused"} /\ pc[m] = "stat" /\ file' = file
      BY <1>0, <2>2 DEF Stat, Types
    <3>2. loc'[m].size = Len(file[Source(m)])
      BY <1>0, <2>0, <2>2 DEF Stat, Types, Local
    <3> QED BY <1>0, <1>2, <1>5, <3>1, <3>2 DEF Going
  <2>3. CASE LockSource(m)
    <3>1. pc[m] = "lock" /\ pc'[m] # "compact" /\ (pc'[m] \in Going \cup {"tokens"} => loc' = loc)
      BY <1>0, <2>3 DEF LockSource, Types, Going
    <3> QED BY <1>0, <1>2, <1>5, <3>1 DEF Going
  <2>4. CASE LockBin(m) \/ OriginalLock(m) \/ OriginalsDone(m)
    <3>1. pc[m] \in Going \ {"compact"} /\ pc'[m] \in Going /\ loc' = loc /\ (pc'[m] = "compact" => OriginalsDone(m))
      BY <1>0, <2>4 DEF LockBin, OriginalLock, OriginalsDone, Types, Going
    <3> QED BY <1>0, <1>2, <1>5, <3>1
  <2>5. CASE TakeOut(m)
    <3>1. pc[m] = "take_out"
      BY <2>5 DEF TakeOut
    <3>2. loc'[m].size = loc[m].size /\ loc'[m].mode = loc[m].mode
      <4>1. loc'[m] = [loc[m] EXCEPT !.sel = Selected(m),
                                     !.todo = {View(Source(m), loc[m].size)[i].id : i \in Selected(m)}]
        BY <1>0, <2>5 DEF TakeOut, Types
      <4> QED BY <2>0, <4>1 DEF Local
    <3> QED BY <1>0, <1>2, <1>5, <2>5, <3>1, <3>2 DEF Going
  <2>6. CASE Original(m) \/ OriginalFlag(m)
    <3>1. pc[m] \in {"originals", "orig_flag"} /\ pc'[m] \in {"originals", "orig_lock"}
      BY <1>0, <2>6 DEF Original, OriginalFlag, Types
    <3>2. loc'[m].size = loc[m].size /\ loc'[m].mode = loc[m].mode
      BY <1>0, <2>0, <2>6 DEF Original, OriginalFlag, Types, Local
    <3> QED BY <1>0, <1>2, <1>5, <3>1, <3>2 DEF Going
  <2>7. CASE Compact(m)
    <3>1. pc'[m] = "done"
      BY <1>0, <2>7 DEF Compact, Types
    <3> QED BY <1>0, <1>2, <1>5, <2>7, <3>1 DEF Going
  <2> QED BY <2>0, <2>1, <2>2, <2>3, <2>4, <2>5, <2>6, <2>7 DEF Range_
<1> QED BY <1>4, <1>5

(* Entries of a file only move up, or are emptied.                         *)
Upward(f) == \A k \in DOMAIN file'[f] :
  file'[f][k].id = 0 \/ \E i \in DOMAIN file[f] : k <= i /\ file'[f][k].id = file[f][i].id

LEMMA CoversStep ==
  ASSUME CoreInv, CoreInv', NEW p \in Procs, Range_(p) \/ SetsFlag(p) \/ Post(p),
         NEW m \in Managers, Covers(m), Upward(Source(m))
  PROVE  Covers(m)'
<1> DEFINE f == Source(m)  d == file[f]  e == file'[f]
<1>0. /\ m \in Procs /\ f \in Files /\ Types /\ Types'
  BY RangeFacts DEF CoreInv
<1>1. /\ Source(m)' = f
      /\ pc'[m] \in Going =>
           \/ loc'[m].size = Len(d) /\ file' = file
           \/ pc[m] \in Going /\ loc'[m].size = loc[m].size /\ loc'[m].mode = loc[m].mode
  BY ManagerMoves
<1>2. d \in Seq(Entry) /\ Len(d) \in Nat /\ DOMAIN d = 1 .. Len(d)
  BY <1>0, DirFacts
<1>3. e \in Seq(Entry) /\ Len(e) \in Nat /\ DOMAIN e = 1 .. Len(e) /\ loc[m].size \in Nat
  BY <1>0, SizeFacts DEF Types
<1> HIDE DEF f, d, e
<1>4. ASSUME pc'[m] \in Going, TakesOut(m)', NEW k \in DOMAIN e, k > loc'[m].size
      PROVE  e[k].id = 0
  <2>1. CASE loc'[m].size = Len(d) /\ file' = file
    BY <1>2, <1>4, <2>1 DEF d, e
  <2>2. CASE pc[m] \in Going /\ loc'[m].size = loc[m].size /\ loc'[m].mode = loc[m].mode
    <3>1. TakesOut(m)
      BY <1>4, <2>2 DEF TakesOut
    <3>2. \A i \in DOMAIN d : i > loc[m].size => d[i].id = 0
      BY <2>2, <3>1 DEF Covers, d, f
    <3>3. e[k].id = 0 \/ \E i \in DOMAIN d : k <= i /\ e[k].id = d[i].id
      BY DEF Upward, d, e, f
    <3> QED BY <1>2, <1>3, <1>4, <2>2, <3>2, <3>3
  <2> QED BY <1>1, <1>4, <2>1, <2>2
<1>5. (pc'[m] \in Going /\ TakesOut(m)') => \A k \in DOMAIN file'[Source(m)'] : k > loc'[m].size => file'[Source(m)'][k].id = 0
  BY <1>1, <1>4 DEF e, f
<1> QED BY <1>5 DEF Covers, Going

LEMMA UpwardMoves ==
  ASSUME CoreInv, NEW f \in Files
  PROVE  /\ SameIds(f) => Upward(f)
         /\ file'[f] = file[f] => Upward(f)
         /\ \A m \in Managers : Source(m) = f /\ Compact(m) => Upward(f)
<1>1. DOMAIN file[f] \subseteq Nat
  BY DirFacts DEF CoreInv
<1>2. SameIds(f) => Upward(f)
  BY <1>1 DEF SameIds, Upward
<1>3. file'[f] = file[f] => Upward(f)
  BY <1>1 DEF Upward
<1>4. ASSUME NEW m \in Managers, Source(m) = f, Compact(m) PROVE Upward(f)
  BY <1>4, Compaction DEF Upward
<1> QED BY <1>2, <1>3, <1>4

(* Only who takes articles out of .DIR changes the bin.                    *)
LEMMA BinKinds ==
  ASSUME CoreInv, NEW p \in Procs, Range_(p) \/ SetsFlag(p) \/ Post(p),
         ~(p \in Managers /\ Source(p) = "DIR" /\ TakeOut(p))
  PROVE  file'["DELETED"] = file["DELETED"]
<1>0. Types /\ "DIR" \in Files /\ "DIGEST" \in Files /\ "DELETED" \in Files
  BY DEF CoreInv, Files
<1>1. \A f \in Files \ {"DELETED"} : SameElse(f) => file'["DELETED"] = file["DELETED"]
  BY <1>0 DEF SameElse
<1>2. CASE TakeOut(p)
  BY <1>2 DEF TakeOut, HasBin
<1>3. CASE Compact(p)
  BY <1>1, <1>3, Compaction, RangeFacts, <1>0 DEF Compact
<1>4. CASE Tokens(p)
  BY <1>0, <1>1, <1>4, TokensFiles, RangeFacts DEF Tokens
<1>5. CASE OriginalFlag(p)
  BY <1>0, <1>1, <1>5, OriginalFlagFiles
<1>6. CASE FlagMark(p) \/ DigestFlag(p) \/ DigestClear(p)
  BY <1>0, <1>6 DEF FlagMark, DigestFlag, DigestClear, SetFlag, Types
<1>7. CASE DigestAdd(p) \/ DigestShift(p) \/ DigestCut(p) \/ Post(p)
  <2>1. CASE DigestAdd(p)
    BY <1>0, <2>1 DEF DigestAdd, Types
  <2>2. CASE DigestShift(p)
    BY <1>0, <2>2 DEF DigestShift, Types
  <2>3. CASE DigestCut(p)
    BY <1>0, <2>3 DEF DigestCut, Types
  <2>4. CASE Post(p)
    BY <1>0, <2>4 DEF Post, Types
  <2> QED BY <1>7, <2>1, <2>2, <2>3, <2>4
<1>8. ASSUME \/ Choose(p) \/ Stat(p) \/ Insist(p) \/ GiveUp(p) \/ LockSource(p) \/ LockBin(p)
             \/ Original(p) \/ OriginalLock(p) \/ OriginalsDone(p) \/ Fault(p)
             \/ Toggle(p) \/ FlagMap(p) \/ FlagLock(p) \/ FlagFind(p) \/ DigestLock(p) \/ DigestMap(p)
      PROVE  file' = file
  BY <1>8 DEF Choose, Stat, Insist, GiveUp, LockSource, LockBin, Original, OriginalLock, OriginalsDone,
               Fault, Toggle, FlagMap, FlagLock, FlagFind, DigestLock, DigestMap
<1> QED BY <1>2, <1>3, <1>4, <1>5, <1>6, <1>7, <1>8 DEF Range_, SetsFlag

-----------------------------------------------------------------------------
(* Every article once.                                                     *)

LEMMA IdsMoves ==
  ASSUME CoreInv, NEW f \in Files
  PROVE  /\ \A x : x \in Ids(f)' <=> \E i \in DOMAIN file'[f] : file'[f][i].id = x
         /\ \A x : x \in Ids(f) <=> \E i \in DOMAIN file[f] : file[f][i].id = x
         /\ SameIds(f) => Ids(f)' = Ids(f) /\ (Once(f) => Once(f)')
         /\ file'[f] = file[f] => Ids(f)' = Ids(f) /\ (Once(f) => Once(f)')
         /\ Upward(f) => Ids(f)' \subseteq Ids(f) \cup {0}
<1>1. \A x : x \in Ids(f)' <=> \E i \in DOMAIN file'[f] : file'[f][i].id = x
  BY DEF Ids, Range
<1>2. \A x : x \in Ids(f) <=> \E i \in DOMAIN file[f] : file[f][i].id = x
  BY DEF Ids, Range
<1>3. ASSUME SameIds(f) PROVE Ids(f)' = Ids(f) /\ (Once(f) => Once(f)')
  <2>1. \A x : x \in Ids(f)' <=> x \in Ids(f)
    BY <1>1, <1>2, <1>3 DEF SameIds
  <2>2. Ids(f)' = Ids(f)
    BY <2>1
  <2> QED BY <1>3, <2>2 DEF SameIds, Once
<1>4. ASSUME file'[f] = file[f] PROVE Ids(f)' = Ids(f) /\ (Once(f) => Once(f)')
  BY <1>4 DEF Ids, Once
<1>5. ASSUME Upward(f) PROVE Ids(f)' \subseteq Ids(f) \cup {0}
  BY <1>1, <1>2, <1>5 DEF Upward
<1> QED BY <1>1, <1>2, <1>3, <1>4, <1>5

LEMMA PostFacts ==
  ASSUME CoreInv, NEW q \in Procs, Post(q)
  PROVE  /\ posted' = posted + 1 /\ posted \in Nat /\ q \in Posters /\ holder["DIR"] = Nobody
         /\ Len(file'["DIR"]) = Len(file["DIR"]) + 1 /\ DOMAIN file'["DIR"] = 1 .. Len(file["DIR"]) + 1
         /\ \A i \in DOMAIN file["DIR"] : i \in DOMAIN file'["DIR"] /\ file'["DIR"][i] = file["DIR"][i]
         /\ file'["DIR"][Len(file["DIR"]) + 1] = New(posted + 1)
         /\ New(posted + 1).id = posted + 1 /\ ~New(posted + 1).digest
         /\ Ids("DIR")' = Ids("DIR") \cup {posted + 1}
         /\ SameElse("DIR") /\ mix' = mix /\ loc' = loc /\ holder' = holder
<1> DEFINE d == file["DIR"]  e == file'["DIR"]  new == New(posted + 1)
<1>0. "DIR" \in Files /\ Types
  BY DEF CoreInv, Files
<1>1. posted' = posted + 1 /\ posted \in Nat /\ q \in Posters /\ holder["DIR"] = Nobody
      /\ SameElse("DIR") /\ mix' = mix /\ loc' = loc /\ holder' = holder
  BY <1>0 DEF Post, Types, SameElse
<1>2. d \in Seq(Entry) /\ Len(d) \in Nat /\ DOMAIN d = 1 .. Len(d)
  BY <1>0, DirFacts
<1>3. new \in Entry /\ new.id = posted + 1 /\ ~new.digest
  BY <1>1, EntryFacts
<1>4. e = Append(d, new)
  BY <1>0 DEF Post, Types
<1> HIDE DEF d, e, new
<1>5. /\ Len(e) = Len(d) + 1 /\ DOMAIN e = 1 .. Len(d) + 1
      /\ \A i \in 1 .. Len(d) : e[i] = d[i]
      /\ e[Len(d) + 1] = new
  BY <1>2, <1>3, <1>4
<1>6. \A i \in DOMAIN d : i \in DOMAIN e /\ e[i] = d[i]
  BY <1>2, <1>5
<1>7. \A x : x \in Ids("DIR")' <=> x \in Ids("DIR") \/ x = posted + 1
  <2>1. /\ \A x : x \in Ids("DIR")' <=> \E i \in DOMAIN e : e[i].id = x
        /\ \A x : x \in Ids("DIR") <=> \E i \in DOMAIN d : d[i].id = x
    BY <1>0, IdsMoves DEF d, e
  <2>2. \A i \in DOMAIN e : i \in DOMAIN d \/ i = Len(d) + 1
    BY <1>2, <1>5
  <2>3. Len(d) + 1 \in DOMAIN e
    BY <1>2, <1>5
  <2> QED BY <1>3, <1>5, <1>6, <2>1, <2>2, <2>3
<1>8. Ids("DIR")' = Ids("DIR") \cup {posted + 1}
  BY <1>7
<1> QED BY <1>1, <1>2, <1>3, <1>5, <1>6, <1>8 DEF d, e, new

LEMMA OnceStep ==
  ASSUME CoreInv, OnceInv, NEW p \in Procs, Range_(p) \/ SetsFlag(p) \/ Post(p)
  PROVE  OnceInv'
<1>0. "DIR" \in Files /\ Types
  BY DEF CoreInv, Files
<1>1. CASE SameIds("DIR") /\ posted' = posted
  BY <1>0, <1>1, IdsMoves DEF OnceInv
<1>2. CASE p \in Managers /\ Source(p) = "DIR" /\ Compact(p) /\ posted' = posted
  <2>1. Once("DIR")'
    BY <1>2, Compaction DEF OnceInv
  <2>2. Ids("DIR")' \subseteq Ids("DIR") \cup {0}
    BY <1>0, <1>2, UpwardMoves, IdsMoves
  <2>3. 0 \in 0 .. posted
    BY <1>0 DEF Types
  <2> QED BY <1>2, <2>1, <2>2, <2>3 DEF OnceInv
<1>3. CASE Post(p)
  <2> DEFINE d == file["DIR"]  e == file'["DIR"]
  <2>1. /\ posted' = posted + 1 /\ posted \in Nat /\ Ids("DIR")' = Ids("DIR") \cup {posted + 1}
        /\ DOMAIN e = 1 .. Len(d) + 1 /\ \A i \in DOMAIN d : e[i] = d[i]
        /\ e[Len(d) + 1].id = posted + 1
    BY <1>3, PostFacts
  <2>2. d \in Seq(Entry) /\ Len(d) \in Nat /\ DOMAIN d = 1 .. Len(d)
    BY <1>0, DirFacts
  <2>3. \A i \in DOMAIN d : d[i].id \in 0 .. posted
    BY <1>0, DirFacts DEF OnceInv
  <2>4. \A i, j \in DOMAIN d : d[i].id = d[j].id /\ d[i].id # 0 => i = j
    BY DEF OnceInv, Once
  <2>5. Ids("DIR") \subseteq 0 .. posted
    BY DEF OnceInv
  <2> HIDE DEF d, e
  <2>6. \A i \in DOMAIN e : i \in DOMAIN d \/ i = Len(d) + 1
    BY <2>1, <2>2
  <2>7. ASSUME NEW i \in DOMAIN e, NEW j \in DOMAIN e, e[i].id = e[j].id, e[i].id # 0 PROVE i = j
    <3>1. \A k \in DOMAIN d : e[k].id # posted + 1
      BY <2>1, <2>3
    <3> QED BY <2>1, <2>4, <2>6, <2>7, <3>1
  <2>8. Once("DIR")'
    BY <2>7 DEF Once, e
  <2>9. Ids("DIR")' \subseteq 0 .. posted'
    BY <2>1, <2>5
  <2> QED BY <2>8, <2>9 DEF OnceInv
<1> QED BY <1>0, <1>1, <1>2, <1>3, DirKinds DEF CoreInv

-----------------------------------------------------------------------------
(* From .DIR to .DELETED.                                                  *)

LEMMA PostBeside ==
  ASSUME CoreInv, NoPostBeside(mix), NEW q \in Procs, Post(q)
  PROVE  /\ \A m \in Managers : Source(m) = "DIR" /\ pc[m] \notin {"idle", "done"} => ~TakesOut(m)
         /\ Moving = {}
<1>1. q \in At(mix, "post")
  BY DEF Post, Posters, At
<1>2. \A m \in Managers : Source(m) = "DIR" => m \in At(mix, "DIR")
  BY DEF Managers, Source, At
<1>3. ASSUME NEW m \in Managers, Source(m) = "DIR", pc[m] \notin {"idle", "done"} PROVE ~TakesOut(m)
  <2>1. loc[m].mode \in mix.modes
    BY <1>3 DEF CoreInv, PlaceInv, ManagerPlace
  <2> QED BY <1>1, <1>2, <1>3, <2>1 DEF NoPostBeside, TakesOut
<1>4. \A m \in Managers : pc[m] = "compact" => TakesOut(m)
  BY DEF CoreInv, PlaceInv, ManagerPlace
<1> QED BY <1>3, <1>4 DEF Moving

LEMMA OneMoving ==
  ASSUME CoreInv, NEW m \in Managers, Source(m) = "DIR", holder["DIR"] = m
  PROVE  Moving \subseteq {m}
BY DEF CoreInv, LockInv, Moving, OnSource

LEMMA MovingStays ==
  ASSUME CoreInv, NEW p \in Procs, Range_(p) \/ SetsFlag(p) \/ Post(p), SameIds("DIR"),
         ~(p \in Managers /\ Source(p) = "DIR" /\ (TakeOut(p) \/ Compact(p)))
  PROVE  /\ Moving' = Moving
         /\ \A m \in Moving : TakenOut(m)' = TakenOut(m) /\ loc'[m] = loc[m]
<1>0. Types /\ "DIR" \in Files /\ mix' = mix /\ Managers' = Managers
  BY OneMoves, Same DEF CoreInv, Files, Only
<1>1. ASSUME NEW m \in Managers, Source(m) = "DIR" PROVE pc'[m] = "compact" <=> pc[m] = "compact"
  <2>1. pc'[m] = "compact" /\ pc[m] # "compact" => m = p /\ (TakeOut(m) \/ OriginalsDone(m))
    BY ManagerMoves
  <2>2. ~OriginalsDone(m)
    BY <1>1 DEF OriginalsDone, CoreInv, PlaceInv, ManagerPlace
  <2>3. pc[m] = "compact" /\ pc'[m] # "compact" => m = p /\ Compact(m)
    BY ManagerMoves
  <2> QED BY <1>1, <2>1, <2>2, <2>3
<1>2. \A m \in Managers : Source(m)' = Source(m)
  BY ManagerMoves
<1>3. Moving' = Moving
  BY <1>0, <1>1, <1>2 DEF Moving
<1>4. ASSUME NEW m \in Moving PROVE TakenOut(m)' = TakenOut(m) /\ loc'[m] = loc[m]
  <2>1. m \in Managers /\ Source(m) = "DIR" /\ pc[m] = "compact" /\ pc'[m] = "compact"
    BY <1>1 DEF Moving
  <2>2. loc'[m] = loc[m] /\ Source(m)' = "DIR"
    BY <2>1, ManagerMoves
  <2> DEFINE n == loc[m].size
  <2>3. loc[m].sel \subseteq 1 .. n /\ n \in Nat
    BY <2>1, Jobs3, SizeFacts, <1>0 DEF CoreInv, PlaceInv, ManagerPlace
  <2>4. DOMAIN file["DIR"] = 1 .. Len(file["DIR"]) /\ Len(file["DIR"]) \in Nat
    BY <1>0, DirFacts
  <2> DEFINE v == View("DIR", n)  w == [i \in 1 .. n |-> IF i <= Len(file'["DIR"]) THEN file'["DIR"][i] ELSE Zero]
  <2> HIDE DEF n
  <2>5. ASSUME NEW i \in 1 .. n PROVE v[i].id = w[i].id
    <3>1. v[i] = IF i <= Len(file["DIR"]) THEN file["DIR"][i] ELSE Zero
      BY DEF View
    <3>2. w[i] = IF i <= Len(file["DIR"]) THEN file'["DIR"][i] ELSE Zero
      BY DEF SameIds
    <3>3. i <= Len(file["DIR"]) => i \in DOMAIN file["DIR"]
      BY <2>3, <2>4
    <3> HIDE DEF v, w
    <3> QED BY <3>1, <3>2, <3>3 DEF SameIds
  <2>6. View(Source(m), loc[m].size)' = w
    BY <2>2 DEF View, n
  <2>7. TakenOut(m)' = {w[i].id : i \in loc[m].sel}
    BY <2>2, <2>6 DEF TakenOut
  <2>8. TakenOut(m) = {v[i].id : i \in loc[m].sel}
    BY <2>1 DEF TakenOut, n
  <2> HIDE DEF v, w
  <2> QED BY <2>2, <2>3, <2>5, <2>7, <2>8
<1> QED BY <1>3, <1>4

LEMMA MovingEnds ==
  ASSUME CoreInv, NEW p \in Managers, Source(p) = "DIR", Compact(p)
  PROVE  Moving = {p} /\ Moving' = {}
<1>0. Types /\ p \in Procs /\ mix' = mix /\ Managers' = Managers /\ \A m \in Managers : Source(m)' = Source(m)
  BY Same, Jobs3 DEF CoreInv, Compact
<1>1. holder["DIR"] = p /\ pc[p] = "compact" /\ pc'[p] = "done"
  <2>1. holder["DIR"] = p
    BY Compaction
  <2>2. pc[p] = "compact" /\ pc'[p] = "done"
    BY <1>0 DEF Compact, Goto, Types
  <2> QED BY <2>1, <2>2
<1>2. Moving = {p}
  BY <1>1, OneMoving DEF Moving
<1>3. ASSUME NEW m \in Managers, Source(m) = "DIR" PROVE pc'[m] # "compact"
  <2>1. CASE m = p
    BY <1>1, <2>1
  <2>2. CASE m # p
    <3>1. pc'[m] = pc[m]
      BY <1>0, <2>2, ManagerMoves DEF Range_
    <3> QED BY <1>2, <1>3, <2>2, <3>1 DEF Moving
  <2> QED BY <2>1, <2>2
<1> QED BY <1>0, <1>2, <1>3 DEF Moving

LEMMA MovingBegins ==
  ASSUME CoreInv, NEW p \in Managers, Source(p) = "DIR", TakeOut(p)
  PROVE  Moving = {} /\ Moving' = {p}
<1>0. Types /\ p \in Procs /\ mix' = mix /\ Managers' = Managers /\ \A m \in Managers : Source(m)' = Source(m)
  BY Same, Jobs3 DEF CoreInv, TakeOut
<1>1. holder["DIR"] = p /\ pc[p] = "take_out" /\ pc'[p] = "compact"
  BY <1>0, Taking DEF TakeOut, Goto, Types
<1>2. Moving = {}
  BY <1>1, OneMoving DEF Moving
<1>3. \A m \in Managers : m # p => pc'[m] = pc[m]
  BY <1>0, ManagerMoves DEF Range_
<1> QED BY <1>0, <1>1, <1>2, <1>3 DEF Moving

LEMMA MoveStep ==
  ASSUME CoreInv, CoreInv', OnceInv, MoveInv, NoPostBeside(mix),
         NEW p \in Procs, Range_(p) \/ SetsFlag(p) \/ Post(p)
  PROVE  MoveInv'
<1> DEFINE D == Ids("DIR")  B == Ids("DELETED")
<1>0. Types /\ "DIR" \in Files /\ "DELETED" \in Files /\ mix' = mix /\ Managers' = Managers
      /\ posted \in Nat /\ \A m \in Managers : Source(m)' = Source(m)
  BY OneMoves, Same, Jobs3 DEF CoreInv, Files, Only, Types
<1>1. /\ Once("DIR") /\ D \subseteq 0 .. posted /\ Once("DELETED") /\ B \subseteq 0 .. posted
      /\ 1 .. posted \subseteq D \cup B
      /\ Moving = {} => D \cap B \subseteq {0}
      /\ \A m \in Moving : (D \cap B) \cup {0} = TakenOut(m) \cup {0}
  BY DEF OnceInv, MoveInv
<1>2. ASSUME NEW m \in Managers, Source(m) = "DIR" PROVE Covers(m)'
  <2>1. Covers(m)
    BY <1>2 DEF MoveInv
  <2>2. CASE Post(p)
    <3>1. m # p /\ pc'[m] = pc[m] /\ loc'[m] = loc[m]
      BY <2>2, Jobs3, ManagerMoves DEF Post
    <3>2. pc[m] \in Going => ~TakesOut(m)
      BY <1>2, <2>2, PostBeside DEF Going
    <3> QED BY <3>1, <3>2 DEF Covers, TakesOut
  <2>3. CASE ~Post(p)
    <3>1. Upward("DIR")
      BY <1>0, <2>3, DirKinds, UpwardMoves DEF CoreInv
    <3> QED BY <1>2, <2>1, <3>1, CoversStep
  <2> QED BY <2>2, <2>3
<1>c. (\A m \in Managers : Source(m) = "DIR" => Covers(m))'
  BY <1>0, <1>2
(* What a step says of the ids. *)
<1>m. ASSUME Once("DELETED")', B' \subseteq 0 .. posted', 1 .. posted' \subseteq D' \cup B',
             Moving' = {} => D' \cap B' \subseteq {0},
             \A m \in Moving' : (D' \cap B') \cup {0} = TakenOut(m)' \cup {0}
      PROVE  MoveInv'
  BY <1>c, <1>m DEF MoveInv
<1> HIDE DEF D, B
<1>3. CASE ~Post(p) /\ ~(p \in Managers /\ Source(p) = "DIR" /\ (TakeOut(p) \/ Compact(p)))
  <2>1. SameIds("DIR") /\ posted' = posted
    BY <1>0, <1>3, DirKinds DEF CoreInv
  <2>2. file'["DELETED"] = file["DELETED"]
    BY <1>3, BinKinds
  <2>3. D' = D /\ B' = B /\ Once("DELETED")'
    BY <1>0, <1>1, <2>1, <2>2, IdsMoves DEF D, B
  <2>4. Moving' = Moving /\ \A m \in Moving : TakenOut(m)' = TakenOut(m)
    BY <1>3, <2>1, MovingStays
  <2>5. \A m \in Moving' : (D' \cap B') \cup {0} = TakenOut(m)' \cup {0}
    BY <1>1, <2>3, <2>4
  <2>6. Moving' = {} => D' \cap B' \subseteq {0}
    BY <1>1, <2>3, <2>4
  <2>7. B' \subseteq 0 .. posted' /\ 1 .. posted' \subseteq D' \cup B'
    BY <1>1, <2>1, <2>3
  <2> QED BY <1>m, <2>3, <2>5, <2>6, <2>7
<1>4. CASE Post(p)
  <2>1. posted' = posted + 1 /\ D' = D \cup {posted + 1} /\ SameElse("DIR")
    BY <1>4, PostFacts DEF D
  <2>2. file'["DELETED"] = file["DELETED"]
    BY <1>0, <2>1 DEF SameElse
  <2>3. B' = B /\ Once("DELETED")'
    BY <1>0, <1>1, <2>2, IdsMoves DEF B
  <2>4. Moving = {} /\ Moving' = {}
    <3>1. Moving = {}
      BY <1>4, PostBeside
    <3>2. \A m \in Managers : pc'[m] = pc[m]
      BY <1>4, Jobs3, ManagerMoves DEF Post
    <3> QED BY <1>0, <3>1, <3>2 DEF Moving
  <2>5. D' \cap B' \subseteq {0}
    BY <1>0, <1>1, <2>1, <2>3, <2>4
  <2>6. B' \subseteq 0 .. posted' /\ 1 .. posted' \subseteq D' \cup B'
    BY <1>0, <1>1, <2>1, <2>3
  <2> QED BY <1>m, <2>3, <2>4, <2>5, <2>6
<1>5. CASE p \in Managers /\ Source(p) = "DIR" /\ Compact(p)
  <2>1. /\ holder["DIR"] = p /\ SameElse("DIR") /\ TakesOut(p)
        /\ loc[p].sel \subseteq 1 .. loc[p].size
        /\ \A k \in DOMAIN file'["DIR"] :
              \/ file'["DIR"][k].id = 0
              \/ \E i \in DOMAIN file["DIR"] : i \notin loc[p].sel /\ file'["DIR"][k].id = file["DIR"][i].id
        /\ \A i \in DOMAIN file["DIR"] : i \notin loc[p].sel /\ i <= loc[p].size =>
              \E k \in DOMAIN file'["DIR"] : file'["DIR"][k].id = file["DIR"][i].id
    BY <1>5, Compaction
  <2>2. pc[p] = "compact" /\ pc'[p] = "done" /\ posted' = posted
    BY <1>0, <1>5 DEF Compact, Goto, Types
  <2>3. p \in Moving
    BY <1>5, MovingEnds
  <2>4. Moving' = {}
    BY <1>5, MovingEnds
  <2>5. B' = B /\ Once("DELETED")'
    <3>1. file'["DELETED"] = file["DELETED"]
      BY <1>0, <2>1 DEF SameElse
    <3> QED BY <1>0, <1>1, <3>1, IdsMoves DEF B
  <2>6. /\ \A x : x \in D' <=> \E k \in DOMAIN file'["DIR"] : file'["DIR"][k].id = x
        /\ \A x : x \in D <=> \E k \in DOMAIN file["DIR"] : file["DIR"][k].id = x
    BY <1>0, IdsMoves DEF D
  <2>7. /\ \A x : x \in TakenOut(p) /\ x # 0 => \E i \in DOMAIN file["DIR"] : i \in loc[p].sel /\ file["DIR"][i].id = x
        /\ \A i \in DOMAIN file["DIR"] : i \in loc[p].sel => file["DIR"][i].id \in TakenOut(p)
    BY <1>0, <1>5, <2>1, TakenFacts
  <2>8. \A i \in DOMAIN file["DIR"] : i > loc[p].size => file["DIR"][i].id = 0
    BY <1>5, <2>1, <2>2 DEF MoveInv, Covers, Going
  <2>9. (D \cap B) \cup {0} = TakenOut(p) \cup {0}
    BY <1>1, <2>3
  <2>10. ASSUME NEW x, x \in D, x # 0, x \notin D' PROVE x \in B
    <3>1. PICK i \in DOMAIN file["DIR"] : file["DIR"][i].id = x
      BY <2>6, <2>10
    <3>2. i \in Nat /\ loc[p].size \in Nat
      BY <1>0, DirFacts, SizeFacts
    <3>3. i \in loc[p].sel
      BY <2>1, <2>6, <2>8, <2>10, <3>1, <3>2
    <3> QED BY <2>7, <2>9, <2>10, <3>1, <3>3
  <2>11. ASSUME NEW x, x \in D', x \in B, x # 0 PROVE FALSE
    <3>1. PICK k \in DOMAIN file'["DIR"] : file'["DIR"][k].id = x
      BY <2>6, <2>11
    <3>2. PICK i \in DOMAIN file["DIR"] : i \notin loc[p].sel /\ file["DIR"][i].id = x
      BY <2>1, <2>11, <3>1
    <3>3. x \in TakenOut(p)
      BY <2>6, <2>9, <2>11, <3>2
    <3>4. PICK j \in DOMAIN file["DIR"] : j \in loc[p].sel /\ file["DIR"][j].id = x
      BY <2>7, <2>11, <3>3
    <3> QED BY <1>1, <2>11, <3>2, <3>4 DEF Once
  <2>12. B' \subseteq 0 .. posted' /\ 1 .. posted' \subseteq D' \cup B'
    <3>1. ASSUME NEW x \in 1 .. posted PROVE x \in D' \cup B
      <4>1. x \in D \cup B /\ x # 0
        BY <1>1
      <4> QED BY <2>10, <4>1
    <3> QED BY <1>1, <2>2, <2>5, <3>1
  <2>13. D' \cap B' \subseteq {0}
    BY <2>5, <2>11
  <2> QED BY <1>m, <2>4, <2>5, <2>12, <2>13
<1>6. CASE p \in Managers /\ Source(p) = "DIR" /\ TakeOut(p)
  <2> DEFINE b == file["DELETED"]  c == file'["DELETED"]  view == View("DIR", loc[p].size)
             T == {view[i].id : i \in Selected(p)}
  <2>1. /\ SameElse("DELETED") /\ HasBin(p) /\ holder["DIR"] = p
        /\ loc'[p].sel = Selected(p) /\ loc'[p].size = loc[p].size
        /\ Selected(p) \subseteq 1 .. loc[p].size
        /\ Len(b) <= Len(c) /\ \A k \in DOMAIN b : c[k] = b[k]
        /\ \A i \in Selected(p) : \E k \in DOMAIN c : c[k].id = view[i].id
        /\ \A k \in DOMAIN c : k > Len(b) => \E i \in Selected(p) : c[k].id = view[i].id
        /\ \A k, l \in DOMAIN c : k > Len(b) /\ l > Len(b) /\ c[k].id = c[l].id /\ c[k].id # 0 => k = l
    BY <1>1, <1>6, Taking
  <2>2. /\ pc[p] = "take_out" /\ pc'[p] = "compact" /\ posted' = posted
        /\ file'["DIR"] = file["DIR"]
    <3>1. pc[p] = "take_out" /\ pc'[p] = "compact" /\ posted' = posted
      BY <1>0, <1>6 DEF TakeOut, Goto, Types
    <3> QED BY <1>0, <2>1, <3>1 DEF SameElse
  <2>3. Moving = {}
    BY <1>6, MovingBegins
  <2>4. D' = D
    BY <1>0, <2>2, IdsMoves DEF D
  <2>5. Moving' = {p}
    BY <1>6, MovingBegins
  <2>6. TakenOut(p)' = T
    <3>1. View(Source(p), loc[p].size)' = view
      BY <1>0, <1>6, <2>1, <2>2 DEF View
    <3> QED BY <1>0, <1>6, <2>1, <3>1 DEF TakenOut
  <2>7. /\ b \in Seq(Entry) /\ Len(b) \in Nat /\ DOMAIN b = 1 .. Len(b)
        /\ c \in Seq(Entry) /\ Len(c) \in Nat /\ DOMAIN c = 1 .. Len(c)
    <3>1. c \in Seq(Entry)
      BY <1>0 DEF CoreInv, Types
    <3> QED BY <1>0, <3>1, DirFacts
  <2>8. \A x \in T : x # 0 => x \in D
    <3>1. SUFFICES ASSUME NEW i \in Selected(p), view[i].id # 0 PROVE view[i].id \in D
      OBVIOUS
    <3>2. loc[p].size \in Nat /\ loc[p].size \in Int /\ i \in 1 .. loc[p].size
      BY <1>0, <2>1, SizeFacts
    <3>3. /\ i <= Len(file["DIR"]) => view[i] = file["DIR"][i]
          /\ i > Len(file["DIR"]) => view[i] = Zero
      <4>1. file \in [Files -> Seq(Entry)]
        BY <1>0 DEF Types
      <4> QED BY <1>0, <3>2, <4>1, Viewed
    <3>4. DOMAIN file["DIR"] = 1 .. Len(file["DIR"]) /\ Len(file["DIR"]) \in Nat
      BY <1>0, DirFacts
    <3> HIDE DEF view
    <3>5. i \in DOMAIN file["DIR"] /\ view[i] = file["DIR"][i]
      BY <3>1, <3>2, <3>3, <3>4, EntryFacts
    <3> QED BY <1>0, <3>5, IdsMoves DEF D
  <2>9. /\ \A x : x \in B' <=> \E k \in DOMAIN c : c[k].id = x
        /\ \A x : x \in B <=> \E k \in DOMAIN b : b[k].id = x
    BY <1>0, IdsMoves DEF B
  <2>10. /\ \A i \in Selected(p) : view[i].id \in T
         /\ \A x \in T : \E i \in Selected(p) : x = view[i].id
    OBVIOUS
  <2>t. 0 \in 0 .. posted /\ (T \ {0}) \subseteq D
    BY <1>0, <2>8
  <2> HIDE DEF b, c, view, T
  <2>11. \A k \in DOMAIN b : k \in DOMAIN c /\ c[k] = b[k]
    BY <2>1, <2>7
  <2>12. \A k \in DOMAIN c : k \in DOMAIN b \/ (k > Len(b) /\ c[k].id \in T)
    BY <2>1, <2>7, <2>10
  <2>13. B' = B \cup T
    <3>1. \A x \in B : x \in B'
      BY <2>9, <2>11
    <3>2. \A x \in T : x \in B'
      BY <2>1, <2>9, <2>10
    <3>3. \A x \in B' : x \in B \/ x \in T
      BY <2>9, <2>11, <2>12
    <3> QED BY <3>1, <3>2, <3>3
  <2>14. D \cap B \subseteq {0}
    BY <1>1, <2>3
  <2>15. Once("DELETED")'
    <3>1. ASSUME NEW k \in DOMAIN c, NEW l \in DOMAIN c, c[k].id = c[l].id, c[k].id # 0 PROVE k = l
      <4>1. CASE k \in DOMAIN b /\ l \in DOMAIN b
        BY <1>1, <2>11, <3>1, <4>1 DEF Once, b
      <4>2. ASSUME NEW i \in DOMAIN c, NEW j \in DOMAIN c, i \in DOMAIN b, j \notin DOMAIN b, c[i].id = c[j].id, c[i].id # 0
            PROVE  FALSE
        <5>1. c[i].id \in B
          BY <2>9, <2>11, <4>2
        <5>2. c[j].id \in T
          BY <2>12, <4>2
        <5> QED BY <2>8, <2>14, <4>2, <5>1, <5>2
      <4>3. CASE k \notin DOMAIN b /\ l \notin DOMAIN b
        BY <2>1, <2>12, <3>1, <4>3
      <4> QED BY <3>1, <4>1, <4>2, <4>3
    <3> QED BY <3>1 DEF Once, c
  <2>16. (D' \cap B') \cup {0} = T \cup {0}
    BY <2>4, <2>13, <2>14, <2>t
  <2>17. B' \subseteq 0 .. posted' /\ 1 .. posted' \subseteq D' \cup B'
    BY <1>1, <2>2, <2>4, <2>13, <2>t
  <2> QED BY <1>m, <2>5, <2>6, <2>15, <2>16, <2>17
<1> QED BY <1>3, <1>4, <1>5, <1>6

(* Marked articles leave only by right.                                    *)
LEMMA MarkStep ==
  ASSUME CoreInv, MarkInv, NoPostBeside(mix), NEW p \in Procs, Range_(p) \/ SetsFlag(p) \/ Post(p)
  PROVE  MarkInv'
<1>0. Types /\ "DIR" \in Files /\ mix' = mix /\ Managers' = Managers /\ Markers \subseteq Procs
  BY OneMoves, Same, Jobs3 DEF CoreInv, Files, Only
<1>1. CASE p \in Managers /\ Source(p) = "DIR" /\ Compact(p)
  BY <1>1, MovingEnds DEF MarkInv
<1>2. CASE Post(p)
  <2>1. Moving = {}
    BY <1>2, PostBeside
  <2>2. \A m \in Managers : pc'[m] = pc[m] /\ Source(m)' = Source(m)
    BY <1>2, Jobs3, ManagerMoves DEF Post
  <2>3. Moving' = {}
    BY <1>0, <2>1, <2>2 DEF Moving
  <2> QED BY <2>3 DEF MarkInv
<1>3. CASE p \in Managers /\ Source(p) = "DIR" /\ TakeOut(p)
  <2> DEFINE n == loc[p].size  view == View("DIR", n)
  <2>1. /\ loc'[p].sel = Selected(p) /\ loc'[p].size = n /\ loc'[p].mode = loc[p].mode
        /\ loc'[p].over = loc[p].over /\ SameElse("DELETED") /\ HasBin(p)
    BY <1>3, Taking
  <2>2. View("DIR", loc[p].size)' = view
    BY <1>0, <2>1 DEF View, SameElse
  <2>3. ASSUME NEW i \in Selected(p), ~MayTakeMarked(p) PROVE ~view[i].marked
    <3>1. loc[p].mode # "force" /\ ~Undeletable(p, i) /\ Source(p) = "DIR"
      BY <1>3, <2>3 DEF Selected, MayTakeMarked
    <3>2. loc[p].mode \in {"token", "range"}
      BY <2>1, <3>1 DEF HasBin, TakesOut
    <3>3. ~(loc[p].over /\ loc[p].mode \in {"token", "mpdel"})
      BY <2>3, <3>2 DEF MayTakeMarked
    <3> QED BY <3>1, <3>3 DEF Undeletable
  <2>4. MayTakeMarked(p)' <=> MayTakeMarked(p)
    BY <2>1 DEF MayTakeMarked
  <2>5. MayTakeMarked(p)' \/ \A i \in loc'[p].sel : ~(View("DIR", loc[p].size)')[i].marked
    BY <2>1, <2>2, <2>3, <2>4
  <2>6. Moving' = {p}
    BY <1>3, MovingBegins
  <2> QED BY <2>5, <2>6 DEF MarkInv
<1>4. CASE ~Post(p) /\ ~(p \in Managers /\ Source(p) = "DIR" /\ (TakeOut(p) \/ Compact(p)))
  <2>1. SameIds("DIR") /\ (FlagMark(p) \/ SameMarks)
    BY <1>0, <1>4, DirKinds DEF CoreInv
  <2>2. Moving' = Moving /\ \A m \in Moving : loc'[m] = loc[m]
    BY <1>4, <2>1, MovingStays
  <2>3. CASE FlagMark(p)
    <3>1. p \in Markers /\ holder["DIR"] = p
      BY <2>3 DEF FlagMark, CoreInv, LockInv, Flagging
    <3>2. \A m \in Moving : holder["DIR"] = m /\ m \in Managers
      BY DEF Moving, CoreInv, LockInv, OnSource
    <3>3. Moving = {}
      BY <3>1, <3>2, Jobs3
    <3> QED BY <2>2, <3>3 DEF MarkInv
  <2>4. CASE SameMarks
    <3>1. SUFFICES ASSUME NEW m \in Moving
                   PROVE  MayTakeMarked(m)' \/ \A i \in loc'[m].sel : ~(View("DIR", loc[m].size)')[i].marked
      BY <2>2 DEF MarkInv
    <3>2. MayTakeMarked(m)' <=> MayTakeMarked(m)
      BY <2>2 DEF MayTakeMarked
    <3>3. loc'[m] = loc[m] /\ m \in Managers /\ pc[m] = "compact" /\ m \in Procs
      BY <2>2, Jobs3 DEF Moving
    <3>4. loc[m].sel \subseteq 1 .. loc[m].size /\ loc[m].size \in Nat
      BY <1>0, <3>3, SizeFacts DEF CoreInv, PlaceInv, ManagerPlace
    <3>5. DOMAIN file["DIR"] = 1 .. Len(file["DIR"]) /\ Len(file["DIR"]) \in Nat
      BY <1>0, DirFacts
    <3> DEFINE n == loc[m].size  v == View("DIR", n)
               w == [i \in 1 .. n |-> IF i <= Len(file'["DIR"]) THEN file'["DIR"][i] ELSE Zero]
    <3>6. View("DIR", loc[m].size)' = w
      BY <3>3 DEF View
    <3> HIDE DEF n
    <3>7. ASSUME NEW i \in 1 .. n PROVE v[i].marked = w[i].marked
      <4>1. v[i] = IF i <= Len(file["DIR"]) THEN file["DIR"][i] ELSE Zero
        BY DEF View
      <4>2. w[i] = IF i <= Len(file["DIR"]) THEN file'["DIR"][i] ELSE Zero
        BY <2>1 DEF SameIds
      <4>3. i <= Len(file["DIR"]) => i \in DOMAIN file["DIR"]
        BY <3>4, <3>5 DEF n
      <4> HIDE DEF v, w
      <4> QED BY <2>4, <4>1, <4>2, <4>3 DEF SameMarks
    <3>8. MayTakeMarked(m) \/ \A i \in loc[m].sel : ~v[i].marked
      BY DEF MarkInv, n
    <3> HIDE DEF v, w
    <3> QED BY <3>2, <3>3, <3>4, <3>6, <3>7, <3>8 DEF n
  <2> QED BY <2>1, <2>3, <2>4
<1> QED BY <1>1, <1>2, <1>3, <1>4

(* Only a manager who may do it takes a marked article out of .DIR.        *)
LEMMA MarkedLeave ==
  ASSUME CoreInv, MoveInv, MarkInv, NEW p \in Procs, Range_(p) \/ SetsFlag(p) \/ Post(p),
         NEW e \in Range(file["DIR"]), e.marked, e.id # 0, e.id \notin Ids("DIR")'
  PROVE  \E m \in Managers : /\ pc[m] = "compact"
                             /\ \/ loc[m].mode = "force"
                                \/ loc[m].mode = "token" /\ loc[m].over
<1>0. Types /\ "DIR" \in Files
  BY DEF CoreInv, Files
<1>1. e.id \in Ids("DIR")
  BY DEF Ids
<1>2. p \in Managers /\ Source(p) = "DIR" /\ Compact(p)
  <2>1. ~SameIds("DIR")
    BY <1>0, <1>1, IdsMoves
  <2>2. ~Post(p)
    BY <1>1, PostFacts
  <2> QED BY <2>1, <2>2, DirKinds DEF CoreInv
<1>3. PICK i \in DOMAIN file["DIR"] : file["DIR"][i] = e
  BY DEF Range
<1>4. /\ TakesOut(p) /\ loc[p].sel \subseteq 1 .. loc[p].size
      /\ \A k \in DOMAIN file["DIR"] : k \notin loc[p].sel /\ k <= loc[p].size =>
            \E l \in DOMAIN file'["DIR"] : file'["DIR"][l].id = file["DIR"][k].id
  BY <1>2, Compaction
<1>5. pc[p] = "compact" /\ p \in Procs /\ p \in Moving
  BY <1>2, Jobs3 DEF Compact, Moving
<1>6. i <= loc[p].size
  <2>1. i > loc[p].size => e.id = 0
    BY <1>2, <1>3, <1>4, <1>5 DEF MoveInv, Covers, Going
  <2>2. i \in Nat /\ loc[p].size \in Nat
    BY <1>0, <1>5, DirFacts, SizeFacts
  <2> QED BY <2>1, <2>2
<1>7. i \in loc[p].sel
  BY <1>0, <1>3, <1>4, <1>6, IdsMoves
<1>8. View("DIR", loc[p].size)[i].marked
  <2>1. i \in 1 .. loc[p].size /\ i <= Len(file["DIR"])
    BY <1>0, <1>4, <1>7, DirFacts
  <2> QED BY <1>3, <2>1 DEF View
<1>9. MayTakeMarked(p)
  BY <1>5, <1>7, <1>8 DEF MarkInv
<1> QED BY <1>2, <1>5, <1>9 DEF MayTakeMarked

(* An article is in .DIR or in .DELETED, once, whenever nobody is at work  *)
(* on .DIR (delete_range_base): for all mixes in which nobody posts beside *)
(* a manager who takes articles out.                                       *)
SafeInv == CoreInv /\ OnceInv /\ MoveInv /\ MarkInv /\ NoPostBeside(mix)

LEMMA InitSafe == Init /\ NoPostBeside(mix) => SafeInv
<1> SUFFICES ASSUME Init, NoPostBeside(mix) PROVE SafeInv
  OBVIOUS
<1>0. CoreInv /\ "DIR" \in Files /\ "DELETED" \in Files
  BY InitCore DEF Files
<1>1. /\ posted = Old /\ posted \in Nat
      /\ DOMAIN file["DIR"] = 1 .. Old /\ \A i \in 1 .. Old : file["DIR"][i].id = i
      /\ file["DELETED"] = <<>> /\ \A p \in Procs : pc[p] = "idle"
  BY InitFiles, OldAssumption
<1>2. Ids("DIR") = 1 .. Old /\ Ids("DELETED") = {}
  <2>1. \A x : x \in Ids("DIR") <=> x \in 1 .. Old
    BY <1>0, <1>1, IdsMoves
  <2>2. \A x : x \in Ids("DELETED") <=> FALSE
    BY <1>0, <1>1, IdsMoves
  <2> QED BY <2>1, <2>2
<1>3. OnceInv
  BY <1>1, <1>2 DEF OnceInv, Once
<1>4. Moving = {} /\ \A m \in Managers : Covers(m)
  BY <1>1, Jobs3 DEF Moving, Covers, Going
<1>5. MoveInv
  BY <1>1, <1>2, <1>4 DEF MoveInv, Once
<1> QED BY <1>0, <1>3, <1>4, <1>5 DEF SafeInv, MarkInv

LEMMA SafeStep == SafeInv /\ [Next]_vars => SafeInv'
<1> SUFFICES ASSUME SafeInv, [Next]_vars PROVE SafeInv'
  OBVIOUS
<1>1. CoreInv'
  BY CoreStep DEF SafeInv
<1>2. CASE UNCHANGED vars
  <2>1. mix' = mix /\ file' = file /\ pc' = pc /\ loc' = loc /\ posted' = posted
    BY <1>2 DEF vars
  <2>2. /\ Managers' = Managers /\ Moving' = Moving /\ Ids("DIR")' = Ids("DIR") /\ Ids("DELETED")' = Ids("DELETED")
        /\ NoPostBeside(mix)' <=> NoPostBeside(mix)
        /\ Once("DIR")' <=> Once("DIR")
        /\ Once("DELETED")' <=> Once("DELETED")
    BY <2>1 DEF Managers, Moving, Source, Ids, Once, NoPostBeside, At
  <2>3. ASSUME NEW m \in Managers
        PROVE  /\ Source(m)' = Source(m) /\ (Covers(m)' <=> Covers(m)) /\ TakenOut(m)' = TakenOut(m)
               /\ MayTakeMarked(m)' <=> MayTakeMarked(m)
    BY <2>1 DEF Source, Covers, TakesOut, TakenOut, View, MayTakeMarked
  <2>4. OnceInv'
    BY <2>1, <2>2 DEF SafeInv, OnceInv
  <2>5. MoveInv'
    <3>1. (\A m \in Managers : Source(m) = "DIR" => Covers(m))'
      BY <2>2, <2>3 DEF SafeInv, MoveInv
    <3>2. \A m \in Moving : m \in Managers
      BY DEF Moving
    <3>3. (\A m \in Moving : (Ids("DIR") \cap Ids("DELETED")) \cup {0} = TakenOut(m) \cup {0})'
      BY <2>2, <2>3, <3>2 DEF SafeInv, MoveInv
    <3> QED BY <2>1, <2>2, <3>1, <3>3 DEF SafeInv, MoveInv
  <2>6. MarkInv'
    BY <2>1, <2>2 DEF SafeInv, MarkInv, MayTakeMarked, View
  <2> QED BY <1>1, <2>2, <2>4, <2>5, <2>6 DEF SafeInv
<1>3. ASSUME NEW p \in Procs, Range_(p) \/ SetsFlag(p) \/ Post(p) PROVE SafeInv'
  <2>1. mix' = mix /\ NoPostBeside(mix)'
    BY <1>3, OneMoves DEF SafeInv, CoreInv, Only, NoPostBeside, At
  <2> QED BY <1>1, <1>3, <2>1, OnceStep, MoveStep, MarkStep DEF SafeInv
<1> QED BY <1>2, <1>3 DEF Next

LEMMA SafeIsLossless == SafeInv => NothingLost
<1> SUFFICES ASSUME SafeInv, holder["DIR"] = Nobody
             PROVE  /\ Once("DIR") /\ Once("DELETED")
                    /\ Ids("DIR") \cap Ids("DELETED") \subseteq {0}
                    /\ 1 .. posted \subseteq Ids("DIR") \cup Ids("DELETED")
  BY DEF NothingLost
<1>1. Moving = {}
  BY Jobs3, NobodyAssumption DEF SafeInv, CoreInv, LockInv, Moving, OnSource
<1> QED BY <1>1 DEF SafeInv, OnceInv, MoveInv

(* No article is lost and none is there twice, whatever ranges overlap and *)
(* whoever works on .DIGEST or sets flags beside them (delete_range_base,  *)
(* change_post_flag), if nobody posts while articles are taken out.        *)
THEOREM NoArticleLost == Spec /\ NoPostBeside(mix) => []NothingLost
BY InitSafe, SafeStep, SafeIsLossless, PTL DEF Spec

(* Under the same condition a marked article leaves .DIR only when the     *)
(* manager forces it or extends his rights over marked ones (DRBP_UNDEL of *)
(* delete_range_base), whatever is marked by others meanwhile.             *)
THEOREM MarkedArticlesStay == Spec /\ NoPostBeside(mix) => MarkedStay
<1> DEFINE Leaves == \A e \in Range(file["DIR"]) :
       e.marked /\ e.id # 0 /\ e.id \notin {d.id : d \in Range(file'["DIR"])} =>
         \E m \in Managers : /\ pc[m] = "compact"
                             /\ \/ loc[m].mode = "force"
                                \/ loc[m].mode = "token" /\ loc[m].over
<1>1. SafeInv /\ [Next]_vars => [Leaves]_vars
  <2> SUFFICES ASSUME SafeInv, NEW p \in Procs, Range_(p) \/ SetsFlag(p) \/ Post(p) PROVE Leaves
    BY DEF Next
  <2> QED BY MarkedLeave DEF SafeInv, Ids
<1>2. MarkedStay <=> [][Leaves]_vars
  BY PTL DEF MarkedStay
<1> HIDE DEF Leaves
<1> QED BY <1>1, <1>2, InitSafe, SafeStep, PTL DEF Spec

-----------------------------------------------------------------------------
(* The digest.                                                             *)

LEMMA FlaggedFacts ==
  /\ \A x : x \in Flagged <=> \E i \in DOMAIN file["DIR"] : file["DIR"][i].digest /\ file["DIR"][i].id = x
  /\ \A x : x \in Flagged' <=> \E i \in DOMAIN file'["DIR"] : file'["DIR"][i].digest /\ file'["DIR"][i].id = x
BY DEF Flagged, Range

LEMMA FlaggedMoves ==
  ASSUME CoreInv, NEW p \in Procs, Range_(p) \/ SetsFlag(p) \/ Post(p)
  PROVE  /\ DigestFlag(p) \/ Flagged' \subseteq Flagged
         /\ DigestFlag(p) => Flagged' \subseteq Flagged \cup {loc[p].tgt.id}
<1>0. Types /\ PlaceInv /\ "DIR" \in Files
  BY DEF CoreInv, Files
<1>1. ASSUME SameIds("DIR"), \A i \in DOMAIN file["DIR"] : file'["DIR"][i].digest => file["DIR"][i].digest
      PROVE  Flagged' \subseteq Flagged
  BY <1>1, FlaggedFacts DEF SameIds
<1>2. CASE DigestFlag(p) \/ DigestClear(p)
  <2>1. p \in Markers /\ MarkerPlace(p) /\ pc[p] \in Flagging \ {"flag_find", "flag_mark"}
        /\ SetFlag(p, "digest", IF DigestFlag(p) THEN TRUE ELSE FALSE)
    BY <1>0, <1>2 DEF DigestFlag, DigestClear, PlaceInv, Flagging
  <2>2. /\ SameIds("DIR")
        /\ file'["DIR"][loc[p].ent].digest => DigestFlag(p)
        /\ \A i \in DOMAIN file["DIR"] : i # loc[p].ent => file'["DIR"][i].digest = file["DIR"][i].digest
    <3>1. CASE DigestFlag(p)
      BY <1>0, <2>1, <3>1, SetFlagFiles
    <3>2. CASE ~DigestFlag(p)
      BY <1>0, <2>1, <3>2, SetFlagFiles
    <3> QED BY <3>1, <3>2
  <2>3. file["DIR"][loc[p].ent].id = loc[p].tgt.id
    BY <2>1 DEF MarkerPlace
  <2>4. ASSUME NEW x \in Flagged' PROVE x \in Flagged \/ (DigestFlag(p) /\ x = loc[p].tgt.id)
    <3>1. PICK i \in DOMAIN file'["DIR"] : file'["DIR"][i].digest /\ file'["DIR"][i].id = x
      BY FlaggedFacts
    <3>2. i \in DOMAIN file["DIR"] /\ file["DIR"][i].id = x
      BY <2>2, <3>1 DEF SameIds
    <3>3. CASE i = loc[p].ent
      BY <2>2, <2>3, <3>1, <3>2, <3>3
    <3>4. CASE i # loc[p].ent
      BY <2>2, <3>1, <3>2, <3>4, FlaggedFacts
    <3> QED BY <3>3, <3>4
  <2> QED BY <2>4
<1>3. CASE OriginalFlag(p)
  BY <1>0, <1>1, <1>3, OriginalFlagFiles DEF OriginalFlag, DigestFlag
<1>4. CASE p \in Managers /\ Source(p) = "DIR" /\ Compact(p)
  <2>1. \A k \in DOMAIN file'["DIR"] :
              \/ ~file'["DIR"][k].digest
              \/ \E i \in DOMAIN file["DIR"] :
                   file'["DIR"][k].id = file["DIR"][i].id /\ file'["DIR"][k].digest = file["DIR"][i].digest
    BY <1>4, Compaction
  <2>2. Flagged' \subseteq Flagged
    BY <2>1, FlaggedFacts
  <2>3. ~DigestFlag(p)
    BY <1>4, Jobs3 DEF DigestFlag
  <2> QED BY <2>2, <2>3
<1>5. CASE Post(p)
  <2>1. /\ DOMAIN file'["DIR"] = 1 .. Len(file["DIR"]) + 1
        /\ \A i \in DOMAIN file["DIR"] : file'["DIR"][i] = file["DIR"][i]
        /\ ~file'["DIR"][Len(file["DIR"]) + 1].digest
    BY <1>5, PostFacts
  <2>2. DOMAIN file["DIR"] = 1 .. Len(file["DIR"]) /\ Len(file["DIR"]) \in Nat
    BY <1>0, DirFacts
  <2>3. \A i \in DOMAIN file'["DIR"] : i \in DOMAIN file["DIR"] \/ i = Len(file["DIR"]) + 1
    BY <2>1, <2>2
  <2>4. Flagged' \subseteq Flagged
    BY <2>1, <2>3, FlaggedFacts
  <2>5. ~DigestFlag(p)
    BY <1>5 DEF Post, DigestFlag
  <2> QED BY <2>4, <2>5
<1>6. CASE SameIds("DIR") /\ SameDigests
  <2>1. Flagged' \subseteq Flagged
    BY <1>1, <1>6 DEF SameDigests
  <2> QED BY <2>1
<1> QED BY <1>0, <1>2, <1>3, <1>4, <1>5, <1>6, DirKinds

(* Who changes .DIGEST.                                                    *)
LEMMA DigestKinds ==
  ASSUME CoreInv, NEW p \in Procs, Range_(p) \/ SetsFlag(p) \/ Post(p)
  PROVE  \/ file'["DIGEST"] = file["DIGEST"]
         \/ p \in Managers /\ Source(p) = "DIGEST" /\ (Compact(p) \/ Tokens(p)) /\ holder["DIGEST"] = p
         \/ p \in Markers /\ (DigestAdd(p) \/ DigestShift(p) \/ DigestCut(p)) /\ holder["DIR"] = p
<1>0. Types /\ "DIR" \in Files /\ "DIGEST" \in Files /\ "DELETED" \in Files
  BY DEF CoreInv, Files
<1>1. \A f \in Files \ {"DIGEST"} : SameElse(f) => file'["DIGEST"] = file["DIGEST"]
  BY <1>0 DEF SameElse
<1>2. CASE TakeOut(p)
  BY <1>0, <1>2 DEF TakeOut, Types
<1>3. CASE Compact(p)
  <2>1. p \in Managers /\ Source(p) \in {"DIR", "DIGEST"} /\ SameElse(Source(p)) /\ holder[Source(p)] = p
    BY <1>3, Compaction, RangeFacts, <1>0 DEF Compact
  <2> QED BY <1>0, <1>1, <1>3, <2>1
<1>4. CASE Tokens(p)
  <2>1. p \in Managers /\ Source(p) \in {"DIR", "DIGEST"} /\ SameElse(Source(p)) /\ holder[Source(p)] = p
    BY <1>0, <1>4, TokensFiles, RangeFacts DEF Tokens, CoreInv, LockInv, OnSource
  <2> QED BY <1>0, <1>1, <1>4, <2>1
<1>5. CASE OriginalFlag(p)
  BY <1>0, <1>1, <1>5, OriginalFlagFiles
<1>6. CASE FlagMark(p) \/ DigestFlag(p) \/ DigestClear(p)
  BY <1>0, <1>6 DEF FlagMark, DigestFlag, DigestClear, SetFlag, Types
<1>7. CASE DigestAdd(p) \/ DigestShift(p) \/ DigestCut(p)
  BY <1>7 DEF DigestAdd, DigestShift, DigestCut, CoreInv, LockInv, Flagging
<1>8. CASE Post(p)
  BY <1>0, <1>1, <1>8, PostFacts
<1>9. ASSUME \/ Choose(p) \/ Stat(p) \/ Insist(p) \/ GiveUp(p) \/ LockSource(p) \/ LockBin(p)
             \/ Original(p) \/ OriginalLock(p) \/ OriginalsDone(p) \/ Fault(p)
             \/ Toggle(p) \/ FlagMap(p) \/ FlagLock(p) \/ FlagFind(p) \/ DigestLock(p) \/ DigestMap(p)
      PROVE  file' = file
  BY <1>9 DEF Choose, Stat, Insist, GiveUp, LockSource, LockBin, Original, OriginalLock, OriginalsDone,
              Fault, Toggle, FlagMap, FlagLock, FlagFind, DigestLock, DigestMap
<1> QED BY <1>2, <1>3, <1>4, <1>5, <1>6, <1>7, <1>8, <1>9 DEF Range_, SetsFlag

(* A manager's copy of what he takes out, and his place in .DIR.           *)
LEMMA OriginalMoves ==
  ASSUME CoreInv, NEW p \in Managers, Range_(p), Source(p) = "DIGEST"
  PROVE  /\ loc'[p].ent \in {0, loc[p].ent, Len(file["DIR"])}
         /\ pc'[p] \in {"originals", "orig_lock", "orig_flag", "compact"} =>
              /\ file'["DIGEST"] = file["DIGEST"]
              /\ \/ TakeOut(p) /\ loc'[p].todo = TakenOut(p)'
                 \/ /\ pc[p] \in {"originals", "orig_lock", "orig_flag"}
                    /\ loc'[p].sel = loc[p].sel /\ loc'[p].size = loc[p].size
                    /\ OriginalFlag(p) \/ (loc'[p].todo = loc[p].todo /\ file' = file)
                    /\ pc'[p] = "compact" => OriginalsDone(p)
                    /\ OriginalFlag(p) => pc'[p] = "originals"
<1> USE DEF Goto
<1>0. Types /\ p \in Procs /\ loc[p] \in Local /\ "DIGEST" \in Files /\ "DIR" \in Files
      /\ Fresh.ent = 0 /\ ManagerPlace(p)
  BY Jobs3, SizeFacts DEF CoreInv, PlaceInv, Files, Fresh
<1>1. CASE Choose(p)
  <2>1. \E a, b \in DOMAIN file[Source(p)], mode \in mix.modes, over \in BOOLEAN :
          /\ a <= b
          /\ loc' = [loc EXCEPT ![p].look = file[Source(p)], ![p].from = a,
                                ![p].to = b, ![p].mode = mode, ![p].over = over]
    BY <1>1, Zenon DEF Choose
  <2>2. loc'[p].ent = loc[p].ent
    BY <1>0, <2>1 DEF Types, Local
  <2>3. pc'[p] = "stat"
    BY <1>0, <1>1 DEF Choose, Types
  <2> QED BY <2>2, <2>3
<1>2. CASE Stat(p) \/ Insist(p)
  <2>1. loc'[p].ent = loc[p].ent /\ pc'[p] \in {"stat", "lock", "refused"}
    BY <1>0, <1>2 DEF Stat, Insist, Types, Local
  <2> QED BY <2>1
<1>3. CASE GiveUp(p) \/ Compact(p) \/ Tokens(p) \/ Fault(p)
  <2>1. loc'[p] = Fresh /\ pc'[p] = "done"
    BY <1>0, <1>3 DEF GiveUp, Compact, Tokens, Fault, Types
  <2> QED BY <1>0, <2>1
<1>4. CASE LockSource(p) \/ LockBin(p)
  <2>1. loc'[p].ent \in {0, loc[p].ent} /\ pc'[p] \in {"done", "lock_bin", "take_out", "tokens"}
    BY <1>0, <1>4 DEF LockSource, LockBin, Types
  <2> QED BY <2>1
<1>5. CASE TakeOut(p)
  <2>1. loc'[p] = [loc[p] EXCEPT !.sel = Selected(p),
                                 !.todo = {View(Source(p), loc[p].size)[i].id : i \in Selected(p)}]
    BY <1>0, <1>5 DEF TakeOut, Types
  <2>2. /\ loc'[p].ent = loc[p].ent /\ loc'[p].sel = Selected(p) /\ loc'[p].size = loc[p].size
        /\ loc'[p].todo = {View(Source(p), loc[p].size)[i].id : i \in Selected(p)}
    BY <1>0, <2>1 DEF Local
  <2>3. file' = file /\ mix' = mix
    BY <1>5 DEF TakeOut, HasBin
  <2>4. Source(p)' = Source(p)
    BY <1>0, <2>3, Same
  <2>5. TakenOut(p)' = loc'[p].todo
    BY <2>2, <2>3, <2>4 DEF TakenOut, View
  <2> QED BY <1>5, <2>2, <2>3, <2>5
<1>6. CASE Original(p) \/ OriginalLock(p) \/ OriginalsDone(p)
  <2>1. file' = file /\ pc[p] \in {"originals", "orig_lock"} /\ (pc'[p] = "compact" => OriginalsDone(p))
        /\ ~OriginalFlag(p)
    BY <1>0, <1>6 DEF Original, OriginalLock, OriginalsDone, OriginalFlag, Types
  <2>2. loc'[p].sel = loc[p].sel /\ loc'[p].size = loc[p].size /\ loc'[p].todo = loc[p].todo
        /\ loc'[p].ent \in {loc[p].ent, Len(file["DIR"])}
    BY <1>0, <1>6 DEF Original, OriginalLock, OriginalsDone, Types, Local
  <2> QED BY <2>1, <2>2
<1>7. CASE OriginalFlag(p)
  <2>1. loc'[p].sel = loc[p].sel /\ loc'[p].size = loc[p].size /\ loc'[p].ent = loc[p].ent
    BY <1>0, <1>7 DEF OriginalFlag, Types, Local
  <2>2. pc[p] = "orig_flag" /\ pc'[p] = "originals"
    BY <1>0, <1>7 DEF OriginalFlag, Types
  <2>3. file'["DIGEST"] = file["DIGEST"]
    BY <1>0, <1>7, OriginalFlagFiles DEF SameElse
  <2> QED BY <1>7, <2>1, <2>2, <2>3
<1> QED BY <1>1, <1>2, <1>3, <1>4, <1>5, <1>6, <1>7 DEF Range_

(* The flag of the original is found where nobody has moved the entries.   *)
LEMMA OriginalFound ==
  ASSUME CoreInv, NEW p \in Managers, OriginalFlag(p),
         \A i \in DOMAIN file["DIR"] : file["DIR"][i].id = i,
         loc[p].ent \in Old .. Len(file["DIR"]), Flagged \subseteq 1 .. Old
  PROVE  \E id \in loc[p].todo : loc'[p].todo = loc[p].todo \ {id} /\ id \notin Flagged'
<1> DEFINE n == loc[p].ent  view == View("DIR", n)  d == file["DIR"]
           id == CHOOSE x \in loc[p].todo : \A y \in loc[p].todo : x <= y
<1>0. /\ Types /\ p \in Procs /\ loc[p] \in Local /\ "DIR" \in Files /\ Old \in Nat
      /\ n \in Nat /\ n \in Int /\ loc[p].todo \in SUBSET Nat /\ loc[p].todo # {}
      /\ Len(d) \in Nat /\ DOMAIN d = 1 .. Len(d) /\ d \in Seq(Entry)
      /\ file \in [Files -> Seq(Entry)]
  BY Jobs3, SizeFacts, OldAssumption DEF CoreInv, PlaceInv, ManagerPlace, Files, OriginalFlag, Types
<1>1. id \in loc[p].todo /\ id \in Nat
  BY <1>0, LeastNat
<1>2. loc'[p].todo = loc[p].todo \ {id}
  BY <1>0 DEF OriginalFlag, Types, Local
<1>3. /\ DOMAIN view = 1 .. n
      /\ \A i \in 1 .. n : i <= Len(d) => view[i] = d[i]
      /\ Len(view) = n
  <2>1. file \in [Files -> Seq(Entry)] /\ "DIR" \in Files /\ n \in Int /\ n \in Nat
    BY <1>0
  <2> HIDE DEF n
  <2>2. /\ DOMAIN View("DIR", n) = 1 .. n /\ Len(View("DIR", n)) = n
        /\ \A i \in 1 .. n : i <= Len(file["DIR"]) => View("DIR", n)[i] = file["DIR"][i]
    BY <2>1, Viewed
  <2> QED BY <2>2
<1>4. /\ \/ \E i \in Hits(view, id) : file' = IF i > Len(d) THEN file
                                              ELSE [file EXCEPT !["DIR"][i].digest = FALSE]
         \/ Gaps(view, id) # {} /\ UNCHANGED file
  BY DEF OriginalFlag
<1>5. Flagged' \subseteq Flagged
  <2>1. ~DigestFlag(p)
    BY Jobs3 DEF DigestFlag
  <2> QED BY <1>0, <2>1, FlaggedMoves DEF Range_
<1> HIDE DEF id, view, n, d
<1>6. ASSUME id \in Flagged' PROVE FALSE
  <2>1. id \in 1 .. Old /\ id \in 1 .. n /\ n <= Len(d)
    BY <1>0, <1>5, <1>6 DEF n, d
  <2>2. \A i \in 1 .. n : i \in Nat /\ view[i].id = i
    BY <1>0, <1>3, <2>1 DEF d
  <2>3. Gaps(view, id) = {}
    <3>1. ASSUME NEW place \in Gaps(view, id) PROVE FALSE
      <4>1. /\ place \in 1 .. n + 1
            /\ place > 1 => view[place - 1].id < id
            /\ place <= n => id < view[place].id
        BY <1>3 DEF Gaps
      <4>2. place > 1 => place - 1 \in 1 .. n
        BY <1>0, <4>1
      <4>3. place <= n => place \in 1 .. n
        BY <1>0, <4>1
      <4> QED BY <1>0, <1>1, <2>1, <2>2, <4>1, <4>2, <4>3
    <3> QED BY <3>1
  <2>4. PICK i \in Hits(view, id) : file' = IF i > Len(d) THEN file ELSE [file EXCEPT !["DIR"][i].digest = FALSE]
    BY <1>4, <2>3
  <2>5. i = id
    BY <1>3, <2>2 DEF Hits
  <2>6. id \in DOMAIN d /\ ~(i > Len(d))
    BY <1>0, <2>1, <2>5
  <2>7. ~file'["DIR"][id].digest
    <3>1. file' = [file EXCEPT !["DIR"][id].digest = FALSE]
      BY <2>4, <2>5, <2>6
    <3>2. file["DIR"][id] \in Entry
      BY <1>0, <2>6 DEF d
    <3> QED BY <1>0, <2>6, <3>1, <3>2 DEF Entry, d
  <2>8. PICK k \in DOMAIN file'["DIR"] : file'["DIR"][k].digest /\ file'["DIR"][k].id = id
    BY <1>6, FlaggedFacts
  <2>9. k \in DOMAIN file["DIR"] /\ file["DIR"][k].id = id
    BY <1>0, <2>8, OriginalFlagFiles DEF SameIds
  <2> QED BY <2>7, <2>8, <2>9
<1> QED BY <1>1, <1>2, <1>6

(* Managers of .DIGEST, and nobody who toggles the digest flag.            *)
LEMMA FlagStepManagers ==
  ASSUME CoreInv, CoreInv', FlagInv, DirInv, At(mix, "digest") = {},
         At(mix, "DIR") = {} \/ At(mix, "DIGEST") = {},
         NEW p \in Procs, Range_(p) \/ SetsFlag(p) \/ Post(p)
  PROVE  FlagInv' /\ DirInv'
<1>0. /\ Types /\ "DIR" \in Files /\ "DIGEST" \in Files /\ mix' = mix /\ Managers' = Managers /\ Markers' = Markers
      /\ \A m \in Managers : Source(m)' = Source(m) /\ m \in Procs
      /\ \A u \in Markers : u \in Procs /\ Flag(u)' = Flag(u)
  BY OneMoves, Same, Jobs3 DEF CoreInv, Files, Only
<1>1. ASSUME NEW u \in Markers PROVE pc[u] \notin Flagging \ {"flag_find", "flag_mark"}
  <2>1. Flag(u) # "digest"
    BY <1>0 DEF At, Flag
  <2> QED BY <2>1 DEF CoreInv, PlaceInv, MarkerPlace
<1>2. ASSUME NEW u \in Markers PROVE pc'[u] \notin Flagging \ {"flag_find", "flag_mark"}
  <2>1. Flag(u) # "digest" /\ Flag(u)' = Flag(u) /\ u \in Markers'
    BY <1>0 DEF At, Flag
  <2>2. MarkerPlace(u)'
    BY <2>1 DEF CoreInv, PlaceInv
  <2> QED BY <2>1, <2>2 DEF MarkerPlace
<1>3. ~(DigestFlag(p) \/ DigestAdd(p) \/ DigestShift(p) \/ DigestCut(p))
  BY <1>1 DEF DigestFlag, DigestAdd, DigestShift, DigestCut, Flagging
<1>4. Flagged' \subseteq Flagged
  BY <1>3, FlaggedMoves
<1>5. \/ file'["DIGEST"] = file["DIGEST"]
      \/ p \in Managers /\ Source(p) = "DIGEST" /\ (Compact(p) \/ Tokens(p)) /\ holder["DIGEST"] = p
  BY <1>3, DigestKinds
<1>6. ASSUME NEW m \in Managers, Source(m) = "DIGEST"
      PROVE  /\ \A i \in DOMAIN file["DIR"] : file["DIR"][i].id = i
             /\ Flagged \subseteq 1 .. Old
             /\ loc[m].ent \in {0} \cup Old .. Len(file["DIR"]) /\ Old <= Len(file["DIR"])
             /\ At(mix, "DIR") = {}
  <2>1. m \in At(mix, "DIGEST")
    BY <1>0, <1>6 DEF At, Source
  <2> QED BY <2>1 DEF DirInv
<1>7. ASSUME NEW m \in Managers, Source(m) = "DIGEST" PROVE Covers(m)'
  <2>1. Upward("DIGEST")
    <3>1. CASE p \in Managers /\ Source(p) = "DIGEST" /\ Tokens(p)
      BY <1>0, <3>1, TokensFiles, UpwardMoves
    <3> QED BY <1>0, <1>5, <3>1, UpwardMoves
  <2>2. Covers(m)
    BY <1>7 DEF FlagInv
  <2> QED BY <1>7, <2>1, <2>2, CoversStep
<1>8. Flagged' \subseteq Ids("DIGEST")'
  <2>1. CASE file'["DIGEST"] = file["DIGEST"] \/ SameIds("DIGEST")
    BY <1>0, <1>4, <2>1, IdsMoves DEF FlagInv
  <2>2. CASE p \in Managers /\ Source(p) = "DIGEST" /\ Compact(p)
    <3>1. pc[p] = "compact"
      BY <2>2 DEF Compact
    <3>2. TakenOut(p) \cap Flagged = {} /\ Covers(p) /\ Flagged \subseteq Ids("DIGEST")
      BY <2>2, <3>1 DEF FlagInv
    <3>3. /\ loc[p].sel \subseteq 1 .. loc[p].size /\ TakesOut(p)
          /\ \A i \in DOMAIN file["DIGEST"] : i \notin loc[p].sel /\ i <= loc[p].size =>
                \E k \in DOMAIN file'["DIGEST"] : file'["DIGEST"][k].id = file["DIGEST"][i].id
      BY <2>2, Compaction
    <3>4. \A i \in DOMAIN file["DIGEST"] : i \in loc[p].sel => file["DIGEST"][i].id \in TakenOut(p)
      BY <1>0, <2>2, <3>3, TakenFacts
    <3>5. \A i \in DOMAIN file["DIGEST"] : i > loc[p].size => file["DIGEST"][i].id = 0
      BY <2>2, <3>1, <3>2, <3>3 DEF Covers, Going
    <3>6. ASSUME NEW x \in Flagged' PROVE x \in Ids("DIGEST")'
      <4>1. x \in Flagged /\ x \in 1 .. Old /\ x # 0
        BY <1>4, <1>6, <2>2
      <4>2. PICK i \in DOMAIN file["DIGEST"] : file["DIGEST"][i].id = x
        BY <1>0, <3>2, <4>1, IdsMoves
      <4>3. i \in Nat /\ loc[p].size \in Nat
        BY <1>0, DirFacts, SizeFacts
      <4>4. i \notin loc[p].sel /\ i <= loc[p].size
        BY <3>2, <3>4, <3>5, <4>1, <4>2, <4>3
      <4> QED BY <1>0, <3>3, <4>2, <4>4, IdsMoves
    <3> QED BY <3>6
  <2>3. CASE p \in Managers /\ Source(p) = "DIGEST" /\ Tokens(p)
    <3>1. SameIds(Source(p))
      BY <1>0, <2>3, TokensFiles
    <3>2. SameIds("DIGEST")
      BY <2>3, <3>1
    <3> QED BY <2>1, <3>2
  <2> QED BY <1>5, <2>1, <2>2, <2>3
(* What is taken out while the flags are cleared. *)
<1>9. ASSUME NEW m \in Managers, Source(m) = "DIGEST"
      PROVE  /\ pc'[m] \in {"originals", "orig_lock", "orig_flag"} => TakenOut(m)' \cap Flagged' \subseteq loc'[m].todo
             /\ pc'[m] = "compact" => TakenOut(m)' \cap Flagged' = {}
  <2> DEFINE Working == {"originals", "orig_lock", "orig_flag", "compact"}
  <2>0. SUFFICES ASSUME pc'[m] \in Working
                 PROVE  /\ pc'[m] # "compact" => TakenOut(m)' \cap Flagged' \subseteq loc'[m].todo
                        /\ pc'[m] = "compact" => TakenOut(m)' \cap Flagged' = {}
    OBVIOUS
  <2>1. /\ pc[m] \in {"originals", "orig_lock", "orig_flag"} => TakenOut(m) \cap Flagged \subseteq loc[m].todo
        /\ pc[m] = "compact" => TakenOut(m) \cap Flagged = {}
    BY <1>9 DEF FlagInv
  <2>2. Source(m)' = Source(m)
    BY <1>0
  <2>3. ASSUME file'["DIGEST"] = file["DIGEST"], loc'[m].sel = loc[m].sel, loc'[m].size = loc[m].size
        PROVE  TakenOut(m)' = TakenOut(m)
    BY <1>9, <2>2, <2>3 DEF TakenOut, View
  <2>4. CASE m # p
    <3>1. pc'[m] = pc[m] /\ loc'[m] = loc[m]
      BY <2>4, ManagerMoves
    <3>2. holder["DIGEST"] = m
      BY <1>9, <2>0, <3>1 DEF CoreInv, LockInv, OnSource
    <3>3. file'["DIGEST"] = file["DIGEST"]
      BY <1>5, <2>4, <3>2
    <3>4. TakenOut(m)' = TakenOut(m)
      BY <2>3, <3>1, <3>3
    <3> QED BY <1>4, <2>0, <2>1, <3>1, <3>4
  <2>5. CASE m = p
    <3>0. Range_(m)
      BY <1>0, <2>5, Jobs3 DEF SetsFlag, Post, Toggle, FlagMap, FlagLock, FlagFind, FlagMark, DigestLock, DigestAdd,
                      DigestFlag, DigestClear, DigestMap, DigestShift, DigestCut
    <3>1. /\ file'["DIGEST"] = file["DIGEST"]
          /\ \/ TakeOut(m) /\ loc'[m].todo = TakenOut(m)'
             \/ /\ pc[m] \in {"originals", "orig_lock", "orig_flag"}
                /\ loc'[m].sel = loc[m].sel /\ loc'[m].size = loc[m].size
                /\ OriginalFlag(m) \/ (loc'[m].todo = loc[m].todo /\ file' = file)
                /\ pc'[m] = "compact" => OriginalsDone(m)
                /\ OriginalFlag(m) => pc'[m] = "originals"
      BY <1>9, <2>0, <3>0, OriginalMoves
    <3>2. CASE TakeOut(m) /\ loc'[m].todo = TakenOut(m)'
      <4>1. pc'[m] = "originals"
        BY <1>0, <1>9, <3>2 DEF TakeOut, Goto, Types
      <4> QED BY <3>2, <4>1
    <3>3. CASE /\ pc[m] \in {"originals", "orig_lock", "orig_flag"}
               /\ loc'[m].sel = loc[m].sel /\ loc'[m].size = loc[m].size
               /\ OriginalFlag(m) \/ (loc'[m].todo = loc[m].todo /\ file' = file)
               /\ pc'[m] = "compact" => OriginalsDone(m)
               /\ OriginalFlag(m) => pc'[m] = "originals"
      <4>1. TakenOut(m)' = TakenOut(m)
        BY <2>3, <3>1, <3>3
      <4>2. TakenOut(m) \cap Flagged \subseteq loc[m].todo
        BY <2>1, <3>3
      <4>3. CASE OriginalFlag(m)
        <5>1. pc[m] = "orig_flag"
          BY <4>3 DEF OriginalFlag
        <5>2. loc[m].ent \in Nat /\ loc[m].ent > 0
          BY <1>0, <5>1, SizeFacts DEF CoreInv, PlaceInv, ManagerPlace
        <5>3. loc[m].ent \in Old .. Len(file["DIR"])
          BY <1>6, <1>9, <5>2
        <5>4. PICK id \in loc[m].todo : loc'[m].todo = loc[m].todo \ {id} /\ id \notin Flagged'
          BY <1>6, <1>9, <4>3, <5>3, OriginalFound
        <5> QED BY <1>4, <3>3, <4>1, <4>2, <4>3, <5>4
      <4>4. CASE ~OriginalFlag(m) /\ pc'[m] # "compact"
        BY <1>4, <3>3, <4>1, <4>2, <4>4
      <4>5. CASE ~OriginalFlag(m) /\ pc'[m] = "compact"
        <5>1. OriginalsDone(m) /\ file' = file
          BY <3>3, <4>5
        <5>2. loc[m].todo = {} \/ Flagged = {}
          <6>1. CASE file["DIR"] = <<>>
            BY <6>1, FlaggedFacts
          <6> QED BY <5>1, <6>1 DEF OriginalsDone
        <5> QED BY <1>4, <4>1, <4>2, <4>5, <5>2
      <4> QED BY <4>3, <4>4, <4>5
    <3> QED BY <3>1, <3>2, <3>3
  <2> QED BY <2>4, <2>5
<1>10. FlagInv'
  <2>1. (\A m \in Managers : Source(m) = "DIGEST" => Covers(m))'
    BY <1>0, <1>7
  <2>2. (\A m \in Managers : Source(m) = "DIGEST" =>
           /\ pc[m] \in {"originals", "orig_lock", "orig_flag"} => TakenOut(m) \cap Flagged \subseteq loc[m].todo
           /\ pc[m] = "compact" => TakenOut(m) \cap Flagged = {})'
    BY <1>0, <1>9
  <2>3. \A u \in Markers' : pc'[u] \notin {"digest_flag", "digest_map", "digest_shift", "digest_cut"}
    BY <1>0, <1>2 DEF Flagging
  <2> QED BY <1>8, <2>1, <2>2, <2>3 DEF FlagInv
<1>11. DirInv'
  <2>1. At(mix, "digest")' = {} /\ At(mix, "DIGEST")' = At(mix, "DIGEST")
    BY <1>0 DEF At
  <2>2. SUFFICES ASSUME At(mix, "DIGEST") # {}
                 PROVE  /\ Old <= Len(file'["DIR"]) /\ posted' = Len(file'["DIR"])
                        /\ \A i \in DOMAIN file'["DIR"] : file'["DIR"][i].id = i
                        /\ \A m \in Managers : loc'[m].ent \in {0} \cup Old .. Len(file'["DIR"])
                        /\ Flagged' \subseteq 1 .. Old
    BY <1>0, <2>1 DEF DirInv
  <2>3. /\ Old <= Len(file["DIR"]) /\ \A i \in DOMAIN file["DIR"] : file["DIR"][i].id = i
        /\ \A m \in Managers : loc[m].ent \in {0} \cup Old .. Len(file["DIR"])
        /\ Flagged \subseteq 1 .. Old /\ At(mix, "DIR") = {}
    BY <2>2 DEF DirInv
  <2>4. \A m \in Managers : Source(m) = "DIGEST"
    BY <1>0, <2>3 DEF At, Managers, Source
  <2>5. Len(file["DIR"]) \in Nat /\ DOMAIN file["DIR"] = 1 .. Len(file["DIR"]) /\ Old \in Nat
    BY <1>0, DirFacts, OldAssumption
  <2>6. /\ Len(file["DIR"]) <= Len(file'["DIR"]) /\ Len(file'["DIR"]) \in Nat /\ posted' = Len(file'["DIR"])
        /\ \A i \in DOMAIN file'["DIR"] : file'["DIR"][i].id = i
    <3>0. posted = Len(file["DIR"])
      BY <2>2 DEF DirInv
    <3>1. CASE SameIds("DIR") /\ posted' = posted
      BY <2>3, <2>5, <3>0, <3>1 DEF SameIds
    <3>2. CASE Post(p)
      <4>1. /\ posted' = posted + 1
            /\ Len(file'["DIR"]) = Len(file["DIR"]) + 1 /\ DOMAIN file'["DIR"] = 1 .. Len(file["DIR"]) + 1
            /\ \A i \in DOMAIN file["DIR"] : file'["DIR"][i] = file["DIR"][i]
            /\ file'["DIR"][Len(file["DIR"]) + 1].id = posted + 1
        BY <3>2, PostFacts
      <4>2. posted = Len(file["DIR"])
        BY <2>2 DEF DirInv
      <4>3. \A i \in DOMAIN file'["DIR"] : i \in DOMAIN file["DIR"] \/ i = Len(file["DIR"]) + 1
        BY <2>5, <4>1
      <4> QED BY <2>3, <2>5, <4>1, <4>2, <4>3
    <3> QED BY <1>0, <2>4, <3>1, <3>2, DirKinds DEF CoreInv
  <2>7. ASSUME NEW m \in Managers PROVE loc'[m].ent \in {0} \cup Old .. Len(file'["DIR"])
    <3>1. loc'[m].ent \in {0, loc[m].ent, Len(file["DIR"])}
      <4>1. CASE m # p
        BY <4>1, ManagerMoves
      <4>2. CASE m = p
        <5>1. Range_(m)
          BY <1>0, <4>2, Jobs3 DEF SetsFlag, Post, Toggle, FlagMap, FlagLock, FlagFind, FlagMark, DigestLock,
                      DigestAdd, DigestFlag, DigestClear, DigestMap, DigestShift, DigestCut
        <5> QED BY <2>4, <5>1, OriginalMoves
      <4> QED BY <4>1, <4>2
    <3> QED BY <2>3, <2>5, <2>6, <3>1
  <2> QED BY <1>4, <2>3, <2>5, <2>6, <2>7
<1> QED BY <1>10, <1>11

(* How a user goes on.                                                     *)
LEMMA MarkerMoves ==
  ASSUME CoreInv, NEW p \in Procs, Range_(p) \/ SetsFlag(p) \/ Post(p), NEW u \in Markers
  PROVE  /\ u \in Procs
         /\ u # p => pc'[u] = pc[u] /\ loc'[u] = loc[u]
         /\ u = p => SetsFlag(u)
         /\ pc'[u] \notin {"idle", "done"} =>
              (loc'[u].tgt = loc[u].tgt /\ pc[u] \notin {"idle", "done"}) \/ loc'[u].tgt \in Range(file["DIR"])
<1> USE DEF Goto
<1>0. u \in Procs /\ u \notin Managers /\ u \notin Posters /\ Types /\ loc[u] \in Local
  BY Jobs3, SizeFacts DEF CoreInv
<1>1. u # p => pc'[u] = pc[u] /\ loc'[u] = loc[u]
  BY <1>0, OneMoves DEF Only
<1>2. u = p => SetsFlag(u)
  BY <1>0 DEF Range_, Post, Choose, Stat, Insist, GiveUp, LockSource, LockBin, TakeOut, Original, OriginalLock,
              OriginalFlag, OriginalsDone, Compact, Tokens, Fault
<1>3. CASE u # p
  BY <1>0, <1>1, <1>3
<1>4. CASE u = p
  <2>1. CASE Toggle(u)
    <3>1. \E e \in Range(file["DIR"]) : loc' = [loc EXCEPT ![u].tgt = e]
      BY <2>1 DEF Toggle
    <3>2. loc'[u].tgt \in Range(file["DIR"])
      BY <1>0, <3>1 DEF Types, Local
    <3> QED BY <1>0, <1>2, <1>4, <3>2
  <2>2. CASE FlagMap(u) \/ FlagLock(u) \/ DigestLock(u) \/ DigestAdd(u) \/ DigestClear(u)
    <3>1. pc[u] \notin {"idle", "done"}
      BY <2>2 DEF FlagMap, FlagLock, DigestLock, DigestAdd, DigestClear
    <3>2. loc' = loc \/ FlagMap(u)
      BY <2>2 DEF FlagLock, DigestLock, DigestAdd, DigestClear
    <3>3. FlagMap(u) => loc'[u].tgt = loc[u].tgt
      BY <1>0 DEF FlagMap, Types, Local
    <3> QED BY <1>0, <1>2, <1>4, <3>1, <3>2, <3>3
  <2>3. CASE FlagMark(u) \/ DigestFlag(u) \/ DigestCut(u)
    <3>1. pc'[u] = "done"
      BY <1>0, <2>3 DEF FlagMark, DigestFlag, DigestCut, Finish, Types
    <3> QED BY <1>0, <1>2, <1>4, <3>1
  <2>4. CASE FlagFind(u)
    <3>1. pc[u] = "flag_find" /\ ((\E i : loc' = [loc EXCEPT ![u].ent = i]) \/ pc'[u] = "done")
      BY <1>0, <2>4 DEF FlagFind, Types
    <3>2. pc'[u] = "done" \/ loc'[u].tgt = loc[u].tgt
      BY <1>0, <3>1 DEF Types, Local
    <3> QED BY <1>0, <1>2, <1>4, <3>1, <3>2
  <2>5. CASE DigestMap(u) \/ DigestShift(u)
    <3>1. pc[u] \in {"digest_map", "digest_shift"} /\ (pc'[u] = "done" \/ loc'[u].tgt = loc[u].tgt)
      BY <1>0, <2>5 DEF DigestMap, DigestShift, Finish, Types, Local
    <3> QED BY <1>0, <1>2, <1>4, <3>1
  <2> QED BY <1>2, <1>4, <2>1, <2>2, <2>3, <2>4, <2>5 DEF SetsFlag
<1> QED BY <1>3, <1>4

(* The record that is appended, and the one that is taken out.             *)
LEMMA DigestAdds ==
  ASSUME CoreInv, NEW u \in Markers, DigestAdd(u)
  PROVE  Ids("DIGEST")' = Ids("DIGEST") \cup {loc[u].tgt.id} /\ file'["DIR"] = file["DIR"]
<1> DEFINE g == file["DIGEST"]  h == file'["DIGEST"]  new == New(file["DIR"][loc[u].ent].id)  x == loc[u].tgt.id
<1>0. Types /\ "DIGEST" \in Files /\ "DIR" \in Files /\ u \in Procs /\ MarkerPlace(u)
  BY Jobs3 DEF CoreInv, Files, PlaceInv
<1>1. x \in Nat /\ file["DIR"][loc[u].ent].id = x
  BY <1>0, SizeFacts DEF DigestAdd, MarkerPlace, Flagging
<1>2. new \in Entry /\ new.id = x
  BY <1>1, EntryFacts
<1>3. h = Append(g, new) /\ file'["DIR"] = file["DIR"]
  BY <1>0 DEF DigestAdd, Types
<1>4. g \in Seq(Entry) /\ Len(g) \in Nat /\ DOMAIN g = 1 .. Len(g)
  BY <1>0, DirFacts
<1>5. /\ \A y : y \in Ids("DIGEST")' <=> \E i \in DOMAIN h : h[i].id = y
      /\ \A y : y \in Ids("DIGEST") <=> \E i \in DOMAIN g : g[i].id = y
  BY <1>0, IdsMoves
<1> HIDE DEF g, h, new, x
<1>6. /\ DOMAIN h = 1 .. Len(g) + 1 /\ h[Len(g) + 1] = new
      /\ \A i \in 1 .. Len(g) : h[i] = g[i]
  BY <1>2, <1>3, <1>4
<1>7. /\ \A i \in DOMAIN h : i \in DOMAIN g \/ i = Len(g) + 1
      /\ \A i \in DOMAIN g : i \in DOMAIN h /\ h[i] = g[i]
      /\ Len(g) + 1 \in DOMAIN h
  BY <1>4, <1>6
<1>8. \A y : y \in Ids("DIGEST")' <=> y \in Ids("DIGEST") \/ y = x
  BY <1>2, <1>5, <1>6, <1>7
<1>9. Ids("DIGEST")' = Ids("DIGEST") \cup {x}
  BY <1>8
<1> QED BY <1>3, <1>9 DEF x

LEMMA DigestShifts ==
  ASSUME CoreInv, NEW u \in Markers, DigestShift(u), loc[u].size = Len(file["DIGEST"])
  PROVE  \/ file' = file /\ pc'[u] = "done"
         \/ /\ pc'[u] = "digest_cut" /\ loc' = loc /\ Len(file'["DIGEST"]) = Len(file["DIGEST"])
            /\ \A y \in Ids("DIGEST") : y # loc[u].tgt.id => y \in Front("DIGEST", loc[u].size - 1)'
<1> DEFINE n == loc[u].size  g == file["DIGEST"]  h == file'["DIGEST"]  view == View("DIGEST", n)
           x == loc[u].tgt.id  hits == {i \in 1 .. n : view[i].id = x}
           e == CHOOSE i \in hits : \A j \in hits : i <= j
<1>0. Types /\ "DIGEST" \in Files /\ u \in Procs /\ n \in Nat /\ n \in Int /\ file \in [Files -> Seq(Entry)]
  BY Jobs3, SizeFacts DEF CoreInv, Files, Types
<1>1. g \in Seq(Entry) /\ Len(g) = n /\ DOMAIN g = 1 .. n
  BY <1>0, DirFacts
<1>2. Len(view) = n /\ DOMAIN view = 1 .. n /\ \A i \in 1 .. n : i <= Len(g) => view[i] = g[i]
  BY <1>0, Viewed
<1>3. CASE hits = {}
  BY <1>0, <1>3 DEF DigestShift, Finish, Goto, Types
<1>4. CASE hits # {}
  <2>1. /\ file' = [file EXCEPT !["DIGEST"] = MoveOver(@, view, e)]
        /\ Goto(u, "digest_cut") /\ UNCHANGED <<holder, loc>>
    BY <1>4 DEF DigestShift
  <2>2. hits \in SUBSET Nat
    BY <1>0
  <2>3. e \in hits
    <3> HIDE DEF hits
    <3> QED BY <1>4, <2>2, LeastNat
  <2>4. e \in 1 .. n /\ view[e].id = x
    BY <2>3
  <2>5. h = MoveOver(g, view, e)
    BY <1>0, <2>1 DEF Types
  <2>6. pc'[u] = "digest_cut" /\ loc' = loc
    BY <1>0, <2>1 DEF Goto, Types
  <2>7. \A y : y \in Ids("DIGEST") <=> \E i \in DOMAIN g : g[i].id = y
    BY <1>0, IdsMoves
  <2>8. \A y : y \in Front("DIGEST", loc[u].size - 1)' <=> \E i \in DOMAIN h : i <= n - 1 /\ h[i].id = y
    BY <2>6 DEF Front
  <2> HIDE DEF g, h, view, e, n, x, hits
  <2>9. /\ DOMAIN h = 1 .. n
        /\ \A i \in 1 .. n : h[i] = IF e <= i /\ i < n THEN view[i + 1] ELSE g[i]
    BY <1>1, <1>2, <2>5 DEF MoveOver
  <2>10. Len(h) = n
    <3>1. h \in [1 .. n -> Entry]
      <4>1. \A i \in 1 .. n : (IF e <= i /\ i < n THEN view[i + 1] ELSE g[i]) \in Entry
        BY <1>0, <1>1, <1>2
      <4> QED BY <1>1, <1>2, <2>5, <4>1 DEF MoveOver
    <3>2. n \in Nat
      BY <1>0 DEF n
    <3> QED BY <3>1, <3>2, FunSeq
  <2>11. ASSUME NEW y \in Ids("DIGEST"), y # x PROVE y \in Front("DIGEST", loc[u].size - 1)'
    <3>1. PICK i \in 1 .. n : g[i].id = y
      BY <1>1, <2>7
    <3>2. n \in Nat /\ e \in 1 .. n /\ g[e].id = x /\ i # e
      BY <1>0, <1>1, <1>2, <2>4, <2>11, <3>1 DEF n
    <3>3. CASE i < e
      <4>1. i \in DOMAIN h /\ i <= n - 1 /\ h[i] = g[i]
        BY <2>9, <3>2, <3>3
      <4> QED BY <2>8, <3>1, <4>1
    <3>4. CASE i > e
      <4>1. i - 1 \in 1 .. n /\ i - 1 <= n - 1 /\ e <= i - 1 /\ i - 1 < n /\ (i - 1) + 1 = i
        BY <3>2, <3>4
      <4>2. h[i - 1] = view[i] /\ view[i] = g[i]
        BY <1>1, <1>2, <2>9, <3>2, <4>1
      <4> QED BY <2>8, <2>9, <3>1, <4>1, <4>2
    <3> QED BY <3>2, <3>3, <3>4
  <2> QED BY <1>1, <2>6, <2>10, <2>11 DEF g, h, n, x
<1> QED BY <1>3, <1>4

LEMMA DigestCuts ==
  ASSUME CoreInv, NEW u \in Markers, DigestCut(u), loc[u].size = Len(file["DIGEST"])
  PROVE  Front("DIGEST", loc[u].size - 1) \subseteq Ids("DIGEST")'
<1> DEFINE n == loc[u].size - 1  g == file["DIGEST"]  h == file'["DIGEST"]
<1>0. Types /\ "DIGEST" \in Files /\ u \in Procs /\ n \in Int /\ MarkerPlace(u) /\ file \in [Files -> Seq(Entry)]
  BY Jobs3, SizeFacts DEF CoreInv, Files, PlaceInv, Types
<1>1. h = View("DIGEST", n)
  BY <1>0 DEF DigestCut, Types
<1>2. DOMAIN g = 1 .. n + 1 /\ n \in Nat
  <2>1. loc[u].size \in Nat /\ loc[u].size >= 1
    BY <1>0, SizeFacts DEF DigestCut, MarkerPlace
  <2> QED BY <1>0, <2>1, DirFacts
<1>3. DOMAIN h = 1 .. n /\ \A i \in 1 .. n : i <= Len(g) => h[i] = g[i]
  BY <1>0, <1>1, Viewed
<1>4. \A y : y \in Ids("DIGEST")' <=> \E i \in DOMAIN h : h[i].id = y
  BY <1>0, IdsMoves
<1>5. \A y \in Front("DIGEST", n) : \E i \in DOMAIN g : i <= n /\ g[i].id = y
  BY DEF Front
<1>6. Len(g) = n + 1
  BY <1>0
<1> HIDE DEF n, g, h
<1>7. \A i \in DOMAIN g : i <= n => i \in DOMAIN h /\ h[i] = g[i]
  BY <1>2, <1>3, <1>6
<1> QED BY <1>4, <1>5, <1>7 DEF n

(* Users who toggle the digest flag, and at most one manager, of .DIR.     *)
LEMMA FlagStepUsers ==
  ASSUME CoreInv, CoreInv', OnceInv, FlagInv, DirInv, At(mix, "DIGEST") = {}, At(mix, "digest") # {},
         \A x, y \in At(mix, "DIR") : x = y,
         NEW p \in Procs, Range_(p) \/ SetsFlag(p) \/ Post(p)
  PROVE  FlagInv' /\ DirInv'
<1> USE DEF Goto
<1>0. /\ Types /\ "DIR" \in Files /\ "DIGEST" \in Files /\ mix' = mix /\ Managers' = Managers /\ Markers' = Markers
      /\ \A m \in Managers : Source(m)' = Source(m) /\ m \in Procs
  BY OneMoves, Same, Jobs3 DEF CoreInv, Files, Only
<1>1. /\ \A m \in Managers : Source(m) = "DIR"
      /\ \A m, l \in Managers : m = l
  BY <1>0 DEF At, Managers, Source
<1>2. /\ 0 \notin Ids("DIR")
      /\ \A u \in Markers : pc[u] \notin {"idle", "done"} => loc[u].tgt.id # 0
      /\ \A m \in Managers : pc[m] \in Going \cup {"tokens"} => loc[m].size <= Len(file["DIR"])
  BY DEF DirInv
<1>3. /\ Flagged \subseteq Ids("DIGEST")
      /\ \A u \in Markers :
           /\ pc[u] = "digest_flag" => loc[u].tgt.id \in Ids("DIGEST")
           /\ pc[u] \in {"digest_map", "digest_shift", "digest_cut"} => loc[u].tgt.id \notin Flagged
           /\ pc[u] \in {"digest_shift", "digest_cut"} => loc[u].size = Len(file["DIGEST"])
           /\ pc[u] = "digest_cut" => Flagged \subseteq Front("DIGEST", loc[u].size - 1)
  BY DEF FlagInv
<1>4. \A u \in Markers : u \in Procs /\ MarkerPlace(u) /\ (pc[u] \in Flagging => holder["DIR"] = u)
  BY Jobs3 DEF CoreInv, PlaceInv, LockInv
<1>d. /\ Len(file["DIR"]) \in Nat /\ DOMAIN file["DIR"] = 1 .. Len(file["DIR"])
      /\ \A x : x \in Ids("DIR") <=> \E i \in DOMAIN file["DIR"] : file["DIR"][i].id = x
      /\ \A x : x \in Ids("DIR")' <=> \E i \in DOMAIN file'["DIR"] : file'["DIR"][i].id = x
  BY <1>0, DirFacts, IdsMoves
(* .DIR stays without empty entries. *)
<1>5. DirInv'
  <2>1. 0 \notin Ids("DIR")'
    <3>1. CASE SameIds("DIR")
      BY <1>0, <1>2, <3>1, IdsMoves
    <3>2. CASE p \in Managers /\ Source(p) = "DIR" /\ Compact(p)
      <4>1. /\ loc[p].size <= Len(file["DIR"])
            /\ loc[p].size \in Nat
        BY <1>0, <1>2, <3>2, SizeFacts DEF Compact, Going
      <4>2. \A k \in DOMAIN file'["DIR"] :
              \/ loc[p].size > Len(file["DIR"])
              \/ \E i \in DOMAIN file["DIR"] : file'["DIR"][k].id = file["DIR"][i].id
        BY <3>2, Compaction
      <4>3. \A k \in DOMAIN file'["DIR"] : \E i \in DOMAIN file["DIR"] : file'["DIR"][k].id = file["DIR"][i].id
        BY <1>d, <4>1, <4>2
      <4> QED BY <1>2, <1>d, <4>3
    <3>3. CASE Post(p)
      <4>1. Ids("DIR")' = Ids("DIR") \cup {posted + 1} /\ posted \in Nat
        BY <3>3, PostFacts
      <4> QED BY <1>2, <4>1
    <3> QED BY <1>0, <3>1, <3>2, <3>3, DirKinds DEF CoreInv
  <2>2. ASSUME NEW u \in Markers, pc'[u] \notin {"idle", "done"} PROVE loc'[u].tgt.id # 0
    <3>1. \A e \in Range(file["DIR"]) : e.id # 0
      BY <1>2 DEF Ids
    <3> QED BY <1>2, <2>2, <3>1, MarkerMoves
  <2>3. ASSUME NEW m \in Managers, pc'[m] \in Going \cup {"tokens"} PROVE loc'[m].size <= Len(file'["DIR"])
    <3>1. ~(p \in Managers /\ Compact(p))
      <4>1. ASSUME p \in Managers, Compact(p) PROVE FALSE
        <5>1. m = p /\ pc'[p] = "done"
          BY <1>0, <1>1, <4>1 DEF Compact, Types
        <5> QED BY <2>3, <5>1 DEF Going
      <4> QED BY <4>1
    <3>2. Len(file["DIR"]) <= Len(file'["DIR"]) /\ Len(file'["DIR"]) \in Nat
      <4>1. CASE SameIds("DIR")
        BY <1>d, <4>1 DEF SameIds
      <4>2. CASE Post(p)
        BY <1>d, <4>2, PostFacts
      <4> QED BY <1>0, <3>1, <4>1, <4>2, DirKinds DEF CoreInv
    <3>3. \/ loc'[m].size = Len(file["DIR"])
          \/ pc[m] \in Going \cup {"tokens"} /\ loc'[m].size = loc[m].size
      BY <1>1, <2>3, ManagerMoves
    <3>4. loc[m].size \in Nat
      BY <1>0, SizeFacts
    <3>5. loc'[m].size <= Len(file["DIR"]) /\ loc'[m].size \in Nat
      BY <1>2, <1>d, <3>3, <3>4
    <3> QED BY <1>d, <3>2, <3>5
  <2>4. At(mix, "digest")' = At(mix, "digest") /\ At(mix, "DIGEST")' = {}
    BY <1>0 DEF At
  <2>5. (\A u \in Markers : pc[u] \notin {"idle", "done"} /\ At(mix, "digest") # {} => loc[u].tgt.id # 0)'
    BY <1>0, <2>2
  <2>6. (\A m \in Managers : pc[m] \in Going \cup {"tokens"} => loc[m].size <= Len(file["DIR"]))'
    BY <1>0, <2>3
  <2> QED BY <2>1, <2>4, <2>5, <2>6 DEF DirInv
(* The digest is changed by who has .DIR. *)
<1>6. CASE ~(p \in Markers /\ pc[p] \in Flagging)
  <2>1. file'["DIGEST"] = file["DIGEST"]
    BY <1>1, <1>6, DigestKinds DEF DigestAdd, DigestShift, DigestCut, Flagging
  <2>2. Flagged' \subseteq Flagged
    BY <1>6, FlaggedMoves DEF DigestFlag, Flagging
  <2>3. Ids("DIGEST")' = Ids("DIGEST")
    BY <1>0, <2>1, IdsMoves
  <2>4. ASSUME NEW u \in Markers, pc'[u] \in Flagging \ {"flag_find"}
        PROVE  pc[u] = pc'[u] /\ loc'[u] = loc[u]
    <3>1. CASE u # p
      BY <3>1, MarkerMoves
    <3>2. CASE u = p
      <4>1. SetsFlag(u) /\ pc[u] \notin Flagging
        BY <1>6, <3>2, MarkerMoves
      <4>2. Toggle(u) \/ FlagMap(u) \/ FlagLock(u)
        BY <4>1 DEF SetsFlag, FlagFind, FlagMark, DigestLock, DigestAdd, DigestFlag, DigestClear,
                    DigestMap, DigestShift, DigestCut, Flagging
      <4>3. pc'[u] \in {"flag_map", "flag_lock", "flag_find"}
        BY <1>0, <1>4, <4>2 DEF Toggle, FlagMap, FlagLock, Types
      <4> QED BY <2>4, <4>3 DEF Flagging
    <3> QED BY <3>1, <3>2
  <2>5. ASSUME NEW u \in Markers
        PROVE  /\ pc'[u] = "digest_flag" => loc'[u].tgt.id \in Ids("DIGEST")'
               /\ pc'[u] \in {"digest_map", "digest_shift", "digest_cut"} => loc'[u].tgt.id \notin Flagged'
               /\ pc'[u] \in {"digest_shift", "digest_cut"} => loc'[u].size = Len(file'["DIGEST"])
               /\ pc'[u] = "digest_cut" => Flagged' \subseteq Front("DIGEST", loc[u].size - 1)'
    <3>1. SUFFICES ASSUME pc'[u] \in {"digest_flag", "digest_map", "digest_shift", "digest_cut"}
                   PROVE  /\ pc'[u] = "digest_flag" => loc'[u].tgt.id \in Ids("DIGEST")'
                          /\ pc'[u] \in {"digest_map", "digest_shift", "digest_cut"} => loc'[u].tgt.id \notin Flagged'
                          /\ pc'[u] \in {"digest_shift", "digest_cut"} => loc'[u].size = Len(file'["DIGEST"])
                          /\ pc'[u] = "digest_cut" => Flagged' \subseteq Front("DIGEST", loc[u].size - 1)'
      OBVIOUS
    <3>2. pc[u] = pc'[u] /\ loc'[u] = loc[u]
      BY <2>4, <3>1 DEF Flagging
    <3>3. Front("DIGEST", loc[u].size - 1)' = Front("DIGEST", loc[u].size - 1)
      BY <2>1, <3>2 DEF Front
    <3> QED BY <1>3, <2>1, <2>2, <2>3, <3>2, <3>3
  <2>6. (\A u \in Markers :
           /\ pc[u] = "digest_flag" => loc[u].tgt.id \in Ids("DIGEST")
           /\ pc[u] \in {"digest_map", "digest_shift", "digest_cut"} => loc[u].tgt.id \notin Flagged
           /\ pc[u] \in {"digest_shift", "digest_cut"} => loc[u].size = Len(file["DIGEST"])
           /\ pc[u] = "digest_cut" => Flagged \subseteq Front("DIGEST", loc[u].size - 1))'
    BY <1>0, <2>5
  <2>7. \A m \in Managers' : Source(m)' # "DIGEST"
    BY <1>0, <1>1
  <2>8. Flagged' \subseteq Ids("DIGEST")'
    BY <1>3, <2>2, <2>3
  <2> QED BY <1>5, <2>6, <2>7, <2>8 DEF FlagInv
<1>7. CASE p \in Markers /\ pc[p] \in Flagging
  <2> SUFFICES FlagInv'
    BY <1>5
  <2> DEFINE x == loc[p].tgt.id
  <2>1. holder["DIR"] = p /\ SetsFlag(p) /\ loc[p] \in Local /\ x # 0 /\ pc[p] \notin {"idle", "done"}
    BY <1>0, <1>2, <1>4, <1>7, MarkerMoves, SizeFacts DEF Flagging
  <2>2. \A u \in Markers : u # p => pc[u] \notin Flagging /\ pc'[u] \notin Flagging
    BY <1>4, <2>1, MarkerMoves
  <2>3. \A m \in Managers' : Source(m)' # "DIGEST"
    BY <1>0, <1>1
  (* What is left to show, of the one who has the lock. *)
  <2>4. ASSUME Flagged' \subseteq Ids("DIGEST")',
               pc'[p] = "digest_flag" => loc'[p].tgt.id \in Ids("DIGEST")',
               pc'[p] \in {"digest_map", "digest_shift", "digest_cut"} => loc'[p].tgt.id \notin Flagged',
               pc'[p] \in {"digest_shift", "digest_cut"} => loc'[p].size = Len(file'["DIGEST"]),
               pc'[p] = "digest_cut" => Flagged' \subseteq Front("DIGEST", loc[p].size - 1)'
        PROVE  FlagInv'
    <3>1. ASSUME NEW u \in Markers
          PROVE  /\ pc'[u] = "digest_flag" => loc'[u].tgt.id \in Ids("DIGEST")'
                 /\ pc'[u] \in {"digest_map", "digest_shift", "digest_cut"} => loc'[u].tgt.id \notin Flagged'
                 /\ pc'[u] \in {"digest_shift", "digest_cut"} => loc'[u].size = Len(file'["DIGEST"])
                 /\ pc'[u] = "digest_cut" => Flagged' \subseteq Front("DIGEST", loc[u].size - 1)'
      <4>1. CASE u = p
        BY <2>4, <4>1
      <4>2. CASE u # p
        BY <2>2, <4>2 DEF Flagging
      <4> QED BY <4>1, <4>2
    <3>2. (\A u \in Markers :
             /\ pc[u] = "digest_flag" => loc[u].tgt.id \in Ids("DIGEST")
             /\ pc[u] \in {"digest_map", "digest_shift", "digest_cut"} => loc[u].tgt.id \notin Flagged
             /\ pc[u] \in {"digest_shift", "digest_cut"} => loc[u].size = Len(file["DIGEST"])
             /\ pc[u] = "digest_cut" => Flagged \subseteq Front("DIGEST", loc[u].size - 1))'
      BY <1>0, <3>1
    <3> QED BY <2>3, <2>4, <3>2 DEF FlagInv
  (* A step that leaves the digest and the flags alone, and what follows. *)
  <2>5. ASSUME file'["DIGEST"] = file["DIGEST"], Flagged' \subseteq Flagged,
               pc'[p] \notin {"digest_flag", "digest_map", "digest_shift", "digest_cut"}
        PROVE  FlagInv'
    <3>1. Ids("DIGEST")' = Ids("DIGEST")
      BY <1>0, <2>5, IdsMoves
    <3> QED BY <1>3, <2>4, <2>5, <3>1
  <2>6. DigestFlag(p) \/ Flagged' \subseteq Flagged
    BY FlaggedMoves
  <2>7. CASE FlagFind(p) \/ FlagMark(p) \/ DigestLock(p)
    <3>1. pc'[p] \in {"flag_mark", "digest_clear", "digest_lock", "digest_add", "done"}
      BY <1>0, <2>7 DEF FlagFind, FlagMark, DigestLock, Finish, Types
    <3>2. ~DigestFlag(p) /\ file'["DIGEST"] = file["DIGEST"]
      BY <1>0, <2>7 DEF FlagFind, FlagMark, DigestLock, DigestFlag, SetFlag, Types
    <3> QED BY <2>5, <2>6, <3>1, <3>2
  <2>8. CASE DigestAdd(p)
    <3>1. Ids("DIGEST")' = Ids("DIGEST") \cup {x}
      BY <1>7, <2>8, DigestAdds
    <3>2. loc' = loc /\ pc'[p] = "digest_flag" /\ ~DigestFlag(p)
      BY <1>0, <2>8 DEF DigestAdd, DigestFlag, Types
    <3> QED BY <1>3, <2>4, <2>6, <3>1, <3>2
  <2>9. CASE DigestFlag(p)
    <3>1. Flagged' \subseteq Flagged \cup {x}
      BY <2>9, FlaggedMoves
    <3>2. pc'[p] = "done" /\ pc[p] = "digest_flag" /\ file'["DIGEST"] = file["DIGEST"]
      BY <1>0, <2>9 DEF DigestFlag, Finish, SetFlag, Types
    <3>3. Ids("DIGEST")' = Ids("DIGEST") /\ x \in Ids("DIGEST")
      BY <1>0, <1>3, <1>7, <3>2, IdsMoves
    <3> QED BY <1>3, <2>4, <3>1, <3>2, <3>3
  <2>10. CASE DigestClear(p)
    <3>1. pc'[p] = "digest_map" /\ loc' = loc /\ file'["DIGEST"] = file["DIGEST"] /\ pc[p] = "digest_clear"
          /\ ~DigestFlag(p) /\ SetFlag(p, "digest", FALSE)
      BY <1>0, <2>10 DEF DigestClear, SetFlag, DigestFlag, Types
    <3>2. /\ SameIds("DIR") /\ ~file'["DIR"][loc[p].ent].digest
          /\ loc[p].ent \in DOMAIN file["DIR"] /\ file["DIR"][loc[p].ent].id = x
      BY <1>0, <1>4, <1>7, <3>1, SetFlagFiles DEF MarkerPlace, Flagging
    <3>3. x \notin Flagged'
      <4>1. SUFFICES ASSUME NEW i \in DOMAIN file'["DIR"], file'["DIR"][i].digest, file'["DIR"][i].id = x PROVE FALSE
        BY FlaggedFacts
      <4>2. i \in DOMAIN file["DIR"] /\ file["DIR"][i].id = x
        BY <3>2, <4>1 DEF SameIds
      <4>3. i = loc[p].ent
        BY <2>1, <3>2, <4>2 DEF OnceInv, Once
      <4> QED BY <3>2, <4>1, <4>3
    <3>4. Ids("DIGEST")' = Ids("DIGEST")
      BY <1>0, <3>1, IdsMoves
    <3> QED BY <1>3, <2>4, <2>6, <3>1, <3>3, <3>4
  <2>11. CASE DigestMap(p)
    <3>1. file' = file /\ pc[p] = "digest_map" /\ ~DigestFlag(p)
      BY <2>11 DEF DigestMap, DigestFlag
    <3>2. \/ pc'[p] = "digest_shift" /\ loc'[p].size = Len(file["DIGEST"]) /\ loc'[p].tgt = loc[p].tgt
          \/ pc'[p] = "done"
      BY <1>0, <2>1, <2>11 DEF DigestMap, Finish, Types, Local
    <3>3. Ids("DIGEST")' = Ids("DIGEST")
      BY <1>0, <3>1, IdsMoves
    <3> QED BY <1>3, <1>7, <2>4, <2>6, <3>1, <3>2, <3>3
  <2>12. CASE DigestShift(p)
    <3>1. pc[p] = "digest_shift" /\ ~DigestFlag(p)
      BY <2>12 DEF DigestShift, DigestFlag
    <3>2. loc[p].size = Len(file["DIGEST"]) /\ x \notin Flagged
      BY <1>3, <1>7, <3>1
    <3>3. \/ file' = file /\ pc'[p] = "done"
          \/ /\ pc'[p] = "digest_cut" /\ loc' = loc /\ Len(file'["DIGEST"]) = Len(file["DIGEST"])
             /\ \A y \in Ids("DIGEST") : y # x => y \in Front("DIGEST", loc[p].size - 1)'
      BY <1>7, <2>12, <3>2, DigestShifts
    <3>4. CASE file' = file /\ pc'[p] = "done"
      BY <2>5, <2>6, <3>1, <3>4
    <3>5. CASE /\ pc'[p] = "digest_cut" /\ loc' = loc /\ Len(file'["DIGEST"]) = Len(file["DIGEST"])
               /\ \A y \in Ids("DIGEST") : y # x => y \in Front("DIGEST", loc[p].size - 1)'
      <4>1. Flagged' \subseteq Flagged
        BY <2>6, <3>1
      <4>2. Flagged' \subseteq Front("DIGEST", loc[p].size - 1)'
        BY <1>3, <3>2, <3>5, <4>1
      <4>3. Front("DIGEST", loc[p].size - 1)' \subseteq Ids("DIGEST")'
        BY <1>0, IdsMoves DEF Front
      <4>4. Flagged' \subseteq Ids("DIGEST")'
        BY <4>2, <4>3
      <4> QED BY <2>4, <3>2, <3>5, <4>1, <4>2, <4>4
    <3> QED BY <3>3, <3>4, <3>5
  <2>13. CASE DigestCut(p)
    <3>1. pc[p] = "digest_cut" /\ pc'[p] = "done" /\ ~DigestFlag(p)
      BY <1>0, <2>13 DEF DigestCut, Finish, DigestFlag, Types
    <3>2. loc[p].size = Len(file["DIGEST"]) /\ Flagged \subseteq Front("DIGEST", loc[p].size - 1)
      BY <1>3, <1>7, <3>1
    <3>3. Front("DIGEST", loc[p].size - 1) \subseteq Ids("DIGEST")'
      BY <1>7, <2>13, <3>2, DigestCuts
    <3> QED BY <2>4, <2>6, <3>1, <3>2, <3>3
  <2>14. ~(Toggle(p) \/ FlagMap(p) \/ FlagLock(p))
    BY <1>7 DEF Toggle, FlagMap, FlagLock, Flagging
  <2> QED BY <2>1, <2>7, <2>8, <2>9, <2>10, <2>11, <2>12, <2>13, <2>14 DEF SetsFlag
<1> QED BY <1>6, <1>7

(* Users who put articles into the digest and managers of .DIGEST are not  *)
(* both at work, and only one manager of .DIR is where users are.          *)
FlagSafe == CoreInv /\ OnceInv /\ FlagInv /\ DirInv /\ OneSideOfDigest(mix)

LEMMA InitFlag == Init /\ OneSideOfDigest(mix) => FlagSafe
<1> SUFFICES ASSUME Init, OneSideOfDigest(mix) PROVE FlagSafe
  OBVIOUS
<1>0. CoreInv /\ "DIR" \in Files /\ Old \in Nat
  BY InitCore, OldAssumption DEF Files
<1>1. /\ posted = Old /\ Len(file["DIR"]) = Old /\ DOMAIN file["DIR"] = 1 .. Old
      /\ \A i \in 1 .. Old : file["DIR"][i].id = i /\ (file["DIR"][i].digest <=> i \in mix.digested)
      /\ mix.digested \subseteq Ids("DIGEST")
      /\ \A p \in Procs : pc[p] = "idle" /\ loc[p].ent = 0
  BY InitFiles DEF Fresh
<1>2. Ids("DIR") = 1 .. Old
  <2>1. \A x : x \in Ids("DIR") <=> x \in 1 .. Old
    BY <1>0, <1>1, IdsMoves
  <2> QED BY <2>1
<1>3. OnceInv
  BY <1>0, <1>1, <1>2 DEF OnceInv, Once
<1>4. Flagged \subseteq mix.digested /\ Flagged \subseteq 1 .. Old
  BY <1>1, FlaggedFacts
<1>5. FlagInv
  <2>1. Flagged \subseteq Ids("DIGEST")
    BY <1>1, <1>4
  <2> QED BY <1>1, <2>1, Jobs3 DEF FlagInv, Covers, Going
<1>6. DirInv
  BY <1>0, <1>1, <1>2, <1>4, Jobs3 DEF DirInv, Going
<1> QED BY <1>0, <1>3, <1>5, <1>6 DEF FlagSafe

LEMMA FlagStep == FlagSafe /\ [Next]_vars => FlagSafe'
<1> SUFFICES ASSUME FlagSafe, [Next]_vars PROVE FlagSafe'
  OBVIOUS
<1>1. CoreInv'
  BY CoreStep DEF FlagSafe
<1>2. CASE UNCHANGED vars
  <2>1. mix' = mix /\ file' = file /\ pc' = pc /\ loc' = loc /\ posted' = posted
    BY <1>2 DEF vars
  <2>2. /\ Managers' = Managers /\ Markers' = Markers /\ Flagged' = Flagged
        /\ Ids("DIR")' = Ids("DIR") /\ Ids("DIGEST")' = Ids("DIGEST")
        /\ OneSideOfDigest(mix)' <=> OneSideOfDigest(mix)
        /\ Once("DIR")' <=> Once("DIR")
    BY <2>1 DEF Managers, Markers, Flagged, Ids, Once, OneSideOfDigest, At
  <2>3. ASSUME NEW m \in Managers
        PROVE  Source(m)' = Source(m) /\ (Covers(m)' <=> Covers(m)) /\ TakenOut(m)' = TakenOut(m)
    BY <2>1 DEF Source, Covers, TakesOut, TakenOut, View
  <2>4. OnceInv'
    BY <2>1, <2>2 DEF FlagSafe, OnceInv
  <2>5. FlagInv'
    <3>1. (\A m \in Managers : Source(m) = "DIGEST" => Covers(m))'
      BY <2>2, <2>3 DEF FlagSafe, FlagInv
    <3>2. \A u \in Markers : Front("DIGEST", loc[u].size - 1)' = Front("DIGEST", loc[u].size - 1)
      BY <2>1 DEF Front
    <3>3. (\A u \in Markers :
             /\ pc[u] = "digest_flag" => loc[u].tgt.id \in Ids("DIGEST")
             /\ pc[u] \in {"digest_map", "digest_shift", "digest_cut"} => loc[u].tgt.id \notin Flagged
             /\ pc[u] \in {"digest_shift", "digest_cut"} => loc[u].size = Len(file["DIGEST"])
             /\ pc[u] = "digest_cut" => Flagged \subseteq Front("DIGEST", loc[u].size - 1))'
      BY <2>1, <2>2, <3>2 DEF FlagSafe, FlagInv
    <3>4. (\A m \in Managers : Source(m) = "DIGEST" =>
             /\ pc[m] \in {"originals", "orig_lock", "orig_flag"} => TakenOut(m) \cap Flagged \subseteq loc[m].todo
             /\ pc[m] = "compact" => TakenOut(m) \cap Flagged = {})'
      BY <2>1, <2>2, <2>3 DEF FlagSafe, FlagInv
    <3> QED BY <2>2, <3>1, <3>3, <3>4 DEF FlagSafe, FlagInv
  <2>6. DirInv'
    BY <2>1, <2>2 DEF FlagSafe, DirInv, At
  <2> QED BY <1>1, <2>2, <2>4, <2>5, <2>6 DEF FlagSafe
<1>3. ASSUME NEW p \in Procs, Range_(p) \/ SetsFlag(p) \/ Post(p) PROVE FlagSafe'
  <2>1. mix' = mix /\ OneSideOfDigest(mix)'
    BY <1>3, OneMoves DEF FlagSafe, CoreInv, Only, OneSideOfDigest, At
  <2>2. OnceInv'
    BY <1>3, OnceStep DEF FlagSafe
  <2>3. CASE At(mix, "digest") = {}
    <3>1. At(mix, "DIR") = {} \/ At(mix, "DIGEST") = {}
      BY DEF FlagSafe, OneSideOfDigest
    <3> QED BY <1>1, <1>3, <2>1, <2>2, <2>3, <3>1, FlagStepManagers DEF FlagSafe
  <2>4. CASE At(mix, "digest") # {}
    <3>1. At(mix, "DIGEST") = {} /\ \A x, y \in At(mix, "DIR") : x = y
      BY <2>4 DEF FlagSafe, OneSideOfDigest
    <3> QED BY <1>1, <1>3, <2>1, <2>2, <2>4, <3>1, FlagStepUsers DEF FlagSafe
  <2> QED BY <2>3, <2>4
<1> QED BY <1>2, <1>3 DEF Next

(* An article with the digest flag is in the digest: change_post_flag puts *)
(* it there before it sets the flag and takes the flag before it takes it  *)
(* out, and delete_range_base for .DIGEST takes the flags of the originals *)
(* before it compacts.  For all mixes in which the two kinds of work on    *)
(* the digest do not meet, nor two managers where users set flags.         *)
THEOREM FlaggedIsInDigest == Spec /\ OneSideOfDigest(mix) => []FlagMeansDigest
<1>1. FlagSafe => FlagMeansDigest
  BY DEF FlagSafe, FlagInv, Flagged, FlagMeansDigest
<1> QED BY <1>1, InitFlag, FlagStep, PTL DEF Spec

-----------------------------------------------------------------------------
(* The search by id, which the originals of the digest are looked up with: *)
(* right for tables of any length.  The invariant is Bracket: the loop has *)
(* excluded the part below low because it saw a smaller id just below low, *)
(* and the part above high because it saw a larger one just above.         *)

SearchInv == SearchTypeOK /\ Bracket /\ ResultIsHitOrGap

LEMMA TableIs ==
  ASSUME SearchTypeOK
  PROVE  /\ table \in Seq([id : Int]) /\ Len(table) \in Nat
         /\ DOMAIN table = 1 .. Len(table)
         /\ \A i \in 1 .. Len(table) : table[i].id \in Int
         /\ key \in Int
<1>1. table \in Seq([id : Int]) /\ key \in Int
  BY TablesAssumption, KeysAssumption DEF SearchTypeOK
<1>2. Len(table) \in Nat /\ DOMAIN table = 1 .. Len(table)
  BY <1>1
<1>3. ASSUME NEW i \in 1 .. Len(table) PROVE table[i].id \in Int
  <2> DEFINE S == [id : Int]
  <2>1. \A r \in S : r.id \in Int  OBVIOUS
  <2>2. table \in Seq(S)  BY <1>1
  <2> HIDE DEF S
  <2>3. table[i] \in S  BY <1>2, <2>2
  <2> QED  BY <2>1, <2>3
<1> QED  BY <1>1, <1>2, <1>3

(* While something is left to search, the middle of it is in the table.    *)
LEMMA MidInside ==
  ASSUME SearchTypeOK, low <= high
  PROVE  /\ mid \in Int /\ low <= mid /\ mid <= high
         /\ mid + 1 \in 1 .. Len(table) /\ Probed \in Int
<1>1. low \in Nat /\ high \in Int /\ high <= Len(table) - 1 /\ low >= 0
  BY TableIs DEF SearchTypeOK
<1>2. mid \in Int /\ low <= mid /\ mid <= high
  BY <1>1 DEF mid
<1>3. mid + 1 \in 1 .. Len(table)
  BY <1>1, <1>2, TableIs
<1> QED  BY <1>2, <1>3, TableIs DEF Probed

LEMMA SearchStarts == SearchInit => SearchInv
<1> SUFFICES ASSUME SearchInit PROVE SearchInv
  OBVIOUS
<1>1. Len(table) \in Nat
  BY TablesAssumption DEF SearchInit
<1>2. SearchTypeOK
  <2>1. low \in 0 .. Len(table) /\ high \in -1 .. Len(table) - 1
    BY <1>1 DEF SearchInit
  <2>2. table \in Tables /\ key \in Keys /\ returned \in BOOLEAN
    BY Zenon DEF SearchInit
  <2>3. ret \in Int
    BY DEF SearchInit
  <2> QED  BY <2>1, <2>2, <2>3 DEF SearchTypeOK
<1>3. Bracket
  BY <1>1 DEF SearchInit, Bracket
<1> QED  BY <1>2, <1>3 DEF SearchInit, SearchInv, ResultIsHitOrGap

(* Every step of the loop keeps the invariant. *)
LEMMA SearchSteps == SearchInv /\ [SearchNext]_searchVars => SearchInv'
<1> SUFFICES ASSUME SearchInv, [SearchNext]_searchVars PROVE SearchInv'
  OBVIOUS
<1> USE DEF SearchInv
<1>0. /\ Len(table) \in Nat /\ DOMAIN table = 1 .. Len(table)
      /\ low \in Nat /\ low <= Len(table)
      /\ high \in Int /\ -1 <= high /\ high <= Len(table) - 1
      /\ key \in Int
  BY TableIs DEF SearchTypeOK
<1>1. CASE Found
  <2>1. mid \in Int /\ mid >= 0 /\ mid + 1 \in DOMAIN table
    BY <1>1, <1>0, MidInside DEF Found
  <2>2. SearchTypeOK'
    BY <1>1, <2>1 DEF Found, SearchTypeOK
  <2>3. Bracket'
    BY <1>1 DEF Found, Bracket
  <2>4. mid + 1 \in Hits(table, key)
    BY <1>1, <2>1 DEF Found, Hits, Probed
  <2>5. ResultIsHitOrGap'
    BY <1>1, <2>1, <2>4 DEF Found, ResultIsHitOrGap
  <2> QED  BY <2>2, <2>3, <2>5
<1>2. CASE GoLeft
  <2>1. mid \in Int /\ low <= mid /\ mid <= high /\ key < table[mid + 1].id
    BY <1>2, MidInside DEF GoLeft, Probed
  <2>2. high' = mid - 1 /\ UNCHANGED <<table, key, low, ret, returned>>
    BY <1>2 DEF GoLeft
  <2>3. SearchTypeOK'
    <3>1. mid - 1 \in -1 .. Len(table) - 1  BY <1>0, <2>1
    <3> QED  BY <2>2, <3>1 DEF SearchTypeOK
  <2>4. Bracket'
    BY <1>0, <2>1, <2>2 DEF Bracket
  <2>5. ResultIsHitOrGap'
    BY <1>2, <2>2 DEF GoLeft, ResultIsHitOrGap
  <2> QED  BY <2>3, <2>4, <2>5
<1>3. CASE GoRight
  <2>1. mid \in Int /\ low <= mid /\ mid <= high /\ key > table[mid + 1].id
        /\ table[mid + 1].id \in Int
    BY <1>3, MidInside DEF GoRight, Probed
  <2>2. low' = mid + 1 /\ UNCHANGED <<table, key, high, ret, returned>>
    BY <1>3 DEF GoRight
  <2>3. SearchTypeOK'
    <3>1. mid + 1 \in 0 .. Len(table)  BY <1>0, <2>1
    <3> QED  BY <2>2, <3>1 DEF SearchTypeOK
  <2>4. Bracket'
    BY <1>0, <2>1, <2>2 DEF Bracket
  <2>5. ResultIsHitOrGap'
    BY <1>3, <2>2 DEF GoRight, ResultIsHitOrGap
  <2> QED  BY <2>3, <2>4, <2>5
<1>4. CASE NotFound
  <2>1. low = high + 1
    BY <1>0, <1>4 DEF NotFound, Bracket
  <2>2. ret' = -(low + 1) /\ returned' /\ UNCHANGED <<table, key, low, high>>
    BY <1>4 DEF NotFound
  <2>3. SearchTypeOK'
    BY <1>0, <1>4 DEF NotFound, SearchTypeOK
  <2>4. Bracket'
    BY <2>2 DEF Bracket
  <2>5. low + 1 \in Gaps(table, key)
    <3>1. low + 1 \in 1 .. Len(table) + 1  BY <1>0
    <3>2. low + 1 > 1 => table[low].id < key
      BY <1>0 DEF Bracket
    <3>3. low + 1 <= Len(table) => key < table[low + 1].id
      BY <1>0, <2>1 DEF Bracket
    <3> DEFINE g == low + 1
    <3>4. g - 1 = low  BY <1>0
    <3>5. g > 1 => table[g - 1].id < key  BY <3>2, <3>4
    <3> HIDE DEF g
    <3>6. g \in Gaps(table, key)  BY <3>1, <3>3, <3>5 DEF Gaps, g
    <3> QED  BY <3>6 DEF g
  <2>6. ResultIsHitOrGap'
    <3>1. ret' < 0 /\ -(ret') = low + 1  BY <1>0, <2>2
    <3>2. -(ret') \in Gaps(table', key')  BY <2>2, <2>5, <3>1
    <3>3. ~(ret' >= 0)  BY <1>0, <2>2
    <3> QED  BY <3>2, <3>3 DEF ResultIsHitOrGap
  <2> QED  BY <2>3, <2>4, <2>6
<1>5. CASE UNCHANGED searchVars
  BY <1>5 DEF searchVars, SearchTypeOK, Bracket, ResultIsHitOrGap
<1> QED  BY <1>1, <1>2, <1>3, <1>4, <1>5 DEF SearchNext

LEMMA SearchInvariance == SearchSpec => []SearchInv
BY SearchStarts, SearchSteps, PTL DEF SearchSpec

(* No search ever probes outside the table it was given, whatever the      *)
(* state of the table.                                                     *)
THEOREM ProbesInside == SearchSpec => []SearchTypeOK
<1>1. SearchInv => SearchTypeOK  BY DEF SearchInv
<1> QED  BY <1>1, SearchInvariance, PTL

(* Search_Bin returns an entry with the id asked for or a place between a  *)
(* smaller and a larger id, in any table: what DirSearch and BoardDir      *)
(* assume of it.                                                           *)
THEOREM HitOrGap == SearchSpec => []ResultIsHitOrGap
<1>1. SearchInv => ResultIsHitOrGap  BY DEF SearchInv
<1> QED  BY <1>1, SearchInvariance, PTL

(* In a sorted table of any length Search_Bin finds the article if it is   *)
(* there.                                                                  *)
THEOREM SortedFindsAll == SearchSpec => []FailureMeansAbsent
<1>1. SearchInv => FailureMeansAbsent
  <2> SUFFICES ASSUME SearchInv, returned, ret < 0, SortedById(table),
                      NEW i \in Hits(table, key)
               PROVE  FALSE
    BY DEF FailureMeansAbsent
  <2>1. -ret \in Gaps(table, key) /\ ret \in Int
    BY DEF SearchInv, ResultIsHitOrGap, SearchTypeOK
  <2>2. /\ Len(table) \in Nat /\ DOMAIN table = 1 .. Len(table) /\ key \in Int
        /\ \A k \in 1 .. Len(table) : table[k].id \in Int
    BY TableIs DEF SearchInv
  <2> DEFINE g == -ret
  <2>3. /\ g \in 1 .. Len(table) + 1
        /\ g > 1 => table[g - 1].id < key
        /\ g <= Len(table) => key < table[g].id
    BY <2>1 DEF Gaps
  <2>4. i \in 1 .. Len(table) /\ table[i].id = key
    BY <2>2 DEF Hits
  <2> HIDE DEF g
  <2>5. CASE i < g
    <3>1. g > 1 /\ g - 1 \in 1 .. Len(table) /\ i <= g - 1
      BY <2>2, <2>3, <2>4, <2>5
    <3>2. table[i].id <= table[g - 1].id
      BY <2>2, <2>4, <3>1 DEF SortedById
    <3> QED  BY <2>2, <2>3, <2>4, <3>1, <3>2
  <2>6. CASE i >= g
    <3>1. g <= Len(table) /\ g \in 1 .. Len(table) /\ g <= i
      BY <2>2, <2>3, <2>4, <2>6
    <3>2. table[g].id <= table[i].id
      BY <2>2, <2>4, <3>1 DEF SortedById
    <3> QED  BY <2>2, <2>3, <2>4, <3>1, <3>2
  <2> QED  BY <2>2, <2>3, <2>4, <2>5, <2>6
<1> QED  BY <1>1, SearchInvariance, PTL
=============================================================================
