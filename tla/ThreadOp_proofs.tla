---------------------------- MODULE ThreadOp_proofs ----------------------------
(* Operations on a thread beside those on single articles: what is proved.   *)
EXTENDS ThreadOp, SequenceTheorems, WellFoundedInduction, TLAPS

(* A set of numbers has a least element: induction, without an operator. *)
LEMMA LeastNat ==
  ASSUME NEW T \in SUBSET Nat, T # {}
  PROVE  \E x \in T : \A y \in T : x <= y
<1> DEFINE R == OpToRel(<, Nat)
<1>1. IsWellFoundedOn(R, Nat)
  BY NatLessThanWellFounded
<1>2. \A x, y \in Nat : <<x, y>> \in R <=> x < y
  BY DEF OpToRel
<1> HIDE DEF R
<1>3. PICK x \in T : \A y \in T : ~ (<<y, x>> \in R)
  BY <1>1, WFMin
<1>4. \A y \in T : ~(y < x)
  BY <1>2, <1>3
<1>5. \A y \in T : x <= y
  BY <1>4
<1> QED BY <1>5

(* What an entry taken out of .DIR or put into it leaves at each place. *)
LEMMA RemovedAt ==
  ASSUME NEW S, NEW l \in Seq(S), NEW i \in 1 .. Len(l)
  PROVE  /\ RemoveAt(l, i) \in Seq(S) /\ Len(RemoveAt(l, i)) = Len(l) - 1
         /\ \A j \in 1 .. Len(l) - 1 : RemoveAt(l, i)[j] = l[IF j < i THEN j ELSE j + 1]
<1> DEFINE n == Len(l)
           a == SubSeq(l, 1, i - 1)
           b == SubSeq(l, i + 1, n)
<1>0. n \in Nat /\ i \in 1 .. n
  OBVIOUS
<1>1. a \in Seq(S) /\ Len(a) = i - 1 /\ \A j \in 1 .. i - 1 : a[j] = l[j]
  OBVIOUS
<1>2. b \in Seq(S) /\ Len(b) = n - i
  <2>1. b \in Seq(S)
    BY <1>0
  <2>2. Len(b) = n - i
    BY <1>0
  <2> QED BY <2>1, <2>2
<1>3. \A j \in 1 .. n - i : b[j] = l[i + j]
  BY <1>0
<1>4. RemoveAt(l, i) = a \o b
  BY DEF RemoveAt
<1> HIDE DEF a, b
<1> DEFINE m == a \o b
<1>5. /\ m \in Seq(S) /\ Len(m) = Len(a) + Len(b)
      /\ \A j \in 1 .. Len(a) + Len(b) : m[j] = IF j <= Len(a) THEN a[j] ELSE b[j - Len(a)]
  BY <1>1, <1>2, ConcatProperties
<1> HIDE DEF m, n
<1>6. Len(m) = n - 1
  BY <1>0, <1>1, <1>2, <1>5
<1>7. ASSUME NEW j \in 1 .. n - 1 PROVE m[j] = l[IF j < i THEN j ELSE j + 1]
  <2>0. j \in 1 .. Len(a) + Len(b)
    BY <1>0, <1>1, <1>2
  <2>1. CASE j < i
    <3>1. j \in 1 .. i - 1 /\ j <= Len(a)
      BY <1>0, <1>1, <2>1
    <3> QED BY <1>1, <1>5, <2>0, <2>1, <3>1
  <2>2. CASE ~(j < i)
    <3>1. ~(j <= Len(a)) /\ j - Len(a) \in 1 .. n - i /\ i + (j - Len(a)) = j + 1
      BY <1>0, <1>1, <2>2
    <3> QED BY <1>3, <1>5, <2>0, <2>2, <3>1
  <2> QED BY <2>1, <2>2
<1> QED BY <1>4, <1>5, <1>6, <1>7 DEF m, n

LEMMA InsertedAt ==
  ASSUME NEW S, NEW l \in Seq(S), NEW i \in 1 .. Len(l) + 1, NEW e \in S
  PROVE  /\ InsertAt(l, i, e) \in Seq(S) /\ Len(InsertAt(l, i, e)) = Len(l) + 1
         /\ InsertAt(l, i, e)[i] = e
         /\ \A j \in 1 .. Len(l) : InsertAt(l, i, e)[IF j < i THEN j ELSE j + 1] = l[j]
<1> DEFINE n == Len(l)
           a == SubSeq(l, 1, i - 1)
           b == SubSeq(l, i, n)
<1>0. n \in Nat /\ i \in 1 .. n + 1
  OBVIOUS
<1>1. a \in Seq(S) /\ Len(a) = i - 1 /\ \A j \in 1 .. i - 1 : a[j] = l[j]
  OBVIOUS
<1>2. b \in Seq(S) /\ Len(b) = n - i + 1
  OBVIOUS
<1>3. \A j \in 1 .. n - i + 1 : b[j] = l[i + j - 1]
  OBVIOUS
<1>4. InsertAt(l, i, e) = (a \o <<e>>) \o b
  BY DEF InsertAt
<1> HIDE DEF a, b
<1> DEFINE c == a \o <<e>>
<1>5. c \in Seq(S) /\ Len(c) = i /\ c[i] = e /\ \A j \in 1 .. i - 1 : c[j] = l[j]
  BY <1>1
<1> HIDE DEF c
<1> DEFINE m == c \o b
<1>6. /\ m \in Seq(S) /\ Len(m) = Len(c) + Len(b)
      /\ \A j \in 1 .. Len(c) + Len(b) : m[j] = IF j <= Len(c) THEN c[j] ELSE b[j - Len(c)]
  BY <1>2, <1>5, ConcatProperties
<1> HIDE DEF m, n
<1>7. Len(m) = n + 1
  BY <1>0, <1>2, <1>5, <1>6
<1>8. m[i] = e
  <2>1. i \in 1 .. Len(c) + Len(b) /\ i <= Len(c)
    BY <1>0, <1>2, <1>5
  <2> QED BY <1>5, <1>6, <2>1
<1>9. ASSUME NEW j \in 1 .. n PROVE m[IF j < i THEN j ELSE j + 1] = l[j]
  <2>1. CASE j < i
    <3>1. j \in 1 .. i - 1 /\ j <= Len(c) /\ j \in 1 .. Len(c) + Len(b)
      BY <1>0, <1>2, <1>5, <2>1
    <3> QED BY <1>5, <1>6, <2>1, <3>1
  <2>2. CASE ~(j < i)
    <3> DEFINE k == (j + 1) - Len(c)
    <3>1. ~(j + 1 <= Len(c)) /\ j + 1 \in 1 .. Len(c) + Len(b)
      BY <1>0, <1>2, <1>5, <2>2
    <3>2. k \in 1 .. n - i + 1 /\ i + k - 1 = j
      BY <1>0, <1>5, <2>2
    <3>3. m[j + 1] = b[k]
      BY <1>6, <3>1
    <3>4. b[k] = l[j]
      BY <1>3, <3>2
    <3> QED BY <2>2, <3>3, <3>4
  <2> QED BY <2>1, <2>2
<1>10. InsertAt(l, i, e) = m
  BY <1>4 DEF c, m
<1> QED BY <1>6, <1>7, <1>8, <1>9, <1>10 DEF n

LEMMA ChangedAt ==
  ASSUME NEW S, NEW l \in Seq(S), NEW i, NEW e, i \in DOMAIN l => e \in S
  PROVE  /\ [l EXCEPT ![i] = e] \in Seq(S) /\ Len([l EXCEPT ![i] = e]) = Len(l)
         /\ \A j \in 1 .. Len(l) : [l EXCEPT ![i] = e][j] = IF j = i THEN e ELSE l[j]
<1> DEFINE m == [j \in 1 .. Len(l) |-> IF j = i THEN e ELSE l[j]]
<1>1. Len(l) \in Nat /\ DOMAIN l = 1 .. Len(l) /\ \A j \in 1 .. Len(l) : l[j] \in S
  OBVIOUS
<1>2. [l EXCEPT ![i] = e] = m
  BY <1>1
<1>3. \A j \in 1 .. Len(l) : m[j] \in S
  BY <1>1
<1>4. m \in Seq(S) /\ Len(m) = Len(l)
  BY <1>1, <1>3
<1> QED BY <1>2, <1>4

-----------------------------------------------------------------------------
(* A step is one process's, and the others do not notice. *)
LEMMA Steps == Next <=> \E p \in Procs : Step(p)
BY DEF Next

LEMMA Others ==
  ASSUME TypeInv, NEW p \in Procs, Step(p)
  PROVE  /\ task' = task /\ harmed \subseteq harmed'
         /\ \A q \in Procs \ {p} : /\ pc'[q] = pc[q] /\ loc'[q] = loc[q]
                                   /\ goal'[q] = goal[q] /\ done'[q] = done[q]
<1>1. pc \in [Procs -> {"idle", "viewed", "walk", "asked", "written", "found", "done", "gone"}]
      /\ loc \in [Procs -> Locals] /\ goal \in [Procs -> SUBSET Nat] /\ done \in [Procs -> SUBSET Nat]
  BY DEF TypeInv
<1>2. CASE View(p) \/ LockDir(p)
  BY <1>1, <1>2 DEF View, LockDir, Goto
<1>3. CASE PassBy(p) \/ SetFlags(p) \/ Ask(p) \/ Answer(p) \/ Leave(p)
  BY <1>1, <1>3 DEF PassBy, SetFlags, Ask, Answer, Leave, GoOn, Goto, Treated, Harm
<1>4. CASE DelEntry(p) \/ DelFails(p)
  BY <1>1, <1>4 DEF DelEntry, DelFails, Again, Treated, Harm
<1>5. CASE Split(p)
  BY <1>1, <1>5 DEF Split, GoOn, Goto, Treated, Harm
<1>6. CASE Reply(p) \/ Post(p) \/ RemoveOne(p) \/ Find(p) \/ Mark(p)
  BY <1>1, <1>6 DEF Reply, Post, RemoveOne, Find, Mark, Goto, Harm
<1>7. CASE Recover(p)
  BY <1>1, <1>7 DEF Recover, Goto, Harm
<1> QED BY <1>2, <1>3, <1>4, <1>5, <1>6, <1>7 DEF Step, WalkOn, Single

-----------------------------------------------------------------------------
(* Types.                                                                    *)
LEMMA Consts ==
  /\ MaxId \in Nat /\ Zero \in Record /\ Dirs \subseteq Seq(Record)
  /\ Start \in Locals /\ Nobody \notin Procs
<1>1. MaxId \in Nat /\ Nobody \notin Procs
  BY DirsAssumption, NamesAssumption
<1>2. Zero \in Record
  BY <1>1 DEF Zero, Record
<1>3. <<>> \in Seq(0 .. MaxId)
  OBVIOUS
<1>4. Start \in Locals
  BY <1>2, <1>3 DEF Start, Locals, Unmapped
<1>5. Article \subseteq Record
  BY DEF Article
<1>6. Seq(Article) \subseteq Seq(Record)
  BY <1>5
<1> QED BY <1>1, <1>2, <1>4, <1>6, DirsAssumption

(* The fields of local variables and records. *)
LEMMA LocalTypes ==
  ASSUME TypeInv, NEW p \in Procs
  PROVE  /\ loc[p] \in Locals /\ loc[p].fh \in Record /\ loc[p].pos \in Nat /\ loc[p].files \in Nat
         /\ loc[p].first \in BOOLEAN /\ loc[p].now \in Nat /\ loc[p].count \in Nat
         /\ loc[p].size \in Nat \cup {-1} /\ loc[p].old \in Seq(0 .. MaxId)
<1>1. loc[p] \in Locals
  BY DEF TypeInv
<1> QED BY <1>1 DEF Locals, Unmapped

LEMMA RecordTypes ==
  ASSUME NEW a \in Record
  PROVE  /\ a.id \in 0 .. MaxId /\ a.group \in 0 .. MaxId /\ a.re \in 0 .. MaxId
         /\ a.flags \in SUBSET {"m", "x"}
         /\ \A f \in SUBSET {"m", "x"} : [a EXCEPT !.flags = f] \in Record
BY DEF Record

LEMMA EntryType ==
  ASSUME TypeInv, NEW i \in Int
  PROVE  At(i) \in Record
BY Consts DEF At, TypeInv

LEMMA LengthNat ==
  ASSUME TypeInv
  PROVE  Len(dir) \in Nat /\ DOMAIN dir = 1 .. Len(dir) /\ \A i \in 1 .. Len(dir) : dir[i] \in Record
BY DEF TypeInv

(* A local variable set to something of its type. *)
LEMMA Typed ==
  ASSUME NEW l \in Locals
  PROVE  /\ \A x \in Record : [l EXCEPT !.fh = x] \in Locals
         /\ \A x \in Nat : /\ [l EXCEPT !.pos = x] \in Locals /\ [l EXCEPT !.files = x] \in Locals
                           /\ [l EXCEPT !.now = x] \in Locals /\ [l EXCEPT !.count = x] \in Locals
                           /\ [l EXCEPT !.size = x] \in Locals
         /\ \A x \in BOOLEAN : [l EXCEPT !.first = x] \in Locals
         /\ \A x \in Seq(0 .. MaxId) : [l EXCEPT !.old = x] \in Locals
BY DEF Locals

LEMMA FirstPlace ==
  ASSUME TypeInv, NEW p \in Procs, dir # <<>>, loc[p].pos >= 1
  PROVE  /\ First(p) \in 1 .. Len(dir)
         /\ loc[p].first => \A j \in 1 .. Len(dir) : dir[j].group = loc[p].fh.group => j >= First(p)
         /\ ~loc[p].first /\ loc[p].pos \in DOMAIN dir => First(p) = loc[p].pos
<1> DEFINE i == IF loc[p].pos > Len(dir) THEN Len(dir) ELSE loc[p].pos
<1>1. Len(dir) \in Nat /\ Len(dir) # 0 /\ loc[p].pos \in Nat /\ DOMAIN dir = 1 .. Len(dir)
  BY LengthNat, LocalTypes
<1>2. i \in 1 .. Len(dir)
  BY <1>1
<1>3. First(p) = IF loc[p].first /\ Above(p, i) # {}
                 THEN CHOOSE j \in Above(p, i) : \A k \in Above(p, i) : j <= k ELSE i
  BY DEF First
<1> HIDE DEF i
<1>4. Above(p, i) \subseteq 1 .. Len(dir) /\ Above(p, i) \in SUBSET Nat
  BY <1>1, <1>2 DEF Above
<1>5. CASE loc[p].first /\ Above(p, i) # {}
  <2>1. PICK l \in Above(p, i) : \A k \in Above(p, i) : l <= k
    BY <1>4, <1>5, LeastNat
  <2>2. First(p) \in Above(p, i) /\ \A k \in Above(p, i) : First(p) <= k
    BY <1>3, <1>5, <2>1
  <2>3. ASSUME NEW j \in 1 .. Len(dir), dir[j].group = loc[p].fh.group PROVE j >= First(p)
    <3>1. CASE j < i
      <4>1. j \in Above(p, i)
        BY <1>1, <1>2, <2>3, <3>1 DEF Above, At
      <4> QED BY <1>4, <2>2, <4>1
    <3>2. CASE ~(j < i)
      <4>1. First(p) \in 1 .. i - 1
        BY <2>2 DEF Above
      <4> QED BY <1>2, <3>2, <4>1
    <3> QED BY <3>1, <3>2
  <2> QED BY <1>4, <1>5, <2>2, <2>3
<1>6. CASE ~(loc[p].first /\ Above(p, i) # {})
  <2>1. First(p) = i
    BY <1>3, <1>6
  <2>2. ASSUME loc[p].first, NEW j \in 1 .. Len(dir), dir[j].group = loc[p].fh.group PROVE j >= i
    <3>1. SUFFICES ASSUME j < i PROVE FALSE
      BY <1>2
    <3>2. j \in Above(p, i)
      BY <1>1, <1>2, <2>2, <3>1 DEF Above, At
    <3> QED BY <1>6, <2>2, <3>2
  <2>3. loc[p].pos \in DOMAIN dir => i = loc[p].pos
    BY <1>1 DEF i
  <2> QED BY <1>2, <2>1, <2>2, <2>3
<1> QED BY <1>5, <1>6

LEMMA LocStays ==
  ASSUME TypeInv, NEW p \in Procs, Step(p)
  PROVE  loc' \in [Procs -> Locals]
<1>1. loc \in [Procs -> Locals] /\ loc[p] \in Locals
  BY DEF TypeInv
<1>2. CASE View(p)
  <2>1. PICK i \in DOMAIN dir, f \in BOOLEAN :
          loc' = [loc EXCEPT ![p].fh = dir[i], ![p].pos = i, ![p].files = Len(dir), ![p].first = f]
    BY <1>2 DEF View
  <2>2. dir[i] \in Record /\ i \in Nat /\ Len(dir) \in Nat
    BY LengthNat
  <2> QED BY <1>1, <2>1, <2>2 DEF Locals
<1>3. CASE LockDir(p)
  <2>1. CASE dir = <<>>
    BY <1>1, <1>3, <2>1 DEF LockDir
  <2>2. CASE dir # <<>>
    <3>1. loc' = [loc EXCEPT ![p].now = First(p), ![p].count = Len(dir)]
      BY <1>3, <2>2 DEF LockDir
    <3>2. First(p) \in Nat /\ Len(dir) \in Nat
      BY <1>3, <2>2, FirstPlace, LengthNat DEF LockDir, TypeInv, InPlace
    <3> QED BY <1>1, <3>1, <3>2 DEF Locals
  <2> QED BY <2>1, <2>2
<1>4. loc' = [loc EXCEPT ![p].now = @ + 1] => loc' \in [Procs -> Locals]
  <2>1. loc[p].now + 1 \in Nat
    BY LocalTypes
  <2>2. [loc[p] EXCEPT !.now = loc[p].now + 1] \in Locals
    BY <1>1, <2>1, Typed
  <2> QED BY <1>1, <2>2
<1>5. loc' = [loc EXCEPT ![p] = Start] => loc' \in [Procs -> Locals]
  BY <1>1, Consts
<1>6. CASE PassBy(p) \/ SetFlags(p) \/ Ask(p) \/ Answer(p) \/ Leave(p)
  BY <1>1, <1>4, <1>5, <1>6 DEF PassBy, SetFlags, Ask, Answer, Leave, GoOn
<1>7. CASE DelEntry(p) \/ DelFails(p)
  <2>1. Size(p) \in Nat \cup {-1} /\ loc[p].now \in Nat /\ loc[p].now >= 1
    BY <1>7, LocalTypes, LengthNat DEF DelEntry, DelFails, InThread, Walk, Walking, TypeInv, InPlace, Size
  <2>2. PICK size \in Nat \cup {-1} : loc' = Again(p, size)
    BY <1>7, <2>1 DEF DelEntry, DelFails
  <2>3. Minus1(loc[p].count) \in Nat /\ Minus1(loc[p].files) \in Nat
    BY LocalTypes DEF Minus1
  <2> QED BY <1>1, <2>2, <2>3 DEF Again, Locals, Unmapped
<1>8. CASE Split(p)
  <2>1. CASE loc' = [loc EXCEPT ![p].now = @ + 1, ![p].old = Append(loc[p].old, Now(p).id)]
    <3>1. Now(p).id \in 0 .. MaxId
      BY EntryType, LocalTypes, RecordTypes DEF Now
    <3>2. Append(loc[p].old, Now(p).id) \in Seq(0 .. MaxId)
      BY <3>1, LocalTypes
    <3>3. loc[p].now + 1 \in Nat
      BY LocalTypes
    <3>4. [loc[p] EXCEPT !.now = loc[p].now + 1, !.old = Append(loc[p].old, Now(p).id)] \in Locals
      BY <1>1, <3>2, <3>3 DEF Locals
    <3> QED BY <1>1, <2>1, <3>4
  <2> QED BY <1>4, <1>5, <1>8, <2>1 DEF Split, GoOn
<1>9. CASE Reply(p)
  <2>1. PICK a \in Files : loc' = [loc EXCEPT ![p].fh = a]
    BY <1>9 DEF Reply
  <2>2. a \in Record
    BY LengthNat DEF Files
  <2> QED BY <1>1, <2>1, <2>2 DEF Locals
<1>10. CASE Find(p)
  <2>1. PICK i \in DOMAIN dir : loc' = [loc EXCEPT ![p].fh = dir[i], ![p].now = i]
    BY <1>10 DEF Find
  <2>2. dir[i] \in Record /\ i \in Nat
    BY LengthNat
  <2> QED BY <1>1, <2>1, <2>2 DEF Locals
<1>11. CASE Post(p) \/ Mark(p) \/ RemoveOne(p) \/ Recover(p)
  BY <1>1, <1>5, <1>11 DEF Post, Mark, RemoveOne, Recover
<1> QED BY <1>2, <1>3, <1>6, <1>7, <1>8, <1>9, <1>10, <1>11 DEF Step, WalkOn, Single


LEMMA FilesStay ==
  ASSUME TypeInv, NEW p \in Procs, Step(p)
  PROVE  dir' \in Seq(Record) /\ bin' \subseteq Record /\ lastid' \in 0 .. MaxId
<1>0. dir \in Seq(Record) /\ bin \subseteq Record /\ lastid \in 0 .. MaxId /\ MaxId \in Nat
  BY Consts DEF TypeInv
<1>1. CASE UNCHANGED <<dir, bin, lastid>>
  BY <1>0, <1>1
<1>2. CASE SetFlags(p)
  <2>1. dir' = [dir EXCEPT ![loc[p].now].flags = NewFlags(p)] /\ UNCHANGED <<bin, lastid>>
    BY <1>2 DEF SetFlags
  <2>2. NewFlags(p) \in SUBSET {"m", "x"}
    <3>1. Now(p).flags \in SUBSET {"m", "x"}
      BY EntryType, LocalTypes, RecordTypes DEF Now
    <3> QED BY <3>1 DEF NewFlags
  <2>3. \A i \in DOMAIN dir : [dir[i] EXCEPT !.flags = NewFlags(p)] \in Record
    BY <2>2, LengthNat, RecordTypes
  <2>4. dir' = [dir EXCEPT ![loc[p].now] = [dir[loc[p].now] EXCEPT !.flags = NewFlags(p)]]
    BY <2>1
  <2>5. dir' \in Seq(Record)
    BY <1>0, <2>3, <2>4, ChangedAt
  <2> QED BY <1>0, <2>1, <2>5
<1>3. CASE DelEntry(p)
  <2>1. dir' = Cut(loc[p].now, Size(p)) /\ bin' = bin \cup {Now(p)} /\ lastid' = lastid
        /\ loc[p].now <= Size(p)
    BY <1>3 DEF DelEntry
  <2>2. Size(p) \in Nat /\ Size(p) >= 1 /\ Now(p) \in Record
    BY <1>3, <2>1, LocalTypes, LengthNat, EntryType
       DEF DelEntry, InThread, Walk, Walking, TypeInv, InPlace, Size, Now
  <2>3. \A i \in 1 .. Size(p) - 1 : At(i) \in Record /\ At(i + 1) \in Record
    BY <2>2, EntryType
  <2>4. dir' \in Seq(Record)
    BY <2>1, <2>2, <2>3 DEF Cut
  <2> QED BY <1>0, <2>1, <2>2, <2>4
<1>4. CASE Split(p)
  <2>1. SUFFICES ASSUME dir' # dir PROVE dir' \in Seq(Record) /\ UNCHANGED <<bin, lastid>>
    BY <1>0, <1>4 DEF Split
  <2>2. PICK x, y \in 0 .. MaxId : dir' = [dir EXCEPT ![loc[p].now].group = x, ![loc[p].now].re = y]
    <3> DEFINE old == Append(loc[p].old, Now(p).id)
               n == loc[p].now
    <3>1. dir' = [dir EXCEPT ![n].group = old[1], ![n].re = IF Len(old) = 1 THEN old[1] ELSE @]
      BY <1>4, <2>1 DEF Split
    <3>2. Now(p).id \in 0 .. MaxId /\ loc[p].old \in Seq(0 .. MaxId)
      BY EntryType, LocalTypes, RecordTypes DEF Now
    <3>3. old \in Seq(0 .. MaxId) /\ Len(old) >= 1
      BY <3>2
    <3>4. old[1] \in 0 .. MaxId
      <4> HIDE DEF old
      <4>1. 1 \in 1 .. Len(old)
        BY <3>3
      <4> QED BY <3>3, <4>1, ElementOfSeq
    <3> HIDE DEF old
    <3>5. CASE n \in DOMAIN dir
      <4>1. dir[n].re \in 0 .. MaxId
        BY <3>5, LengthNat, RecordTypes
      <4>2. dir' = [dir EXCEPT ![n].group = old[1], ![n].re = IF Len(old) = 1 THEN old[1] ELSE dir[n].re]
        BY <1>0, <3>1, <3>5
      <4> QED BY <3>4, <4>1, <4>2
    <3>6. CASE n \notin DOMAIN dir
      <4>1. dir' = dir
        BY <1>0, <3>1, <3>6
      <4> QED BY <2>1, <4>1
    <3> QED BY <3>5, <3>6
  <2>3. \A i \in DOMAIN dir : [dir[i] EXCEPT !.group = x, !.re = y] \in Record
    <3> SUFFICES ASSUME NEW i \in DOMAIN dir PROVE [dir[i] EXCEPT !.group = x, !.re = y] \in Record
      OBVIOUS
    <3>1. dir[i] \in Record
      BY LengthNat
    <3> QED BY <3>1 DEF Record
  <2>4. dir' = [dir EXCEPT ![loc[p].now] = [dir[loc[p].now] EXCEPT !.group = x, !.re = y]]
    BY <1>0, <2>2
  <2> DEFINE e == [dir[loc[p].now] EXCEPT !.group = x, !.re = y]
  <2>5. loc[p].now \in DOMAIN dir => e \in Record
    BY <2>3
  <2>6. dir' = [dir EXCEPT ![loc[p].now] = e]
    BY <2>4
  <2> HIDE DEF e
  <2>7. dir' \in Seq(Record)
    BY <1>0, <2>5, <2>6, ChangedAt
  <2> QED BY <1>4, <2>7 DEF Split
<1>5. CASE Post(p)
  <2>1. dir' = Append(dir, [id |-> lastid + 1, group |-> loc[p].fh.group, re |-> loc[p].fh.id, flags |-> {}])
        /\ lastid' = lastid + 1 /\ lastid < MaxId /\ bin' = bin
    BY <1>5 DEF Post
  <2>2. loc[p].fh.group \in 0 .. MaxId /\ loc[p].fh.id \in 0 .. MaxId
    BY LocalTypes, RecordTypes
  <2>3. [id |-> lastid + 1, group |-> loc[p].fh.group, re |-> loc[p].fh.id, flags |-> {}] \in Record
    BY <1>0, <2>1, <2>2 DEF Record
  <2> QED BY <1>0, <2>1, <2>3
<1>6. CASE RemoveOne(p)
  <2>1. PICK i \in DOMAIN dir : dir' = RemoveAt(dir, i) /\ bin' = bin \cup {dir[i]}
    BY <1>6 DEF RemoveOne
  <2>2. i \in 1 .. Len(dir) /\ dir[i] \in Record
    BY LengthNat
  <2>3. RemoveAt(dir, i) \in Seq(Record)
    BY <1>0, <2>2, RemovedAt
  <2> QED BY <1>0, <1>6, <2>1, <2>2, <2>3 DEF RemoveOne
<1>7. CASE Recover(p)
  <2>1. PICK a \in bin : LET b == [a EXCEPT !.flags = @ \ {"x"}] IN
          /\ bin' = bin \ {a}
          /\ \/ /\ lastid < MaxId /\ lastid' = lastid + 1
                /\ dir' = <<[b EXCEPT !.id = lastid + 1, !.group = lastid + 1, !.re = lastid + 1]>>
             \/ lastid' = lastid /\ \E k \in 1 .. Len(dir) + 1 : dir' = InsertAt(dir, k, b)
    BY <1>7 DEF Recover
  <2>2. [a EXCEPT !.flags = @ \ {"x"}] \in Record
    BY <1>0 DEF Record
  <2> DEFINE b == [a EXCEPT !.flags = @ \ {"x"}]
  <2>3. CASE lastid' = lastid
    <3>1. lastid + 1 # lastid
      BY <1>0
    <3>2. PICK k \in 1 .. Len(dir) + 1 : dir' = InsertAt(dir, k, b)
      BY <2>1, <2>3, <3>1
    <3>3. b \in Record
      BY <2>2
    <3> HIDE DEF b
    <3>4. dir' \in Seq(Record)
      BY <1>0, <3>2, <3>3, InsertedAt
    <3> QED BY <1>0, <2>1, <2>3, <3>4
  <2>4. CASE lastid' # lastid
    <3>1. lastid < MaxId /\ lastid' = lastid + 1
          /\ dir' = <<[b EXCEPT !.id = lastid + 1, !.group = lastid + 1, !.re = lastid + 1]>>
      BY <2>1, <2>4
    <3>2. lastid + 1 \in 0 .. MaxId
      BY <1>0, <3>1
    <3> HIDE DEF b
    <3>3. b \in Record
      BY <2>2 DEF b
    <3>4. [b EXCEPT !.id = lastid + 1, !.group = lastid + 1, !.re = lastid + 1] \in Record
      BY <3>2, <3>3 DEF Record
    <3> QED BY <1>0, <2>1, <3>1, <3>2, <3>4
  <2> QED BY <2>3, <2>4
<1>8. CASE View(p) \/ LockDir(p) \/ PassBy(p) \/ Ask(p) \/ Answer(p) \/ Leave(p) \/ DelFails(p)
  BY <1>1, <1>8 DEF View, LockDir, PassBy, Ask, Answer, Leave, DelFails
<1>9. CASE Reply(p) \/ Find(p)
  BY <1>1, <1>9 DEF Reply, Find
<1>10. CASE Mark(p)
  <2>1. dir' = [i \in DOMAIN dir |-> IF i = loc[p].now THEN [dir[i] EXCEPT !.flags = @ \cup {"m"}] ELSE dir[i]]
    BY <1>10 DEF Mark
  <2>2. \A i \in DOMAIN dir : dir[i] \in Record /\ [dir[i] EXCEPT !.flags = @ \cup {"m"}] \in Record
    BY LengthNat, RecordTypes
  <2>3. dir' \in Seq(Record)
    BY <1>0, <2>1, <2>2, LengthNat
  <2> QED BY <1>0, <1>10, <2>3 DEF Mark
<1> QED BY <1>2, <1>3, <1>4, <1>5, <1>6, <1>7, <1>8, <1>9, <1>10 DEF Step, WalkOn, Single


LEMMA PlacesStay ==
  ASSUME TypeInv, NEW p \in Procs, Step(p)
  PROVE  /\ lock' \in Procs \cup {Nobody}
         /\ pc' \in [Procs -> {"idle", "viewed", "walk", "asked", "written", "found", "done", "gone"}]
<1>1. /\ lock \in Procs \cup {Nobody}
      /\ pc \in [Procs -> {"idle", "viewed", "walk", "asked", "written", "found", "done", "gone"}]
  BY DEF TypeInv
<1>2. CASE View(p) \/ LockDir(p)
  BY <1>1, <1>2 DEF View, LockDir, Goto
<1>3. CASE PassBy(p) \/ SetFlags(p) \/ Ask(p) \/ Answer(p) \/ Leave(p)
  BY <1>1, <1>3 DEF PassBy, SetFlags, Ask, Answer, Leave, GoOn, Goto
<1>4. CASE DelEntry(p) \/ DelFails(p) \/ Split(p)
  BY <1>1, <1>4 DEF DelEntry, DelFails, Split, GoOn, Goto
<1>5. CASE Single(p)
  BY <1>1, <1>5 DEF Single, Reply, Post, RemoveOne, Recover, Find, Mark, Goto
<1> QED BY <1>2, <1>3, <1>4, <1>5 DEF Step, WalkOn

LEMMA HistoryStays ==
  ASSUME TypeInv, NEW p \in Procs, Step(p)
  PROVE  goal' \in [Procs -> SUBSET Nat] /\ done' \in [Procs -> SUBSET Nat]
<1>1. goal \in [Procs -> SUBSET Nat] /\ done \in [Procs -> SUBSET Nat] /\ MaxId \in Nat
  BY Consts DEF TypeInv
<1>2. Now(p).id \in Nat
  <2>1. Now(p) \in Record
    BY EntryType, LocalTypes DEF Now
  <2> QED BY <1>1, <2>1, RecordTypes
<1>3. CASE LockDir(p)
  <2>1. \A a \in Files : a.id \in Nat
    <3>1. \A a \in Files : a \in Record
      BY LengthNat DEF Files
    <3> QED BY <1>1, <3>1, RecordTypes
  <2>2. Chosen(p) \subseteq Nat
    BY <1>1, <2>1 DEF Chosen, Ids
  <2> QED BY <1>1, <1>3, <2>2 DEF LockDir
<1>4. CASE View(p) \/ PassBy(p) \/ Ask(p) \/ Answer(p) \/ Leave(p) \/ DelFails(p)
  BY <1>1, <1>4 DEF View, PassBy, Ask, Answer, Leave, DelFails
<1>5. CASE SetFlags(p) \/ DelEntry(p) \/ Split(p)
  BY <1>1, <1>2, <1>5 DEF SetFlags, DelEntry, Split, Treated
<1>6. CASE Single(p)
  BY <1>1, <1>6 DEF Single, Reply, Post, RemoveOne, Recover, Find, Mark
<1> QED BY <1>3, <1>4, <1>5, <1>6 DEF Step, WalkOn

(* A walk goes down, or stays where it is. *)
LEMMA GoesDown ==
  ASSUME TypeInv, NEW p \in Procs, WalkOn(p)
  PROVE  /\ Walking(p)
         /\ pc'[p] \in {"walk", "asked", "done", "gone"}
         /\ Walking(p)' => /\ loc'[p].now \in {loc[p].now, loc[p].now + 1}
                           /\ loc'[p].fh = loc[p].fh /\ loc'[p].pos = loc[p].pos /\ loc'[p].first = loc[p].first
<1>1. pc \in [Procs -> {"idle", "viewed", "walk", "asked", "written", "found", "done", "gone"}]
      /\ loc \in [Procs -> Locals] /\ loc[p] \in Locals
  BY DEF TypeInv
<1>2. /\ loc' = [loc EXCEPT ![p].now = @ + 1] =>
            /\ loc'[p].now = loc[p].now + 1
            /\ loc'[p].fh = loc[p].fh /\ loc'[p].pos = loc[p].pos /\ loc'[p].first = loc[p].first
      /\ GoOn(p) => pc'[p] = "done" \/ (loc' = [loc EXCEPT ![p].now = @ + 1] /\ pc' = pc)
  BY <1>1 DEF Locals, GoOn, Goto
<1>3. CASE PassBy(p) \/ SetFlags(p)
  BY <1>1, <1>2, <1>3 DEF PassBy, SetFlags, InThread, Walk, Walking
<1>4. CASE Ask(p) \/ Leave(p)
  BY <1>1, <1>4 DEF Ask, Leave, InThread, Walk, Walking, Goto
<1>5. CASE Answer(p)
  BY <1>1, <1>2, <1>5 DEF Answer, Walking, Goto, GoOn
<1>6. CASE DelEntry(p) \/ DelFails(p)
  BY <1>1, <1>6 DEF DelEntry, DelFails, InThread, Walk, Walking, Again, Locals
<1>7. CASE Split(p)
  <2>1. CASE loc' = [loc EXCEPT ![p].now = @ + 1, ![p].old = Append(loc[p].old, Now(p).id)] /\ pc' = pc
    BY <1>1, <1>7, <2>1 DEF Split, InThread, Walk, Walking, Locals
  <2>2. CASE GoOn(p)
    BY <1>1, <1>2, <1>7, <2>2 DEF Split, InThread, Walk, Walking
  <2> QED BY <1>7, <2>1, <2>2 DEF Split
<1> QED BY <1>3, <1>4, <1>5, <1>6, <1>7 DEF WalkOn

LEMMA LeavesAsked ==
  ASSUME TypeInv, NEW p \in Procs, WalkOn(p), pc'[p] = "asked"
  PROVE  Ask(p) /\ Deletes(p)
<1>1. pc \in [Procs -> {"idle", "viewed", "walk", "asked", "written", "found", "done", "gone"}]
  BY DEF TypeInv
<1>2. CASE PassBy(p) \/ SetFlags(p) \/ Answer(p) \/ Leave(p) \/ Split(p)
  BY <1>1, <1>2 DEF PassBy, SetFlags, Answer, Leave, Split, InThread, Walk, GoOn, Goto
<1>3. CASE DelEntry(p) \/ DelFails(p)
  BY <1>1, <1>3 DEF DelEntry, DelFails, InThread, Walk
<1>4. CASE Ask(p)
  BY <1>4 DEF Ask
<1> QED BY <1>2, <1>3, <1>4 DEF WalkOn

LEMMA TypeInvInit == Init => TypeInv
<1> SUFFICES ASSUME Init PROVE TypeInv
  OBVIOUS
<1>1. dir \in Seq(Record) /\ lastid = Len(dir) /\ bin = {}
  BY Consts DEF Init
<1>2. Len(dir) \in 0 .. MaxId
  <2>1. Len(dir) \in Nat /\ MaxId \in Nat /\ DOMAIN dir = 1 .. Len(dir)
    BY <1>1, Consts
  <2>2. CASE Len(dir) = 0
    BY <2>1, <2>2
  <2>3. CASE Len(dir) # 0
    <3>1. Len(dir) \in DOMAIN dir
      BY <2>1, <2>3
    <3>2. dir[Len(dir)].id = Len(dir)
      BY <3>1, PostedAssumption DEF Init
    <3>3. dir[Len(dir)].id \in 0 .. MaxId
      BY <1>1, <3>1, RecordTypes
    <3> QED BY <3>2, <3>3
  <2> QED BY <2>2, <2>3
<1>3. task \in [Procs -> Walks \cup Singles \cup {"none"}]
  BY MixesAssumption DEF Init
<1>4. \A p \in Procs : InPlace(p)
  BY DEF Init, InPlace, Walking, Start
<1> QED BY <1>1, <1>2, <1>3, <1>4, Consts DEF Init, TypeInv

LEMMA TypeInvStep == TypeInv /\ [Next]_vars => TypeInv'
<1> SUFFICES ASSUME TypeInv, [Next]_vars PROVE TypeInv'
  OBVIOUS
<1>1. ASSUME NEW p \in Procs, Step(p) PROVE TypeInv'
  <2>1. task' \in [Procs -> Walks \cup Singles \cup {"none"}]
    BY <1>1, Others DEF TypeInv
  <2>2. ASSUME NEW q \in Procs PROVE InPlace(q)'
    <3>1. CASE q # p
      <4>1. pc'[q] = pc[q] /\ loc'[q] = loc[q] /\ task' = task
        BY <1>1, <3>1, Others
      <4>2. InPlace(q)
        BY DEF TypeInv
      <4> QED BY <4>1, <4>2 DEF InPlace, Walking
    <3>2. CASE q = p /\ WalkOn(p)
      <4>1. /\ Walking(p) /\ pc'[p] \in {"walk", "asked", "done", "gone"} /\ task' = task
            /\ Walking(p)' => /\ loc'[p].now \in {loc[p].now, loc[p].now + 1}
                              /\ loc'[p].pos = loc[p].pos /\ loc'[p].first = loc[p].first
        BY <1>1, <3>2, GoesDown, Others
      <4>3. pc'[p] = "asked" => Deletes(p) /\ task[p] \in Walks
        BY <3>2, <4>1, LeavesAsked DEF TypeInv, InPlace, Walking
      <4>2. InPlace(p) /\ loc[p].now \in Nat /\ loc[p].pos \in Nat
        BY LocalTypes DEF TypeInv
      <4> QED BY <3>2, <4>1, <4>2, <4>3 DEF InPlace, Walking, Deletes
    <3>3. CASE q = p /\ View(p)
      <4>1. PICK i \in DOMAIN dir, f \in BOOLEAN :
              /\ task[p] = "split" => ~f
              /\ loc' = [loc EXCEPT ![p].fh = dir[i], ![p].pos = i, ![p].files = Len(dir), ![p].first = f]
        BY <3>3 DEF View
      <4>2. loc'[p].pos = i /\ loc'[p].first = f /\ loc'[p].size = loc[p].size /\ loc'[p].old = loc[p].old
        BY <4>1 DEF TypeInv, Locals
      <4>4. loc[p].size = Unmapped /\ loc[p].old = <<>>
        BY <3>3 DEF View, TypeInv, InPlace
      <4>3. i >= 1 /\ task[p] \in Walks /\ pc'[p] = "viewed" /\ task' = task
        BY <3>3, LengthNat DEF View, Goto, TypeInv
      <4> QED BY <3>3, <4>1, <4>2, <4>3, <4>4 DEF InPlace, Walking
    <3>4. CASE q = p /\ LockDir(p)
      <4>1. InPlace(p) /\ pc[p] = "viewed" /\ task' = task
        BY <3>4 DEF LockDir, TypeInv
      <4>2. CASE dir = <<>>
        BY <3>4, <4>1, <4>2 DEF LockDir, InPlace, Walking, Goto, TypeInv
      <4>3. CASE dir # <<>>
        <5>1. First(p) >= 1
          BY <4>1, <4>3, FirstPlace, LengthNat DEF InPlace
        <5>2. loc' = [loc EXCEPT ![p].now = First(p), ![p].count = Len(dir)] /\ pc'[p] = "walk"
          BY <3>4, <4>3 DEF LockDir, Goto, TypeInv
        <5>3. loc'[p].now = First(p) /\ loc'[p].pos = loc[p].pos /\ loc'[p].first = loc[p].first
          BY <5>2 DEF TypeInv, Locals
        <5> QED BY <3>4, <4>1, <5>1, <5>2, <5>3 DEF InPlace, Walking
      <4> QED BY <4>2, <4>3
    <3>5. CASE q = p /\ Single(p)
      <4>1. pc'[p] \in {"written", "found", "done"}
        BY <3>5 DEF Single, Reply, Post, RemoveOne, Recover, Find, Mark, Goto, TypeInv
      <4>2. pc'[p] \in {"written", "found"} => task'[p] \in Singles
        <5>1. CASE Reply(p) \/ Find(p)
          BY <5>1 DEF Reply, Find, Does, Singles
        <5>2. CASE Post(p) \/ RemoveOne(p) \/ Recover(p) \/ Mark(p)
          BY <5>2 DEF Post, RemoveOne, Recover, Mark, Goto, TypeInv
        <5> QED BY <3>5, <5>1, <5>2 DEF Single
      <4> QED BY <3>5, <4>1, <4>2 DEF InPlace, Walking
    <3> QED BY <1>1, <3>1, <3>2, <3>3, <3>4, <3>5 DEF Step
  <2> QED BY <1>1, <2>1, <2>2, FilesStay, LocStays, PlacesStay, HistoryStays DEF TypeInv
<1>2. CASE UNCHANGED vars
  BY <1>2 DEF vars, TypeInv, InPlace, Walking
<1> QED BY <1>1, <1>2, Steps


-----------------------------------------------------------------------------
(* Who has the lock.                                                         *)
LEMMA LockInvInit == Init => LockInv
BY DEF Init, LockInv, Walking

LEMMA LockInvStep == TypeInv /\ LockInv /\ [Next]_vars => LockInv'
<1> SUFFICES ASSUME TypeInv, LockInv, [Next]_vars PROVE LockInv'
  OBVIOUS
<1>1. ASSUME NEW p \in Procs, Step(p) PROVE LockInv'
  <2>0. /\ pc \in [Procs -> {"idle", "viewed", "walk", "asked", "written", "found", "done", "gone"}]
        /\ lock \in Procs \cup {Nobody} /\ lock' \in Procs \cup {Nobody} /\ Nobody \notin Procs
        /\ \A q \in Procs \ {p} : pc'[q] = pc[q]
        /\ task' = task
    BY <1>1, Others, PlacesStay, Consts DEF TypeInv
  <2>1. /\ lock # Nobody => pc[lock] \in {"walk", "asked", "found"}
        /\ \A q \in Procs : pc[q] = "found" => lock = q
        /\ \A q \in Procs : Walking(q) /\ lock # q => task[q] \in {"delete", "delmarkdel"}
    BY DEF LockInv
  <2>2. CASE lock' = lock /\ (pc'[p] \in {"walk", "asked"} \/ lock # p) /\ (pc'[p] \notin {"walk", "asked", "found"} \/ Walking(p))
             /\ pc'[p] # "found"
    BY <2>0, <2>1, <2>2 DEF LockInv, Walking
  <2>3. CASE lock = p /\ lock' = Nobody /\ pc'[p] \notin {"walk", "asked", "found"}
    BY <2>0, <2>1, <2>3 DEF LockInv, Walking
  <2>4. CASE lock = Nobody /\ lock' = p /\ pc'[p] \in {"walk", "found"}
    BY <2>0, <2>1, <2>4 DEF LockInv, Walking
  <2>5. CASE DelEntry(p)
    <3>1. lock' = (IF lock = p THEN Nobody ELSE lock) /\ pc' = pc /\ pc[p] = "walk"
          /\ task[p] \in {"delete", "delmarkdel"}
      BY <2>5 DEF DelEntry, InThread, Walk, Deletes
    <3> QED BY <2>0, <2>1, <3>1 DEF LockInv, Walking
  <2>6. CASE View(p) \/ Reply(p) \/ Post(p) \/ RemoveOne(p) \/ Recover(p)
    <3>1. lock' = lock /\ pc'[p] \in {"viewed", "written", "done"} /\ pc[p] \notin {"walk", "asked", "found"}
      BY <2>0, <2>6 DEF View, Reply, Post, RemoveOne, Recover, Does, Goto
    <3>2. lock # p
      BY <2>0, <2>1, <3>1
    <3> QED BY <2>2, <3>1, <3>2
  <2>7. CASE LockDir(p) /\ dir = <<>>
    <3>1. lock' = lock /\ lock = Nobody /\ pc'[p] = "done"
      BY <2>0, <2>7 DEF LockDir, Goto
    <3> QED BY <2>0, <2>2, <3>1
  <2>8. CASE LockDir(p) /\ dir # <<>>
    <3>1. lock' = p /\ lock = Nobody /\ pc'[p] = "walk"
      BY <2>0, <2>8 DEF LockDir, Goto
    <3> QED BY <2>4, <3>1
  <2>9. CASE Find(p)
    <3>1. lock' = p /\ lock = Nobody /\ pc'[p] = "found"
      BY <2>0, <2>9 DEF Find, Goto
    <3> QED BY <2>4, <3>1
  <2>10. CASE Mark(p)
    <3>1. pc[p] = "found" /\ lock' = (IF lock = p THEN Nobody ELSE lock) /\ pc'[p] = "done"
      BY <2>0, <2>10 DEF Mark, Goto
    <3> QED BY <2>0, <2>1, <2>3, <3>1
  <2>11. ASSUME GoOn(p), Walking(p) PROVE LockInv'
    <3>1. CASE pc'[p] = "done" /\ lock' = IF lock = p THEN Nobody ELSE lock
      BY <2>0, <2>2, <2>3, <3>1
    <3>2. CASE pc' = pc /\ lock' = lock
      BY <2>2, <2>11, <3>2 DEF Walking
    <3> QED BY <2>0, <2>11, <3>1, <3>2 DEF GoOn, Goto
  <2>12. CASE PassBy(p) \/ SetFlags(p)
    BY <2>11, <2>12 DEF PassBy, SetFlags, InThread, Walk, Walking
  <2>13. CASE Ask(p) \/ DelFails(p)
    BY <2>0, <2>2, <2>13 DEF Ask, DelFails, InThread, Walk, Walking, Goto
  <2>14. CASE Answer(p)
    <3>1. CASE pc'[p] = "walk" /\ lock' = lock
      BY <2>2, <2>14, <3>1 DEF Answer, Walking
    <3> QED BY <2>0, <2>11, <2>14, <3>1 DEF Answer, Walking, Goto
  <2>15. CASE Leave(p)
    <3>1. pc[p] = "asked" /\ lock' = (IF lock = p THEN Nobody ELSE lock) /\ pc'[p] = "gone"
      BY <2>0, <2>15 DEF Leave, Goto
    <3> QED BY <2>0, <2>2, <2>3, <3>1
  <2>16. CASE Split(p)
    <3>1. CASE pc' = pc /\ lock' = lock
      BY <2>2, <2>16, <3>1 DEF Split, InThread, Walk, Walking
    <3> QED BY <2>11, <2>16, <3>1 DEF Split, InThread, Walk, Walking
  <2> QED BY <1>1, <2>5, <2>6, <2>7, <2>8, <2>9, <2>10, <2>12, <2>13, <2>14, <2>15, <2>16
          DEF Step, WalkOn, Single
<1>2. CASE UNCHANGED vars
  BY <1>2 DEF vars, LockInv, Walking
<1> QED BY <1>1, <1>2, Steps

(* Whoever changes .DIR without harm is alone there. *)
LEMMA Alone ==
  ASSUME TypeInv, LockInv, NEW p \in Procs, ~Meets(p)
  PROVE  /\ lock \in {p, Nobody}
         /\ \A q \in Procs \ {p} : pc[q] \notin {"walk", "asked", "found"}
<1>1. lock \in {p, Nobody} /\ Nobody \notin Procs
  BY Consts DEF Meets
<1>2. ASSUME NEW q \in Procs \ {p} PROVE pc[q] \notin {"walk", "asked", "found"}
  BY <1>1, <1>2 DEF Meets, LockInv
<1> QED BY <1>1, <1>2


-----------------------------------------------------------------------------
(* Articles are in order.                                                    *)
LEMMA OrderedMeans ==
  ASSUME Ordered(dir, bin, lastid, renumbered)
  PROVE  /\ \A i, j \in DOMAIN dir : i < j => dir[i].id < dir[j].id
         /\ \A a \in Files, b \in bin : a.id # b.id
         /\ {a.id : a \in Files \cup bin} = 1 .. lastid \ renumbered
<1>1. \A i, j \in DOMAIN dir : i < j => dir[i].id < dir[j].id
  BY DEF Ordered
<1>2. \A a \in Files, b \in bin : a.id # b.id
  BY DEF Ordered, Files
<1> DEFINE ids == {a.id : a \in Files \cup bin}
<1>3. \A x : x \in ids <=> (\E i \in DOMAIN dir : dir[i].id = x) \/ (\E b \in bin : b.id = x)
  BY DEF Files
<1> HIDE DEF ids
<1>4. ids \subseteq 1 .. lastid \ renumbered
  BY <1>3 DEF Ordered, Posted
<1>5. 1 .. lastid \ renumbered \subseteq ids
  BY <1>3 DEF Ordered
<1> QED BY <1>1, <1>2, <1>4, <1>5 DEF ids

(* An id that is there is there once. *)
LEMMA OnePlace ==
  ASSUME NEW d \in Seq(Record), NEW b, NEW last \in Nat, NEW others, Ordered(d, b, last, others),
         NEW i \in DOMAIN d, NEW j \in DOMAIN d
  PROVE  /\ i < j <=> d[i].id < d[j].id
         /\ d[i].id = d[j].id => i = j
<1>1. DOMAIN d = 1 .. Len(d) /\ Len(d) \in Nat
  OBVIOUS
<1>2. d[i].id \in 1 .. last /\ d[j].id \in 1 .. last
  BY DEF Ordered, Posted
<1>3. (i < j => d[i].id < d[j].id) /\ (j < i => d[j].id < d[i].id)
  BY DEF Ordered
<1> QED BY <1>1, <1>2, <1>3

(* Articles that change, come and go. *)
LEMMA SameIds ==
  ASSUME NEW d, NEW e, NEW b, NEW last, NEW others, Ordered(d, b, last, others), DOMAIN e = DOMAIN d,
         \A i \in DOMAIN d : e[i].id = d[i].id /\ Posted(e[i], last)
  PROVE  Ordered(e, b, last, others)
BY DEF Ordered

LEMMA OneGone ==
  ASSUME NEW d \in Seq(Record), NEW e \in Seq(Record), NEW b, NEW last \in Nat, NEW others,
         Ordered(d, b, last, others), NEW n \in 1 .. Len(d), Len(e) = Len(d) - 1,
         \A j \in 1 .. Len(e) : e[j] = d[IF j < n THEN j ELSE j + 1]
  PROVE  Ordered(e, b \cup {d[n]}, last, others)
<1>1. DOMAIN d = 1 .. Len(d) /\ DOMAIN e = 1 .. Len(e) /\ Len(d) \in Nat /\ Len(e) \in Nat
  OBVIOUS
<1> DEFINE t(j) == IF j < n THEN j ELSE j + 1
<1>2. \A j \in DOMAIN e : t(j) \in DOMAIN d \ {n} /\ e[j] = d[t(j)]
  BY <1>1
<1>3. \A i, j \in DOMAIN e : i < j => t(i) < t(j)
  BY <1>1
<1>4. \A i \in DOMAIN d \ {n} : \E j \in DOMAIN e : t(j) = i
  <2> TAKE i \in DOMAIN d \ {n}
  <2>1. CASE i < n
    <3>1. i \in DOMAIN e /\ t(i) = i
      BY <1>1, <2>1
    <3> QED BY <3>1
  <2>2. CASE ~(i < n)
    <3>1. i - 1 \in DOMAIN e /\ t(i - 1) = i
      BY <1>1, <2>2
    <3> QED BY <3>1
  <2> QED BY <2>1, <2>2
<1> HIDE DEF t
<1>5. \A i, j \in DOMAIN e : i < j => e[i].id < e[j].id
  BY <1>2, <1>3 DEF Ordered
<1>6. \A j \in DOMAIN e : e[j].id # d[n].id
  <2> TAKE j \in DOMAIN e
  <2>1. t(j) \in DOMAIN d /\ t(j) # n /\ n \in DOMAIN d
    BY <1>1, <1>2
  <2>2. d[t(j)].id # d[n].id
    BY <2>1, OnePlace
  <2> QED BY <1>2, <2>2
<1>7. \A j \in DOMAIN e : Posted(e[j], last) /\ e[j].id \notin others /\ \A a \in b \cup {d[n]} : a.id # e[j].id
  BY <1>2, <1>6 DEF Ordered
<1>8. \A a \in b \cup {d[n]} : /\ Posted(a, last) /\ a.id \notin others
                              /\ \A c \in b \cup {d[n]} : a.id = c.id => a = c
  BY <1>1 DEF Ordered
<1>9. ASSUME NEW x \in 1 .. last \ others
      PROVE  (\E j \in DOMAIN e : e[j].id = x) \/ (\E a \in b \cup {d[n]} : a.id = x)
  <2>1. CASE \E a \in b : a.id = x
    BY <2>1
  <2>2. CASE \E i \in DOMAIN d : d[i].id = x
    <3>1. PICK i \in DOMAIN d : d[i].id = x
      BY <2>2
    <3>2. CASE i = n
      BY <3>1, <3>2
    <3>3. CASE i # n
      BY <1>2, <1>4, <3>1, <3>3
    <3> QED BY <3>2, <3>3
  <2> QED BY <1>9, <2>1, <2>2 DEF Ordered
<1>10. others \subseteq 1 .. last
  BY DEF Ordered
<1> QED BY <1>5, <1>7, <1>8, <1>9, <1>10 DEF Ordered

AddedAt(d, e, n) ==
  /\ n \in 1 .. Len(d) + 1 /\ Len(e) = Len(d) + 1
  /\ \A j \in 1 .. Len(d) : e[IF j < n THEN j ELSE j + 1] = d[j]
FitsAt(d, id, n) == \A j \in 1 .. Len(d) : IF j < n THEN d[j].id < id ELSE id < d[j].id
Without(b, id)   == {a \in b : a.id # id}
LastIs(last, id, more) == more = last \/ (more = last + 1 /\ id = more)

LEMMA OneAdded ==
  ASSUME NEW d \in Seq(Record), NEW e \in Seq(Record), NEW b, NEW last \in Nat, NEW others,
         Ordered(d, b, last, others), NEW n, AddedAt(d, e, n), FitsAt(d, e[n].id, n),
         NEW more, LastIs(last, e[n].id, more), Posted(e[n], more), e[n].id \notin others
  PROVE  Ordered(e, Without(b, e[n].id), more, others)
<1>0. /\ n \in 1 .. Len(d) + 1 /\ Len(e) = Len(d) + 1 /\ more \in Nat /\ more >= last
      /\ \A j \in 1 .. Len(d) : e[IF j < n THEN j ELSE j + 1] = d[j]
      /\ \A j \in 1 .. Len(d) : IF j < n THEN d[j].id < e[n].id ELSE e[n].id < d[j].id
      /\ more # last => more = last + 1 /\ more = e[n].id
  BY DEF AddedAt, FitsAt, LastIs
<1> DEFINE c == Without(b, e[n].id)
<1>01. c \subseteq b /\ (\A a \in b \ c : a.id = e[n].id) /\ (\A a \in c : a.id # e[n].id)
  BY DEF Without
<1> HIDE DEF c
<1>1. DOMAIN d = 1 .. Len(d) /\ DOMAIN e = 1 .. Len(e) /\ Len(d) \in Nat /\ Len(e) \in Nat
  OBVIOUS
<1> DEFINE t(j) == IF j < n THEN j ELSE j + 1
<1>2. \A j \in DOMAIN d : t(j) \in DOMAIN e \ {n} /\ e[t(j)] = d[j]
  BY <1>0, <1>1
<1>3. \A i \in DOMAIN e \ {n} : \E j \in DOMAIN d : t(j) = i
  <2> TAKE i \in DOMAIN e \ {n}
  <2>1. CASE i < n
    <3>1. i \in DOMAIN d /\ t(i) = i
      BY <1>0, <1>1, <2>1
    <3> QED BY <3>1
  <2>2. CASE ~(i < n)
    <3>1. i - 1 \in DOMAIN d /\ t(i - 1) = i
      BY <1>0, <1>1, <2>2
    <3> QED BY <3>1
  <2> QED BY <2>1, <2>2
<1>4. \A i, j \in DOMAIN d : t(i) < t(j) => i < j
  BY <1>0, <1>1
<1>5. \A j \in DOMAIN d : (t(j) < n <=> j < n) /\ (n < t(j) <=> ~(j < n))
  BY <1>0, <1>1
<1> HIDE DEF t
<1>6. ASSUME NEW i \in DOMAIN e, NEW j \in DOMAIN e, i < j PROVE e[i].id < e[j].id
  <2>0. n \in DOMAIN e
    BY <1>0, <1>1
  <2>1. CASE i # n /\ j # n
    <3>1. PICK k \in DOMAIN d, l \in DOMAIN d : t(k) = i /\ t(l) = j
      BY <1>3, <2>1
    <3>2. k < l
      BY <1>4, <1>6, <3>1
    <3>3. d[k].id < d[l].id
      BY <3>2 DEF Ordered
    <3> QED BY <1>2, <3>1, <3>3
  <2>2. CASE i = n
    <3>1. PICK l \in DOMAIN d : t(l) = j
      BY <1>0, <1>1, <1>3, <1>6, <2>2
    <3>2. ~(l < n)
      BY <1>5, <1>6, <2>2, <3>1
    <3> QED BY <1>0, <1>1, <1>2, <2>2, <3>1, <3>2
  <2>3. CASE j = n
    <3>1. PICK k \in DOMAIN d : t(k) = i
      BY <1>0, <1>1, <1>3, <1>6, <2>3
    <3>2. k < n
      BY <1>5, <1>6, <2>3, <3>1
    <3> QED BY <1>0, <1>1, <1>2, <2>3, <3>1, <3>2
  <2> QED BY <2>1, <2>2, <2>3
<1>7. \A a : Posted(a, last) => Posted(a, more)
  BY <1>0 DEF Posted
<1>8. ASSUME NEW i \in DOMAIN e
      PROVE  Posted(e[i], more) /\ e[i].id \notin others /\ \A a \in c : a.id # e[i].id
  <2>1. CASE i = n
    <3>1. Posted(e[n], more) /\ e[n].id \notin others /\ \A a \in c : a.id # e[n].id
      BY <1>01
    <3> QED BY <2>1, <3>1
  <2>2. CASE i # n
    <3>1. PICK j \in DOMAIN d : t(j) = i
      BY <1>3, <2>2
    <3>2. Posted(d[j], last) /\ d[j].id \notin others /\ \A a \in b : a.id # d[j].id
      BY DEF Ordered
    <3>3. e[i] = d[j]
      BY <1>2, <3>1
    <3> QED BY <1>01, <1>7, <3>2, <3>3
  <2> QED BY <2>1, <2>2
<1>9. /\ \A a \in c : Posted(a, more) /\ a.id \notin others /\ \A a2 \in c : a.id = a2.id => a = a2
      /\ others \subseteq 1 .. more
  <2>1. 1 .. last \subseteq 1 .. more
    BY <1>0
  <2>2. \A a \in b : Posted(a, last) /\ a.id \notin others /\ \A a2 \in b : a.id = a2.id => a = a2
    BY DEF Ordered
  <2>3. others \subseteq 1 .. last
    BY DEF Ordered
  <2> QED BY <1>01, <1>7, <2>1, <2>2, <2>3
<1>10. ASSUME NEW x \in 1 .. more \ others
       PROVE  (\E i \in DOMAIN e : e[i].id = x) \/ (\E a \in c : a.id = x)
  <2>0. n \in DOMAIN e
    BY <1>0, <1>1
  <2>1. CASE x \notin 1 .. last
    <3>1. x = more /\ more # last
      BY <1>0, <1>10, <2>1
    <3> QED BY <1>0, <2>0, <3>1
  <2>2. CASE \E j \in DOMAIN d : d[j].id = x
    BY <1>2, <2>2
  <2>3. CASE \E a \in b : a.id = x
    <3>1. PICK a \in b : a.id = x
      BY <2>3
    <3> QED BY <1>01, <2>0, <3>1
  <2>4. \A y \in 1 .. last \ others : (\E k \in DOMAIN d : d[k].id = y) \/ (\E a \in b : a.id = y)
    BY DEF Ordered
  <2>5. x \in 1 .. last => x \in 1 .. last \ others
    BY <1>10
  <2> QED BY <2>1, <2>2, <2>3, <2>4, <2>5
<1>11. Ordered(e, c, more, others)
  BY <1>6, <1>8, <1>9, <1>10 DEF Ordered
<1> QED BY <1>11 DEF c


LEMMA OneRenumbered ==
  ASSUME NEW d, NEW b, NEW last \in Nat, NEW others, Ordered(d, b, last, others), NEW a \in b
  PROVE  Ordered(d, b \ {a}, last, others \cup {a.id})
<1>1. a.id \in 1 .. last
  BY DEF Ordered, Posted
<1>2. \A i \in DOMAIN d : d[i].id # a.id
  BY DEF Ordered
<1>3. \A c \in b \ {a} : c.id # a.id
  BY DEF Ordered
<1> QED BY <1>1, <1>2, <1>3 DEF Ordered


-----------------------------------------------------------------------------
(* What a walk has before it. *)
LEMMA NowThere ==
  ASSUME TypeInv, OrderInv, Nobody \notin harmed, NEW p \in Procs, InThread(p)
  PROVE  /\ loc[p].now \in 1 .. Len(dir) /\ loc[p].now \in DOMAIN dir /\ Now(p) = dir[loc[p].now]
         /\ Posted(Now(p), lastid) /\ Now(p).group = loc[p].fh.group
         /\ Size(p) = Len(dir) /\ loc[p].count = Len(dir)
<1>1. Posted(loc[p].fh, lastid) /\ loc[p].count = Len(dir) /\ loc[p].size \in {Unmapped, Len(dir)}
  BY DEF OrderInv, InOrder, InThread, Walk, Holds, Walking
<1>2. loc[p].fh.group # 0 /\ Now(p).group = loc[p].fh.group
  BY <1>1 DEF Posted, Ids, InThread
<1>3. loc[p].now \in DOMAIN dir
  BY <1>2 DEF Now, At, Zero
<1>4. loc[p].now \in 1 .. Len(dir) /\ Now(p) = dir[loc[p].now]
  BY <1>3, LengthNat DEF Now, At
<1>5. Posted(Now(p), lastid)
  BY <1>3, <1>4 DEF OrderInv, Ordered
<1> QED BY <1>1, <1>2, <1>3, <1>4, <1>5 DEF Size

(* A step that changes .DIR harms all, or meets nobody. *)
LEMMA HarmMeets ==
  ASSUME "unlocked" \in Windows, NEW p \in Procs, NEW w, NEW who, Harm(p, w, who), Nobody \notin harmed'
  PROVE  ~Meets(p)
BY DEF Harm

SameFiles == UNCHANGED <<dir, bin, lastid, renumbered>>
Changes(p) == SetFlags(p) \/ DelEntry(p) \/ Split(p) \/ Post(p) \/ RemoveOne(p) \/ Recover(p) \/ Mark(p)

LEMMA OnlyChanges ==
  ASSUME NEW p \in Procs, Step(p)
  PROVE  SameFiles \/ Changes(p)
<1>1. CASE View(p) \/ LockDir(p) \/ PassBy(p) \/ Ask(p) \/ Answer(p) \/ Leave(p) \/ DelFails(p)
  BY <1>1 DEF SameFiles, View, LockDir, PassBy, Ask, Answer, Leave, DelFails
<1>2. CASE Reply(p) \/ Find(p)
  BY <1>2 DEF SameFiles, Reply, Find
<1> QED BY <1>1, <1>2 DEF Step, WalkOn, Single, Changes

LEMMA ChangesAlone ==
  ASSUME TypeInv, LockInv, "unlocked" \in Windows, NEW p \in Procs, Changes(p), Nobody \notin harmed'
  PROVE  \A q \in Procs \ {p} : pc[q] \notin {"walk", "asked", "found"}
<1>1. PICK w, who : Harm(p, w, who)
  <2>1. CASE Recover(p)
    BY <2>1 DEF Recover
  <2> QED BY <2>1 DEF Changes, SetFlags, DelEntry, Split, Post, RemoveOne, Mark
<1> QED BY <1>1, HarmMeets, Alone

LEMMA Recovered ==
  ASSUME TypeInv, OrderInv, Nobody \notin harmed, NEW p \in Procs, Recover(p)
  PROVE  /\ Ordered(dir', bin', lastid', renumbered')
         /\ lastid' \in Nat /\ lastid' >= lastid
<1>0. /\ dir \in Seq(Record) /\ bin \subseteq Record /\ lastid \in 0 .. MaxId /\ MaxId \in Nat
      /\ Ordered(dir, bin, lastid, renumbered)
  BY Consts DEF TypeInv, OrderInv
<1>1. PICK a \in bin : LET b == [a EXCEPT !.flags = @ \ {"x"}] IN
        /\ bin' = bin \ {a} /\ ~Here(a.id)
        /\ IF dir = <<>>
           THEN /\ lastid < MaxId /\ lastid' = lastid + 1 /\ renumbered' = renumbered \cup {a.id}
                /\ dir' = <<[b EXCEPT !.id = lastid + 1, !.group = lastid + 1, !.re = lastid + 1]>>
           ELSE /\ \E k \in 1 .. Len(dir) + 1 : Place(k, a.id) /\ dir' = InsertAt(dir, k, b)
                /\ UNCHANGED <<lastid, renumbered>>
  BY DEF Recover
<1> DEFINE b == [a EXCEPT !.flags = @ \ {"x"}]
<1>2. b \in Record /\ b.id = a.id /\ b.re = a.re /\ b.group = a.group
  BY <1>0 DEF Record
<1>3. Posted(a, lastid) /\ a.id \notin renumbered /\ \A c \in bin \ {a} : c.id # a.id
  BY <1>0 DEF Ordered
<1>4. CASE dir = <<>>
  <2> DEFINE e == <<[b EXCEPT !.id = lastid + 1, !.group = lastid + 1, !.re = lastid + 1]>>
             c == bin \ {a}
             r == renumbered \cup {a.id}
  <2>1. bin' = c /\ lastid' = lastid + 1 /\ renumbered' = r /\ dir' = e /\ lastid < MaxId
    BY <1>1, <1>4
  <2> HIDE DEF b
  <2>2. [b EXCEPT !.id = lastid + 1, !.group = lastid + 1, !.re = lastid + 1] \in Record
    <3>1. lastid + 1 \in 0 .. MaxId
      BY <1>0, <2>1
    <3> QED BY <1>2, <3>1 DEF Record
  <2>3. e \in Seq(Record) /\ Len(e) = 1 /\ DOMAIN e = {1}
    BY <2>2
  <2>4. e[1].id = lastid + 1 /\ e[1].group = lastid + 1 /\ e[1].re = lastid + 1
    BY <1>2 DEF Record
  <2>5. Posted(e[1], lastid + 1)
    BY <1>0, <2>1, <2>4 DEF Posted, Ids
  <2>6. Ordered(dir, c, lastid, r)
    BY <1>0, OneRenumbered
  <2> HIDE DEF e, c, r
  <2>7. r \subseteq 1 .. lastid /\ (\A x \in c : Posted(x, lastid))
    BY <2>6 DEF Ordered
  <2>8. Ordered(e, c, lastid + 1, r)
    <3>1. \A x \in c : Posted(x, lastid + 1) /\ x.id # lastid + 1
      BY <1>0, <2>7 DEF Posted
    <3>2. e[1].id \notin r /\ r \subseteq 1 .. lastid + 1
      BY <1>0, <2>4, <2>7
    <3>3. ASSUME NEW x \in 1 .. lastid + 1 \ r
          PROVE  (\E i \in DOMAIN e : e[i].id = x) \/ (\E y \in c : y.id = x)
      <4>1. CASE x = lastid + 1
        BY <2>3, <2>4, <4>1
      <4>2. CASE x # lastid + 1
        <5>1. x \in 1 .. lastid \ r
          BY <1>0, <3>3, <4>2
        <5>2. DOMAIN dir = {}
          BY <1>4
        <5> QED BY <2>6, <5>1, <5>2 DEF Ordered
      <4> QED BY <4>1, <4>2
    <3>4. \A x \in c : x.id \notin r /\ \A y \in c : x.id = y.id => x = y
      BY <2>6 DEF Ordered
    <3>5. \A i, j \in DOMAIN e : ~(i < j)
      BY <2>3
    <3>6. \A i \in DOMAIN e : i = 1
      BY <2>3
    <3> QED BY <2>4, <2>5, <3>1, <3>2, <3>3, <3>4, <3>5, <3>6 DEF Ordered
  <2> QED BY <1>0, <2>1, <2>8
<1>5. CASE dir # <<>>
  <2>1. PICK k \in 1 .. Len(dir) + 1 : Place(k, a.id) /\ dir' = InsertAt(dir, k, b)
    BY <1>1, <1>5
  <2>2. bin' = bin \ {a} /\ lastid' = lastid /\ renumbered' = renumbered
    BY <1>1, <1>5
  <2> HIDE DEF b
  <2> DEFINE e == InsertAt(dir, k, b)
             c == bin \ {a}
  <2>3. /\ e \in Seq(Record) /\ Len(e) = Len(dir) + 1 /\ e[k] = b
        /\ \A j \in 1 .. Len(dir) : e[IF j < k THEN j ELSE j + 1] = dir[j]
    BY <1>0, <1>2, InsertedAt
  <2> HIDE DEF e
  <2>4. ASSUME NEW j \in 1 .. Len(dir) PROVE IF j < k THEN dir[j].id < b.id ELSE b.id < dir[j].id
    <3>0. j \in DOMAIN dir /\ Len(dir) \in Nat /\ DOMAIN dir = 1 .. Len(dir) /\ a.id \in Nat /\ dir[j].id \in Nat
      BY <1>0, <1>3, LengthNat, RecordTypes DEF Posted
    <3>1. CASE j < k
      BY <1>2, <2>1, <3>0, <3>1 DEF Place
    <3>2. CASE j = k
      BY <1>2, <2>1, <3>0, <3>2 DEF Place
    <3>3. CASE j > k
      <4>1. k \in DOMAIN dir /\ dir[k].id > a.id
        BY <2>1, <3>0, <3>3 DEF Place
      <4>2. dir[k].id < dir[j].id /\ dir[k].id \in Nat
        BY <1>0, <3>0, <3>3, <4>1, RecordTypes, LengthNat DEF Ordered
      <4> QED BY <1>2, <3>0, <3>3, <4>1, <4>2
    <3> QED BY <3>0, <3>1, <3>2, <3>3
  <2>5. Posted(e[k], lastid) /\ e[k].id \notin renumbered
    BY <1>2, <1>3, <2>3 DEF Posted
  <2>6. c = Without(bin, e[k].id)
    BY <1>2, <1>3, <2>3 DEF Without
  <2>7. Ordered(e, c, lastid, renumbered)
    <3>1. AddedAt(dir, e, k)
      BY <2>3 DEF AddedAt
    <3>2. FitsAt(dir, e[k].id, k)
      BY <2>3, <2>4 DEF FitsAt
    <3>3. LastIs(lastid, e[k].id, lastid) /\ lastid \in Nat
      BY <1>0 DEF LastIs
    <3> HIDE DEF c
    <3>4. Ordered(e, Without(bin, e[k].id), lastid, renumbered)
      BY <1>0, <2>3, <2>5, <3>1, <3>2, <3>3, OneAdded
    <3> QED BY <2>6, <3>4
  <2> QED BY <1>0, <2>1, <2>2, <2>7 DEF e, c
<1> QED BY <1>4, <1>5


-----------------------------------------------------------------------------
(* What the steps that change .DIR do to its records. *)
SameRecords(d, e) ==
  /\ Len(e) = Len(d)
  /\ \A i \in 1 .. Len(d) : e[i].id = d[i].id /\ e[i].group = d[i].group /\ e[i].re = d[i].re
GoneAt(d, e, n) ==
  /\ n \in 1 .. Len(d) /\ Len(e) = Len(d) - 1
  /\ \A j \in 1 .. Len(e) : e[j] = d[IF j < n THEN j ELSE j + 1]

LEMMA FlagsChange ==
  ASSUME TypeInv, NEW p \in Procs, SetFlags(p) \/ Mark(p)
  PROVE  SameRecords(dir, dir') /\ UNCHANGED <<bin, lastid, renumbered>>
<1>0. Len(dir) \in Nat /\ DOMAIN dir = 1 .. Len(dir) /\ dir \in Seq(Record)
      /\ \A i \in 1 .. Len(dir) : dir[i] \in Record
  BY LengthNat DEF TypeInv
<1>1. CASE SetFlags(p)
  <2> DEFINE n == loc[p].now
             e == [dir[n] EXCEPT !.flags = NewFlags(p)]
  <2>1. dir' = [dir EXCEPT ![n] = e] /\ UNCHANGED <<bin, lastid, renumbered>>
    BY <1>1 DEF SetFlags
  <2>2. NewFlags(p) \in SUBSET {"m", "x"}
    <3>1. Now(p).flags \in SUBSET {"m", "x"}
      BY EntryType, LocalTypes, RecordTypes DEF Now
    <3> QED BY <3>1 DEF NewFlags
  <2>3. n \in DOMAIN dir => /\ e \in Record /\ e.id = dir[n].id
                            /\ e.group = dir[n].group /\ e.re = dir[n].re
    BY <1>0, <2>2 DEF Record
  <2> HIDE DEF e, n
  <2>4. Len(dir') = Len(dir) /\ \A j \in 1 .. Len(dir) : dir'[j] = IF j = n THEN e ELSE dir[j]
    BY <1>0, <2>1, <2>3, ChangedAt
  <2> QED BY <1>0, <2>1, <2>3, <2>4 DEF SameRecords
<1>2. CASE Mark(p)
  <2>1. dir' = [i \in DOMAIN dir |-> IF i = loc[p].now THEN [dir[i] EXCEPT !.flags = @ \cup {"m"}] ELSE dir[i]]
        /\ UNCHANGED <<bin, lastid, renumbered>>
    BY <1>2 DEF Mark
  <2>2. Len(dir') = Len(dir)
    BY <1>0, <2>1
  <2>3. ASSUME NEW i \in 1 .. Len(dir)
        PROVE  dir'[i].id = dir[i].id /\ dir'[i].group = dir[i].group /\ dir'[i].re = dir[i].re
    <3>1. dir'[i] = IF i = loc[p].now THEN [dir[i] EXCEPT !.flags = @ \cup {"m"}] ELSE dir[i]
      BY <1>0, <2>1
    <3>2. dir[i] \in Record
      BY <1>0
    <3> QED BY <3>1, <3>2 DEF Record
  <2> QED BY <2>1, <2>2, <2>3 DEF SameRecords
<1> QED BY <1>1, <1>2

LEMMA EntryGoes ==
  ASSUME TypeInv, OrderInv, Nobody \notin harmed, NEW p \in Procs, DelEntry(p)
  PROVE  /\ GoneAt(dir, dir', loc[p].now) /\ bin' = bin \cup {dir[loc[p].now]}
         /\ UNCHANGED <<lastid, renumbered>>
         /\ loc'[p].count = loc[p].count - 1 /\ loc'[p].size = Len(dir')
         /\ loc'[p].now = loc[p].now /\ loc'[p].fh = loc[p].fh /\ loc'[p].old = loc[p].old
<1> DEFINE n == loc[p].now
<1>1. /\ dir' = Cut(n, Size(p)) /\ bin' = bin \cup {Now(p)} /\ loc' = Again(p, Size(p) - 1)
      /\ InThread(p) /\ UNCHANGED <<lastid, renumbered>>
  BY DEF DelEntry
<1>2. n \in 1 .. Len(dir) /\ n \in DOMAIN dir /\ Now(p) = dir[n] /\ Size(p) = Len(dir) /\ loc[p].count = Len(dir)
  BY <1>1, NowThere
<1>3. Len(dir) \in Nat /\ DOMAIN dir = 1 .. Len(dir)
  BY LengthNat
<1>4. dir' = [i \in 1 .. Len(dir) - 1 |-> IF i < n THEN At(i) ELSE At(i + 1)]
  BY <1>1, <1>2 DEF Cut
<1>5. Len(dir') = Len(dir) - 1
  <2>1. DOMAIN dir' = 1 .. Len(dir) - 1 /\ Len(dir) - 1 \in Nat
    BY <1>2, <1>3, <1>4
  <2>2. dir' \in Seq(Record)
    BY FilesStay DEF Step, WalkOn
  <2> QED BY <2>1, <2>2
<1>6. ASSUME NEW j \in 1 .. Len(dir) - 1 PROVE dir'[j] = dir[IF j < n THEN j ELSE j + 1]
  BY <1>2, <1>3, <1>4 DEF At
<1>7. GoneAt(dir, dir', n)
  BY <1>2, <1>5, <1>6 DEF GoneAt
<1>8. loc' = [loc EXCEPT ![p] = [loc[p] EXCEPT !.count = Minus1(@), !.files = Minus1(@), !.size = Size(p) - 1]]
  BY <1>1 DEF Again, TypeInv
<1>9. loc'[p] = [loc[p] EXCEPT !.count = Minus1(@), !.files = Minus1(@), !.size = Size(p) - 1]
  BY <1>8 DEF TypeInv
<1>10. /\ loc'[p].count = Minus1(loc[p].count) /\ loc'[p].size = Size(p) - 1
       /\ loc'[p].now = n /\ loc'[p].fh = loc[p].fh /\ loc'[p].old = loc[p].old
  BY <1>9, LocalTypes DEF Locals
<1>11. Minus1(loc[p].count) = loc[p].count - 1
  BY <1>2, <1>3 DEF Minus1
<1> QED BY <1>1, <1>2, <1>5, <1>7, <1>10, <1>11

LEMMA EntryRemoved ==
  ASSUME TypeInv, NEW p \in Procs, RemoveOne(p)
  PROVE  /\ \E n \in 1 .. Len(dir) : GoneAt(dir, dir', n) /\ bin' = bin \cup {dir[n]}
         /\ UNCHANGED <<lastid, renumbered>>
<1>1. PICK i \in DOMAIN dir : dir' = RemoveAt(dir, i) /\ bin' = bin \cup {dir[i]}
  BY DEF RemoveOne
<1>2. i \in 1 .. Len(dir) /\ dir \in Seq(Record)
  BY LengthNat DEF TypeInv
<1>3. Len(dir') = Len(dir) - 1 /\ \A j \in 1 .. Len(dir) - 1 : dir'[j] = dir[IF j < i THEN j ELSE j + 1]
  BY <1>1, <1>2, RemovedAt
<1>4. GoneAt(dir, dir', i)
  BY <1>2, <1>3 DEF GoneAt
<1> QED BY <1>1, <1>2, <1>4 DEF RemoveOne

LEMMA EntryPosted ==
  ASSUME TypeInv, NEW p \in Procs, Post(p)
  PROVE  /\ AddedAt(dir, dir', Len(dir) + 1) /\ Len(dir) + 1 \in Nat
         /\ dir'[Len(dir) + 1] = [id |-> lastid + 1, group |-> loc[p].fh.group, re |-> loc[p].fh.id, flags |-> {}]
         /\ lastid' = lastid + 1 /\ lastid < MaxId /\ UNCHANGED <<bin, renumbered>>
<1> DEFINE e == [id |-> lastid + 1, group |-> loc[p].fh.group, re |-> loc[p].fh.id, flags |-> {}]
<1>1. dir' = Append(dir, e) /\ lastid' = lastid + 1 /\ lastid < MaxId /\ UNCHANGED <<bin, renumbered>>
  BY DEF Post
<1> HIDE DEF e
<1>2. dir \in Seq(Record) /\ Len(dir) \in Nat
  BY LengthNat DEF TypeInv
<1>3. Len(dir') = Len(dir) + 1 /\ dir'[Len(dir) + 1] = e /\ \A j \in 1 .. Len(dir) : dir'[j] = dir[j]
  BY <1>1, <1>2
<1>4. AddedAt(dir, dir', Len(dir) + 1)
  BY <1>2, <1>3 DEF AddedAt
<1> QED BY <1>1, <1>2, <1>3, <1>4 DEF e

(* A split changes its own place only, and that to the new thread. *)
MovedAt(d, e, n, group, re) ==
  /\ n \in 1 .. Len(d) /\ Len(e) = Len(d)
  /\ \A i \in 1 .. Len(d) : i # n => e[i] = d[i]
  /\ e[n].id = d[n].id /\ e[n].group = group /\ e[n].re = re
FirstOld(p) == IF loc[p].old = <<>> THEN Now(p).id ELSE loc[p].old[1]

LEMMA OldOnes ==
  ASSUME TypeInv, NEW p \in Procs
  PROVE  /\ loc[p].old = <<>> => Old(p) = {} /\ Append(loc[p].old, Now(p).id)[1] = Now(p).id
                                 /\ Len(Append(loc[p].old, Now(p).id)) = 1
         /\ loc[p].old # <<>> => loc[p].old[1] \in Old(p) /\ Append(loc[p].old, Now(p).id)[1] = loc[p].old[1]
                                 /\ Len(Append(loc[p].old, Now(p).id)) # 1
         /\ InSubtree(Now(p), loc[p].old) <=> loc[p].old = <<>> \/ Now(p).re \in Old(p)
         /\ {Append(loc[p].old, Now(p).id)[n] : n \in DOMAIN Append(loc[p].old, Now(p).id)} = Old(p) \cup {Now(p).id}
         /\ Append(loc[p].old, Now(p).id) # <<>>
<1> DEFINE l == loc[p].old
           x == Now(p).id
           m == Append(l, x)
<1>1. l \in Seq(0 .. MaxId) /\ x \in 0 .. MaxId
  BY EntryType, LocalTypes, RecordTypes DEF Now
<1>0. Old(p) = {l[n] : n \in DOMAIN l} /\ (InSubtree(Now(p), l) <=> l = <<>> \/ \E i \in DOMAIN l : Now(p).re = l[i])
  BY DEF Old, InSubtree
<1> HIDE DEF l, x
<1>2. DOMAIN l = 1 .. Len(l) /\ DOMAIN m = 1 .. Len(l) + 1 /\ Len(l) \in Nat /\ Len(m) = Len(l) + 1
      /\ m[Len(l) + 1] = x /\ \A i \in 1 .. Len(l) : m[i] = l[i]
  BY <1>1
<1> HIDE DEF m
<1>3. l = <<>> => Old(p) = {} /\ m[1] = x /\ Len(m) = 1
  BY <1>0, <1>2
<1>4. l # <<>> => l[1] \in Old(p) /\ m[1] = l[1] /\ Len(m) # 1
  <2>1. l # <<>> => Len(l) >= 1
    BY <1>1
  <2>2. l # <<>> => 1 \in DOMAIN l /\ 1 \in 1 .. Len(l)
    BY <1>2, <2>1
  <2> QED BY <1>0, <1>2, <2>1, <2>2
<1>5. {m[n] : n \in DOMAIN m} = Old(p) \cup {x}
  <2>1. \A n \in DOMAIN m : n \in DOMAIN l \/ n = Len(l) + 1
    BY <1>2
  <2>2. Len(l) + 1 \in DOMAIN m /\ DOMAIN l \subseteq DOMAIN m
    BY <1>2
  <2> QED BY <1>0, <1>2, <2>1, <2>2
<1>6. m # <<>>
  BY <1>2
<1>7. InSubtree(Now(p), l) <=> l = <<>> \/ Now(p).re \in Old(p)
  BY <1>0
<1> QED BY <1>3, <1>4, <1>5, <1>6, <1>7 DEF l, x, m

(* Going on under a message of the split adds its number to the old ones. *)
LEMMA OldGrows ==
  ASSUME TypeInv, NEW p \in Procs, loc'[p].old = Append(loc[p].old, Now(p).id)
  PROVE  Old(p)' = Old(p) \cup {Now(p).id}
<1> DEFINE m == Append(loc[p].old, Now(p).id)
<1>1. {m[k] : k \in DOMAIN m} = Old(p) \cup {Now(p).id}
  BY OldOnes
<1>2. loc'[p].old = m
  OBVIOUS
<1> HIDE DEF m
<1>3. Old(p)' = {m[k] : k \in DOMAIN m}
  BY <1>2, Zenon DEF Old
<1> QED BY <1>1, <1>3, Zenon

LEMMA SplitMoves ==
  ASSUME TypeInv, OrderInv, Nobody \notin harmed, NEW p \in Procs, Split(p), InSubtree(Now(p), loc[p].old)
  PROVE  /\ MovedAt(dir, dir', loc[p].now, FirstOld(p), IF loc[p].old = <<>> THEN Now(p).id ELSE Now(p).re)
         /\ FirstOld(p) \in Ids
<1> DEFINE n == loc[p].now
           old == Append(loc[p].old, Now(p).id)
           e == [dir[n] EXCEPT !.group = FirstOld(p), !.re = IF loc[p].old = <<>> THEN Now(p).id ELSE Now(p).re]
<1>1. /\ dir' = [dir EXCEPT ![n].group = old[1], ![n].re = IF Len(old) = 1 THEN old[1] ELSE @]
      /\ InThread(p)
  BY DEF Split
<1>2. n \in 1 .. Len(dir) /\ n \in DOMAIN dir /\ Now(p) = dir[n] /\ Posted(Now(p), lastid)
  BY <1>1, NowThere
<1>3. old[1] = FirstOld(p) /\ (Len(old) = 1 <=> loc[p].old = <<>>)
  BY OldOnes DEF FirstOld
<1> HIDE DEF old
<1>4. dir \in Seq(Record) /\ dir[n] \in Record /\ MaxId \in Nat /\ lastid \in 0 .. MaxId
  BY <1>2, LengthNat, Consts DEF TypeInv
<1>5. FirstOld(p) \in Ids
  <2>1. CASE loc[p].old = <<>>
    BY <1>2, <1>4, <2>1 DEF FirstOld, Posted, Ids
  <2>2. CASE loc[p].old # <<>>
    <3>1. Old(p) \subseteq Ids
      BY <1>1 DEF OrderInv, InOrder, Walking, InThread, Walk
    <3> QED BY <2>2, <3>1, OldOnes DEF FirstOld
  <2> QED BY <2>1, <2>2
<1>6. e \in Record /\ e.id = dir[n].id /\ e.group = FirstOld(p)
      /\ e.re = IF loc[p].old = <<>> THEN Now(p).id ELSE Now(p).re
  <2> DEFINE y == IF loc[p].old = <<>> THEN Now(p).id ELSE Now(p).re
  <2>1. y \in 0 .. MaxId
    BY <1>2, <1>4, RecordTypes
  <2>2. FirstOld(p) \in 0 .. MaxId
    BY <1>4, <1>5 DEF Ids
  <2>3. e = [dir[n] EXCEPT !.group = FirstOld(p), !.re = y]
    OBVIOUS
  <2> HIDE DEF y, e
  <2>4. e \in Record /\ e.id = dir[n].id /\ e.group = FirstOld(p) /\ e.re = y
    BY <1>4, <2>1, <2>2, <2>3 DEF Record
  <2> QED BY <2>4 DEF y
<1>7. dir' = [dir EXCEPT ![n] = e]
  <2>1. IF Len(old) = 1 THEN old[1] = (IF loc[p].old = <<>> THEN Now(p).id ELSE Now(p).re)
        ELSE dir[n].re = (IF loc[p].old = <<>> THEN Now(p).id ELSE Now(p).re)
    BY <1>2, <1>3 DEF FirstOld
  <2>2. dir' = [dir EXCEPT ![n] = [dir[n] EXCEPT !.group = old[1], !.re = IF Len(old) = 1 THEN old[1] ELSE dir[n].re]]
    BY <1>1, <1>2
  <2> QED BY <1>3, <2>1, <2>2
<1> HIDE DEF e, n
<1>8. Len(dir') = Len(dir) /\ \A j \in 1 .. Len(dir) : dir'[j] = IF j = n THEN e ELSE dir[j]
  BY <1>4, <1>6, <1>7, ChangedAt
<1>9. MovedAt(dir, dir', n, FirstOld(p), IF loc[p].old = <<>> THEN Now(p).id ELSE Now(p).re)
  BY <1>2, <1>6, <1>8 DEF MovedAt
<1> QED BY <1>5, <1>9 DEF n

-----------------------------------------------------------------------------
(* The order of the articles stays.                                          *)
LEMMA OrderedStays ==
  ASSUME TypeInv, OrderInv, Nobody \notin harmed, NEW p \in Procs, Changes(p)
  PROVE  /\ Ordered(dir', bin', lastid', renumbered')
         /\ lastid' \in Nat /\ lastid' >= lastid
<1>0. /\ dir \in Seq(Record) /\ dir' \in Seq(Record) /\ lastid \in 0 .. MaxId /\ MaxId \in Nat
      /\ Ordered(dir, bin, lastid, renumbered)
      /\ DOMAIN dir = 1 .. Len(dir) /\ DOMAIN dir' = 1 .. Len(dir')
  <2>1. dir' \in Seq(Record)
    BY FilesStay DEF Changes, Step, WalkOn, Single
  <2> QED BY <2>1, Consts DEF TypeInv, OrderInv
<1>1. CASE SetFlags(p) \/ Mark(p)
  <2>1. SameRecords(dir, dir') /\ UNCHANGED <<bin, lastid, renumbered>>
    BY <1>1, FlagsChange
  <2>2. \A i \in DOMAIN dir : Posted(dir[i], lastid)
    BY <1>0 DEF Ordered
  <2>3. DOMAIN dir' = DOMAIN dir /\ \A i \in DOMAIN dir : dir'[i].id = dir[i].id /\ Posted(dir'[i], lastid)
    BY <1>0, <2>1, <2>2 DEF SameRecords, Posted
  <2>4. Ordered(dir', bin, lastid, renumbered)
    BY <1>0, <2>3, SameIds
  <2> QED BY <1>0, <2>1, <2>4
<1>2. CASE Split(p)
  <2>1. UNCHANGED <<bin, lastid, renumbered>> /\ InThread(p)
    BY <1>2 DEF Split
  <2>2. CASE InSubtree(Now(p), loc[p].old)
    <3> DEFINE n == loc[p].now
               y == IF loc[p].old = <<>> THEN Now(p).id ELSE Now(p).re
    <3>1. MovedAt(dir, dir', n, FirstOld(p), y) /\ FirstOld(p) \in Ids
      BY <1>2, <2>2, SplitMoves
    <3>2. Now(p) = dir[n] /\ Posted(dir[n], lastid)
      BY <2>1, NowThere
    <3>3. y \in 1 .. dir[n].id
      BY <3>2 DEF Posted
    <3>4. \A i \in DOMAIN dir : Posted(dir[i], lastid)
      BY <1>0 DEF Ordered
    <3> HIDE DEF n, y
    <3>5. DOMAIN dir' = DOMAIN dir
      BY <1>0, <3>1 DEF MovedAt
    <3>6. ASSUME NEW i \in DOMAIN dir PROVE dir'[i].id = dir[i].id /\ Posted(dir'[i], lastid)
      <4>1. CASE i = n
        BY <3>1, <3>2, <3>3, <4>1 DEF MovedAt, Posted
      <4>2. CASE i # n
        BY <1>0, <3>1, <3>4, <4>2 DEF MovedAt
      <4> QED BY <4>1, <4>2
    <3>7. Ordered(dir', bin, lastid, renumbered)
      BY <1>0, <3>5, <3>6, SameIds
    <3> QED BY <1>0, <2>1, <3>7
  <2>3. CASE ~InSubtree(Now(p), loc[p].old)
    <3>1. dir' = dir
      BY <1>2, <2>3 DEF Split
    <3> QED BY <1>0, <2>1, <3>1
  <2> QED BY <2>2, <2>3
<1>3. CASE DelEntry(p) \/ RemoveOne(p)
  <2>1. PICK n \in 1 .. Len(dir) : GoneAt(dir, dir', n) /\ bin' = bin \cup {dir[n]}
    <3>1. CASE DelEntry(p)
      <4>1. GoneAt(dir, dir', loc[p].now) /\ bin' = bin \cup {dir[loc[p].now]}
        BY <3>1, EntryGoes
      <4> QED BY <4>1 DEF GoneAt
    <3>2. CASE RemoveOne(p)
      BY <3>2, EntryRemoved
    <3> QED BY <1>3, <3>1, <3>2
  <2>2. UNCHANGED <<lastid, renumbered>>
    BY <1>3 DEF DelEntry, RemoveOne
  <2>3. lastid \in Nat
    BY <1>0
  <2>4. Len(dir') = Len(dir) - 1 /\ \A j \in 1 .. Len(dir') : dir'[j] = dir[IF j < n THEN j ELSE j + 1]
    BY <2>1 DEF GoneAt
  <2>5. Ordered(dir', bin \cup {dir[n]}, lastid, renumbered)
    BY <1>0, <2>3, <2>4, OneGone
  <2> QED BY <1>0, <2>1, <2>2, <2>5
<1>4. CASE Post(p)
  <2> DEFINE n == Len(dir) + 1
  <2>1. /\ AddedAt(dir, dir', n) /\ n \in Nat
        /\ dir'[n] = [id |-> lastid + 1, group |-> loc[p].fh.group, re |-> loc[p].fh.id, flags |-> {}]
        /\ lastid' = lastid + 1 /\ lastid < MaxId /\ UNCHANGED <<bin, renumbered>>
    BY <1>4, EntryPosted
  <2>2. Posted(loc[p].fh, lastid)
    BY <1>4 DEF Post, OrderInv, InOrder, Holds
  <2>3. dir'[n].id = lastid + 1 /\ dir'[n].group = loc[p].fh.group /\ dir'[n].re = loc[p].fh.id
    BY <2>1
  <2>4. Posted(dir'[n], lastid + 1)
    BY <1>0, <2>2, <2>3 DEF Posted, Ids
  <2>5. FitsAt(dir, dir'[n].id, n)
    <3>1. ASSUME NEW j \in 1 .. Len(dir) PROVE j < n /\ dir[j].id < lastid + 1
      <4>1. Posted(dir[j], lastid)
        BY <1>0 DEF Ordered
      <4>2. Len(dir) \in Nat
        BY LengthNat
      <4> QED BY <1>0, <4>1, <4>2 DEF Posted
    <3> QED BY <2>3, <3>1 DEF FitsAt
  <2>6. LastIs(lastid, dir'[n].id, lastid + 1) /\ lastid \in Nat /\ dir'[n].id \notin renumbered
    BY <1>0, <2>3 DEF LastIs, Ordered
  <2>7. Without(bin, dir'[n].id) = bin
    BY <1>0, <2>3 DEF Without, Ordered, Posted
  <2> HIDE DEF n
  <2>8. Ordered(dir', Without(bin, dir'[n].id), lastid + 1, renumbered)
    BY <1>0, <2>1, <2>4, <2>5, <2>6, OneAdded
  <2> QED BY <1>0, <2>1, <2>7, <2>8
<1>5. CASE Recover(p)
  BY <1>5, Recovered
<1> QED BY <1>1, <1>2, <1>3, <1>4, <1>5 DEF Changes

LEMMA OrderInvInit == Init => OrderInv
<1> SUFFICES ASSUME Init PROVE OrderInv
  OBVIOUS
<1>1. dir \in Dirs /\ dir \in Seq(Article) /\ bin = {} /\ renumbered = {} /\ lastid = Len(dir)
  BY DirsAssumption DEF Init
<1>2. DOMAIN dir = 1 .. Len(dir) /\ \A i \in DOMAIN dir : dir[i] \in Article
  BY <1>1
<1>3. \A i \in DOMAIN dir : dir[i].id = i /\ dir[i].re \in 1 .. i
  BY <1>1, PostedAssumption
<1>4. \A i \in DOMAIN dir : dir[i].group \in Ids
  <2> SUFFICES ASSUME NEW i \in DOMAIN dir PROVE dir[i].group \in Ids
    OBVIOUS
  <2>1. dir[i] \in Article
    BY <1>2
  <2> QED BY <2>1, Consts DEF Article, Record, Ids
<1>5. \A i \in DOMAIN dir : Posted(dir[i], lastid)
  BY <1>1, <1>2, <1>3, <1>4 DEF Posted
<1>6. Ordered(dir, bin, lastid, renumbered)
  BY <1>1, <1>2, <1>3, <1>5 DEF Ordered
<1>7. \A p \in Procs : InOrder(p)
  BY DEF Init, InOrder, Holds, Walking
<1> QED BY <1>6, <1>7 DEF OrderInv

LEMMA LastidGrows ==
  ASSUME TypeInv, OrderInv, Nobody \notin harmed, NEW p \in Procs, Step(p)
  PROVE  lastid' \in Nat /\ lastid' >= lastid /\ \A a : Posted(a, lastid) => Posted(a, lastid')
<1>1. lastid' \in Nat /\ lastid' >= lastid /\ lastid \in Nat
  BY OnlyChanges, OrderedStays, Consts DEF SameFiles, TypeInv
<1> QED BY <1>1 DEF Posted

(* What a process has to itself. *)
LEMMA InOrderOwn ==
  ASSUME TypeInv, OrderInv, Nobody \notin harmed, NEW p \in Procs, Step(p)
  PROVE  InOrder(p)'
<1>0. /\ pc \in [Procs -> {"idle", "viewed", "walk", "asked", "written", "found", "done", "gone"}]
      /\ loc \in [Procs -> Locals] /\ loc[p] \in Locals
      /\ InOrder(p) /\ \A i \in DOMAIN dir : Posted(dir[i], lastid)
      /\ \A a : Posted(a, lastid) => Posted(a, lastid')
  BY LastidGrows DEF TypeInv, OrderInv, Ordered
<1>1. ASSUME pc'[p] \notin {"viewed", "walk", "asked", "written"} PROVE InOrder(p)'
  BY <1>1 DEF InOrder, Holds, Walking
<1>2. ASSUME Walking(p), loc'[p].fh = loc[p].fh, loc'[p].count = loc[p].count, loc'[p].size = loc[p].size,
             loc'[p].old = loc[p].old, Len(dir') = Len(dir)
      PROVE  InOrder(p)'
  BY <1>0, <1>2 DEF InOrder, Holds, Walking, Old
<1>3. loc' = [loc EXCEPT ![p].now = @ + 1] =>
        /\ loc'[p].fh = loc[p].fh /\ loc'[p].count = loc[p].count /\ loc'[p].size = loc[p].size
        /\ loc'[p].old = loc[p].old
  BY <1>0 DEF Locals
<1>4. ASSUME GoOn(p), Walking(p), Len(dir') = Len(dir) PROVE InOrder(p)'
  BY <1>0, <1>1, <1>2, <1>3, <1>4 DEF GoOn, Goto
<1>5. CASE View(p)
  <2>1. PICK i \in DOMAIN dir, f \in BOOLEAN :
          loc' = [loc EXCEPT ![p].fh = dir[i], ![p].pos = i, ![p].files = Len(dir), ![p].first = f]
    BY <1>5 DEF View
  <2>2. loc'[p].fh = dir[i] /\ pc'[p] = "viewed"
    BY <1>0, <1>5, <2>1 DEF View, Goto, Locals
  <2> QED BY <1>0, <2>2 DEF InOrder, Holds, Walking
<1>6. CASE LockDir(p) /\ dir # <<>>
  <2>1. loc' = [loc EXCEPT ![p].now = First(p), ![p].count = Len(dir)] /\ pc'[p] = "walk" /\ pc[p] = "viewed" /\ dir' = dir
    BY <1>0, <1>6 DEF LockDir, Goto
  <2>2. loc'[p].fh = loc[p].fh /\ loc'[p].count = Len(dir) /\ loc'[p].size = loc[p].size /\ loc'[p].old = loc[p].old
    BY <1>0, <2>1 DEF Locals
  <2>3. loc[p].size = Unmapped /\ loc[p].old = <<>>
    BY <2>1 DEF TypeInv, InPlace
  <2>4. Old(p)' = {}
    BY <2>2, <2>3 DEF Old
  <2> QED BY <1>0, <2>1, <2>2, <2>3, <2>4 DEF InOrder, Holds, Walking
<1>7. CASE LockDir(p) /\ dir = <<>>
  BY <1>0, <1>1, <1>7 DEF LockDir, Goto
<1>8. CASE PassBy(p)
  BY <1>4, <1>8 DEF PassBy, Walk, Walking
<1>17. CASE SetFlags(p)
  <2>1. Len(dir') = Len(dir)
    BY <1>17, FlagsChange DEF SameRecords
  <2> QED BY <1>4, <1>17, <2>1 DEF SetFlags, InThread, Walk, Walking
<1>9. CASE Ask(p)
  BY <1>0, <1>2, <1>9 DEF Ask, InThread, Walk, Walking
<1>10. CASE Answer(p)
  BY <1>2, <1>3, <1>4, <1>10 DEF Answer, Walking
<1>11. CASE Leave(p)
  BY <1>0, <1>1, <1>11 DEF Leave, Goto
<1>12. CASE DelEntry(p)
  <2>1. GoneAt(dir, dir', loc[p].now) /\ loc'[p].count = loc[p].count - 1 /\ loc'[p].size = Len(dir')
        /\ loc'[p].fh = loc[p].fh /\ loc'[p].old = loc[p].old
    BY <1>12, EntryGoes
  <2>2. loc'[p].count = Len(dir') /\ Walking(p)
    BY <1>12, <2>1, NowThere DEF DelEntry, GoneAt, InThread, Walk, Walking
  <2> QED BY <1>0, <2>1, <2>2 DEF InOrder, Holds, Walking, Old
<1>13. CASE DelFails(p)
  BY <1>13, NowThere, LengthNat DEF DelFails
<1>14. CASE Split(p)
  <2>0. Len(dir') = Len(dir)
    <3>1. CASE InSubtree(Now(p), loc[p].old)
      BY <1>14, <3>1, SplitMoves DEF MovedAt
    <3> QED BY <1>14, <3>1 DEF Split
  <2>1. CASE GoOn(p)
    BY <1>4, <1>14, <2>0, <2>1 DEF Split, InThread, Walk, Walking
  <2>2. CASE loc' = [loc EXCEPT ![p].now = @ + 1, ![p].old = Append(loc[p].old, Now(p).id)]
    <3>1. /\ loc'[p].fh = loc[p].fh /\ loc'[p].count = loc[p].count /\ loc'[p].size = loc[p].size
          /\ loc'[p].old = Append(loc[p].old, Now(p).id)
      BY <1>0, <2>2 DEF Locals
    <3>2. Old(p)' = Old(p) \cup {Now(p).id}
      BY <3>1, OldGrows
    <3>3. Now(p).id \in Ids /\ Walking(p)
      <4>1. Posted(Now(p), lastid) /\ Walking(p)
        BY <1>14, NowThere DEF Split, InThread, Walk, Walking
      <4> QED BY <4>1, Consts DEF Posted, TypeInv, Ids
    <3> QED BY <1>0, <2>0, <3>1, <3>2, <3>3 DEF InOrder, Holds, Walking
  <2> QED BY <1>14, <2>1, <2>2 DEF Split
<1>15. CASE Reply(p)
  <2>1. PICK a \in Files : loc' = [loc EXCEPT ![p].fh = a]
    BY <1>15 DEF Reply
  <2>2. loc'[p].fh = a /\ pc'[p] = "written" /\ Posted(a, lastid)
    BY <1>0, <1>15, <2>1 DEF Reply, Goto, Locals, Files
  <2> QED BY <1>0, <2>2 DEF InOrder, Holds, Walking
<1>16. CASE Post(p) \/ RemoveOne(p) \/ Recover(p) \/ Find(p) \/ Mark(p)
  BY <1>0, <1>1, <1>16 DEF Post, RemoveOne, Recover, Find, Mark, Goto
<1> QED BY <1>5, <1>6, <1>7, <1>8, <1>9, <1>10, <1>11, <1>12, <1>13, <1>14, <1>15, <1>16, <1>17
        DEF Step, WalkOn, Single

LEMMA OrderInvStep ==
  ASSUME "unlocked" \in Windows
  PROVE  TypeInv /\ LockInv /\ OrderInv /\ [Next]_vars => OrderInv'
<1> SUFFICES ASSUME TypeInv, LockInv, OrderInv, [Next]_vars PROVE OrderInv'
  OBVIOUS
<1>1. ASSUME NEW p \in Procs, Step(p), Nobody \notin harmed'
      PROVE  Ordered(dir, bin, lastid, renumbered)' /\ \A q \in Procs : InOrder(q)'
  <2>0. Nobody \notin harmed
    BY <1>1, Others
  <2>1. Ordered(dir, bin, lastid, renumbered)'
    <3>1. CASE SameFiles
      BY <2>0, <3>1 DEF OrderInv, SameFiles
    <3>2. CASE Changes(p)
      BY <2>0, <3>2, OrderedStays
    <3> QED BY <1>1, <3>1, <3>2, OnlyChanges
  <2>2. ASSUME NEW q \in Procs PROVE InOrder(q)'
    <3>1. CASE q = p
      BY <1>1, <2>0, <3>1, InOrderOwn
    <3>2. CASE q # p
      <4>1. pc'[q] = pc[q] /\ loc'[q] = loc[q] /\ \A a : Posted(a, lastid) => Posted(a, lastid')
        BY <1>1, <2>0, <3>2, Others, LastidGrows
      <4>2. InOrder(q)
        BY <2>0 DEF OrderInv
      <4>3. Len(dir') = Len(dir) \/ ~Walking(q)
        <5>1. CASE SameFiles
          BY <5>1 DEF SameFiles
        <5>2. CASE Changes(p)
          BY <1>1, <3>2, <5>2, ChangesAlone DEF Walking
        <5> QED BY <1>1, <5>1, <5>2, OnlyChanges
      <4> QED BY <4>1, <4>2, <4>3 DEF InOrder, Holds, Walking, Old
    <3> QED BY <3>1, <3>2
  <2> QED BY <2>1, <2>2
<1>2. CASE UNCHANGED vars
  BY <1>2 DEF vars, OrderInv, InOrder, Holds, Walking, Old
<1> QED BY <1>1, <1>2, Steps DEF OrderInv

(* Whatever the users do, an article is in .DIR, once, or in .DELETED, and   *)
(* .DIR has nothing else and is sorted, if nobody works on .DIR while a      *)
(* thread is being deleted without the lock (newread.c:1370, article.c:362,  *)
(* 714).                                                                     *)
THEOREM ThreadNothingLost ==
  ASSUME "unlocked" \in Windows
  PROVE  Spec => []NothingLost
<1> DEFINE I == TypeInv /\ LockInv /\ OrderInv
<1>1. Init => I
  BY TypeInvInit, LockInvInit, OrderInvInit
<1>2. I /\ [Next]_vars => I'
  BY TypeInvStep, LockInvStep, OrderInvStep
<1>3. I => NothingLost
  BY OrderedMeans DEF OrderInv, NothingLost, Excused
<1> QED BY <1>1, <1>2, <1>3, PTL DEF Spec

-----------------------------------------------------------------------------
(* A reply is in the thread of the article it replies to.                    *)
Related(d, i, j)  == d[i].re = d[j].id
Together(d, h)    == \A i, j \in DOMAIN d : Related(d, i, j) => d[i].group = d[j].group \/ d[i].id \in h
OldBefore(p)      == \A x \in Old(p) : \E k \in DOMAIN dir :
                        k < loc[p].now /\ dir[k].id = x /\ dir[k].group = loc[p].old[1]

LEMMA GroupInvMeans ==
  ASSUME GroupInv, Nobody \notin harmed
  PROVE  /\ \A p \in Procs : Splits(p) => OldBefore(p)
         /\ \A i, j \in DOMAIN dir : Related(dir, i, j) =>
              dir[i].group = dir[j].group \/ dir[i].id \in harmed \/ \E p \in Procs : ToSplit(p, i, j)
BY DEF GroupInv, OldBefore, Related

(* Without a split going on, before and after a step. *)
LEMMA NoSplitBefore ==
  ASSUME GroupInv, Nobody \notin harmed, \A p \in Procs : ~Splits(p)
  PROVE  Together(dir, harmed)
BY GroupInvMeans DEF Together, ToSplit

LEMMA NoSplitAfter ==
  ASSUME Together(dir, harmed)', \A p \in Procs : ~Splits(p)'
  PROVE  GroupInv'
BY DEF Together, GroupInv, Related

LEMMA GroupInvInit == Init => GroupInv
<1> SUFFICES ASSUME Init PROVE GroupInv
  OBVIOUS
<1>1. \A i, j \in DOMAIN dir : Related(dir, i, j) => dir[i].group = dir[j].group
  BY PostedAssumption DEF Init, Related
<1>2. \A p \in Procs : ~Splits(p)
  BY DEF Init, Splits
<1> QED BY <1>1, <1>2 DEF GroupInv, Related

LEMMA TogetherSame ==
  ASSUME NEW d \in Seq(Record), NEW e, SameRecords(d, e), DOMAIN e = DOMAIN d,
         NEW h, NEW g, h \subseteq g, Together(d, h)
  PROVE  Together(e, g)
<1>1. DOMAIN d = 1 .. Len(d)
  OBVIOUS
<1> QED BY <1>1 DEF SameRecords, Together, Related

LEMMA TogetherGone ==
  ASSUME NEW d \in Seq(Record), NEW e \in Seq(Record), NEW n, GoneAt(d, e, n),
         NEW h, NEW g, h \subseteq g, Together(d, h)
  PROVE  Together(e, g)
<1>1. DOMAIN d = 1 .. Len(d) /\ DOMAIN e = 1 .. Len(e) /\ Len(d) \in Nat /\ Len(e) \in Nat
  OBVIOUS
<1> DEFINE t(j) == IF j < n THEN j ELSE j + 1
<1>2. \A j \in DOMAIN e : t(j) \in DOMAIN d /\ e[j] = d[t(j)]
  BY <1>1 DEF GoneAt
<1> HIDE DEF t
<1> QED BY <1>2 DEF Together, Related

(* An entry put in: what matters is the pairs it is in. *)
LEMMA TogetherAdded ==
  ASSUME NEW d \in Seq(Record), NEW e \in Seq(Record), NEW n, AddedAt(d, e, n),
         NEW h, NEW g, h \subseteq g, Together(d, h),
         \A i \in DOMAIN e, j \in DOMAIN e :
           (i = n \/ j = n) /\ Related(e, i, j) => e[i].group = e[j].group \/ e[i].id \in g
  PROVE  Together(e, g)
<1>1. DOMAIN d = 1 .. Len(d) /\ DOMAIN e = 1 .. Len(e) /\ Len(d) \in Nat /\ Len(e) \in Nat
  OBVIOUS
<1> DEFINE t(j) == IF j < n THEN j ELSE j + 1
<1>2. \A j \in DOMAIN d : e[t(j)] = d[j]
  BY <1>1 DEF AddedAt
<1>3. \A i \in DOMAIN e \ {n} : \E j \in DOMAIN d : t(j) = i
  <2> TAKE i \in DOMAIN e \ {n}
  <2>0. n \in 1 .. Len(d) + 1 /\ Len(e) = Len(d) + 1
    BY DEF AddedAt
  <2>1. CASE i < n
    <3>1. i \in DOMAIN d /\ t(i) = i
      BY <1>1, <2>0, <2>1
    <3> QED BY <3>1
  <2>2. CASE ~(i < n)
    <3>1. i - 1 \in DOMAIN d /\ t(i - 1) = i
      BY <1>1, <2>0, <2>2
    <3> QED BY <3>1
  <2> QED BY <2>1, <2>2
<1> HIDE DEF t
<1>4. ASSUME NEW i \in DOMAIN e, NEW j \in DOMAIN e, Related(e, i, j)
      PROVE  e[i].group = e[j].group \/ e[i].id \in g
  <2>1. CASE i # n /\ j # n
    <3>1. PICK k \in DOMAIN d, l \in DOMAIN d : t(k) = i /\ t(l) = j
      BY <1>3, <2>1
    <3>2. e[i] = d[k] /\ e[j] = d[l]
      BY <1>2, <3>1
    <3> QED BY <1>4, <3>2 DEF Together, Related
  <2> QED BY <1>4, <2>1
<1> QED BY <1>4 DEF Together

LEMMA PostTogether ==
  ASSUME TypeInv, OrderInv, Nobody \notin harmed, "reply" \in Windows, NEW p \in Procs, Post(p),
         Together(dir, harmed)
  PROVE  Together(dir', harmed')
<1> DEFINE n == Len(dir) + 1
           f == loc[p].fh
<1>1. /\ AddedAt(dir, dir', n) /\ n \in Nat
      /\ dir'[n] = [id |-> lastid + 1, group |-> f.group, re |-> f.id, flags |-> {}]
  BY EntryPosted
<1>2. /\ dir \in Seq(Record) /\ dir' \in Seq(Record) /\ lastid \in 0 .. MaxId /\ MaxId \in Nat
      /\ Ordered(dir, bin, lastid, renumbered)
      /\ DOMAIN dir = 1 .. Len(dir) /\ DOMAIN dir' = 1 .. Len(dir') /\ Len(dir) \in Nat
  <2>1. dir' \in Seq(Record)
    BY FilesStay DEF Step, Single
  <2> QED BY <2>1, Consts DEF TypeInv, OrderInv
<1>3. harmed \subseteq harmed' /\ (Here(f.id) /\ Group(f.id) # f.group => lastid + 1 \in harmed')
  BY DEF Post, Harm
<1>4. Posted(f, lastid)
  BY DEF Post, OrderInv, InOrder, Holds
<1>5. dir'[n].id = lastid + 1 /\ dir'[n].group = f.group /\ dir'[n].re = f.id
  BY <1>1
<1>6. \A j \in DOMAIN dir' : j # n => j \in DOMAIN dir /\ dir'[j] = dir[j] /\ Posted(dir[j], lastid)
  BY <1>1, <1>2 DEF AddedAt, Ordered
<1> HIDE DEF f, n
<1>7. ASSUME NEW i \in DOMAIN dir', NEW j \in DOMAIN dir', i = n \/ j = n, Related(dir', i, j)
      PROVE  dir'[i].group = dir'[j].group \/ dir'[i].id \in harmed'
  <2>1. CASE i = n /\ j = n
    BY <2>1
  <2>2. CASE i = n /\ j # n
    <3>1. dir[j].id = f.id /\ dir'[j] = dir[j] /\ j \in DOMAIN dir
      BY <1>5, <1>6, <1>7, <2>2 DEF Related
    <3>2. Here(f.id)
      BY <3>1 DEF Here, Files
    <3>3. Group(f.id) = dir[j].group
      <4>1. \A a \in Files : a.id = f.id => a = dir[j]
        <5> SUFFICES ASSUME NEW k \in DOMAIN dir, dir[k].id = f.id PROVE dir[k] = dir[j]
          BY DEF Files
        <5>0. lastid \in Nat /\ dir[k].id = dir[j].id /\ j \in DOMAIN dir
          BY <1>2, <3>1
        <5>1. k = j
          BY <1>2, <5>0, OnePlace
        <5> QED BY <5>1
      <4>2. dir[j] \in Files
        BY <3>1 DEF Files
      <4>3. (CHOOSE a \in Files : a.id = f.id) = dir[j]
        BY <3>1, <4>1, <4>2
      <4> QED BY <4>3 DEF Group
    <3> QED BY <1>3, <1>5, <2>2, <3>1, <3>2, <3>3
  <2>3. CASE j = n /\ i # n
    <3>1. dir[i].re = lastid + 1 /\ Posted(dir[i], lastid)
      BY <1>5, <1>6, <1>7, <2>3 DEF Related
    <3> QED BY <1>2, <3>1 DEF Posted
  <2> QED BY <1>7, <2>1, <2>2, <2>3
<1> QED BY <1>1, <1>2, <1>3, <1>7, TogetherAdded

LEMMA RecoverTogether ==
  ASSUME TypeInv, OrderInv, Nobody \notin harmed, "recover" \in Windows, NEW p \in Procs, Recover(p),
         Together(dir, harmed)
  PROVE  Together(dir', harmed')
<1>0. dir \in Seq(Record) /\ dir' \in Seq(Record) /\ bin \subseteq Record /\ harmed \subseteq harmed'
  <2>1. dir' \in Seq(Record)
    BY FilesStay DEF Step, Single
  <2>2. harmed \subseteq harmed'
    BY Others DEF Step, Single
  <2> QED BY <2>1, <2>2 DEF TypeInv
<1>1. PICK a \in bin : LET b == [a EXCEPT !.flags = @ \ {"x"}]
                           F == Files \cup {b} IN
        IF dir = <<>>
        THEN dir' = <<[b EXCEPT !.id = lastid + 1, !.group = lastid + 1, !.re = lastid + 1]>>
        ELSE /\ \E k \in 1 .. Len(dir) + 1 : Place(k, a.id) /\ dir' = InsertAt(dir, k, b)
             /\ Harm(p, "recover", {x.id : x \in {y \in F : \E z \in F : y.re = z.id /\ y.group # z.group /\ b \in {y, z}}})
  BY DEF Recover
<1> DEFINE b == [a EXCEPT !.flags = @ \ {"x"}]
           F == Files \cup {b}
           Meet == {x.id : x \in {y \in F : \E z \in F : y.re = z.id /\ y.group # z.group /\ b \in {y, z}}}
<1>2. CASE dir = <<>>
  <2> DEFINE c == [b EXCEPT !.id = lastid + 1, !.group = lastid + 1, !.re = lastid + 1]
  <2>1. dir' = <<c>>
    BY <1>1, <1>2
  <2> HIDE DEF c
  <2>2. \A i, j \in DOMAIN dir' : i = 1 /\ j = 1
    BY <2>1
  <2>3. \A i, j \in DOMAIN dir' : dir'[i].group = dir'[j].group
    BY <2>2
  <2> QED BY <2>3 DEF Together
<1>3. CASE dir # <<>>
  <2>1. PICK k \in 1 .. Len(dir) + 1 : dir' = InsertAt(dir, k, b)
    BY <1>1, <1>3
  <2>2. Harm(p, "recover", Meet)
    BY <1>1, <1>3
  <2>3. \A y, z \in F : y.re = z.id /\ (b = y \/ b = z) => y.group = z.group \/ y.id \in harmed'
    <3>1. Meet \subseteq harmed'
      BY <2>2 DEF Harm
    <3> HIDE DEF b, F
    <3>2. \A y, z \in F : y.re = z.id /\ (b = y \/ b = z) => y.group = z.group \/ y.id \in Meet
      OBVIOUS
    <3> HIDE DEF Meet
    <3> QED BY <3>1, <3>2
  <2>4. b \in Record
    BY <1>0, RecordTypes DEF Record
  <2> HIDE DEF b
  <2>5. /\ Len(dir') = Len(dir) + 1 /\ dir'[k] = b
        /\ \A j \in 1 .. Len(dir) : dir'[IF j < k THEN j ELSE j + 1] = dir[j]
    BY <1>0, <2>1, <2>4, InsertedAt
  <2>6. AddedAt(dir, dir', k)
    BY <2>5 DEF AddedAt
  <2>7. ASSUME NEW i \in DOMAIN dir' PROVE dir'[i] \in F
    <3>1. CASE i = k
      BY <2>5, <3>1
    <3>2. CASE i # k
      <4>0. i \in 1 .. Len(dir) + 1 /\ Len(dir) \in Nat /\ DOMAIN dir = 1 .. Len(dir)
        BY <1>0, <2>5
      <4>1. CASE i < k
        <5>1. i \in 1 .. Len(dir) /\ dir'[i] = dir[i]
          BY <2>5, <4>0, <4>1
        <5> QED BY <4>0, <5>1 DEF Files
      <4>2. CASE ~(i < k)
        <5>1. i - 1 \in 1 .. Len(dir) /\ ~(i - 1 < k) /\ (i - 1) + 1 = i
          BY <3>2, <4>0, <4>2
        <5>2. dir'[i] = dir[i - 1]
          BY <2>5, <5>1
        <5> QED BY <4>0, <5>1, <5>2 DEF Files
      <4> QED BY <4>1, <4>2
    <3> QED BY <3>1, <3>2
  <2> HIDE DEF F
  <2>8. ASSUME NEW i \in DOMAIN dir', NEW j \in DOMAIN dir', i = k \/ j = k, Related(dir', i, j)
        PROVE  dir'[i].group = dir'[j].group \/ dir'[i].id \in harmed'
    <3>1. dir'[i] \in F /\ dir'[j] \in F /\ (dir'[i] = b \/ dir'[j] = b)
      BY <2>5, <2>7, <2>8
    <3>2. dir'[i].re = dir'[j].id
      BY <2>8 DEF Related
    <3> QED BY <2>3, <3>1, <3>2
  <2> QED BY <1>0, <2>6, <2>8, TogetherAdded
<1> QED BY <1>2, <1>3

(* A change by another than a split. *)
LEMMA TogetherStays ==
  ASSUME TypeInv, OrderInv, Nobody \notin harmed, {"reply", "recover"} \subseteq Windows,
         NEW p \in Procs, Changes(p), ~Split(p), Together(dir, harmed)
  PROVE  Together(dir', harmed')
<1>0. /\ dir \in Seq(Record) /\ dir' \in Seq(Record) /\ harmed \subseteq harmed'
      /\ DOMAIN dir = 1 .. Len(dir) /\ DOMAIN dir' = 1 .. Len(dir')
  <2>1. Step(p)
    BY DEF Changes, Step, WalkOn, Single
  <2>2. dir' \in Seq(Record) /\ harmed \subseteq harmed'
    BY <2>1, FilesStay, Others
  <2> QED BY <2>2 DEF TypeInv
<1>1. CASE SetFlags(p) \/ Mark(p)
  <2>1. SameRecords(dir, dir')
    BY <1>1, FlagsChange
  <2>2. DOMAIN dir' = DOMAIN dir
    BY <1>0, <2>1 DEF SameRecords
  <2> QED BY <1>0, <2>1, <2>2, TogetherSame
<1>2. CASE DelEntry(p)
  <2>1. GoneAt(dir, dir', loc[p].now)
    BY <1>2, EntryGoes
  <2> QED BY <1>0, <2>1, TogetherGone
<1>3. CASE RemoveOne(p)
  <2>1. PICK n \in 1 .. Len(dir) : GoneAt(dir, dir', n)
    BY <1>3, EntryRemoved
  <2> QED BY <1>0, <2>1, TogetherGone
<1>4. CASE Post(p)
  BY <1>4, PostTogether
<1>5. CASE Recover(p)
  BY <1>5, RecoverTogether
<1> QED BY <1>1, <1>2, <1>3, <1>4, <1>5 DEF Changes

(* A split goes down: what it passes it does not have to look at again. *)
GoesOn(p) == pc' = pc /\ loc'[p].now = loc[p].now + 1 /\ loc'[p].fh = loc[p].fh
Ends(p)   == pc'[p] = "done" /\ loc[p].count < loc[p].now + 1

LEMMA GoOnMeans ==
  ASSUME TypeInv, NEW p \in Procs, GoOn(p)
  PROVE  (GoesOn(p) /\ loc'[p].old = loc[p].old /\ lock' = lock) \/ (Ends(p) /\ (lock = p => lock' = Nobody))
<1>1. pc \in [Procs -> {"idle", "viewed", "walk", "asked", "written", "found", "done", "gone"}]
      /\ loc \in [Procs -> Locals] /\ loc[p] \in Locals
  BY DEF TypeInv
<1>2. loc[p].now \in Nat /\ loc[p].count \in Nat
  BY LocalTypes
<1>3. CASE loc[p].now + 1 > loc[p].count
  BY <1>1, <1>2, <1>3 DEF GoOn, Goto, Ends
<1>4. CASE ~(loc[p].now + 1 > loc[p].count)
  BY <1>1, <1>4 DEF GoOn, GoesOn, Locals
<1> QED BY <1>3, <1>4

LEMMA SplitMeans ==
  ASSUME TypeInv, NEW p \in Procs, Split(p)
  PROVE  /\ GoesOn(p) \/ Ends(p)
         /\ InSubtree(Now(p), loc[p].old) => Ends(p) \/ loc'[p].old = Append(loc[p].old, Now(p).id)
         /\ ~InSubtree(Now(p), loc[p].old) => dir' = dir /\ (Ends(p) \/ loc'[p].old = loc[p].old)
<1>1. CASE ~InSubtree(Now(p), loc[p].old)
  BY <1>1, GoOnMeans DEF Split
<1>2. CASE InSubtree(Now(p), loc[p].old)
  <2>1. CASE loc[p].now + 1 > loc[p].count
    <3>1. GoOn(p) /\ loc[p].now \in Nat /\ loc[p].count \in Nat
      BY <1>2, <2>1, LocalTypes DEF Split
    <3>2. Ends(p)
      BY <2>1, <3>1, GoOnMeans DEF GoOn, Ends, Goto, TypeInv
    <3> QED BY <1>2, <3>2
  <2>2. CASE ~(loc[p].now + 1 > loc[p].count)
    <3>1. loc' = [loc EXCEPT ![p].now = @ + 1, ![p].old = Append(loc[p].old, Now(p).id)] /\ pc' = pc
      BY <1>2, <2>2 DEF Split
    <3>2. GoesOn(p) /\ loc'[p].old = Append(loc[p].old, Now(p).id)
      BY <3>1 DEF GoesOn, TypeInv, Locals
    <3> QED BY <1>2, <3>2
  <2> QED BY <2>1, <2>2
<1> QED BY <1>1, <1>2

(* A split that moves an article: those it has met are in the new thread,    *)
(* and whose parent it has just met is behind it, in the old thread.         *)
LEMMA SplitGroups ==
  ASSUME TypeInv, OrderInv, GroupInv, Nobody \notin harmed, NEW p \in Procs, Split(p),
         \A q \in Procs \ {p} : ~Splits(q) /\ ~Splits(q)', task' = task, harmed \subseteq harmed'
  PROVE  GroupInv'
<1> DEFINE n == loc[p].now
           r == FirstOld(p)
<1>0. /\ dir \in Seq(Record) /\ lastid \in Nat /\ n \in Nat /\ n \in DOMAIN dir
      /\ Ordered(dir, bin, lastid, renumbered)
      /\ DOMAIN dir = 1 .. Len(dir) /\ Len(dir) \in Nat
      /\ Now(p) = dir[n] /\ dir[n].group = loc[p].fh.group /\ loc[p].count = Len(dir)
      /\ \A i \in DOMAIN dir : Posted(dir[i], lastid)
  <2>1. InThread(p)
    BY DEF Split
  <2> QED BY <2>1, NowThere, LocalTypes, LengthNat DEF TypeInv, OrderInv, Ordered
<1>1. Splits(p)
  BY DEF Split, InThread, Walk, Splits
<1>2. OldBefore(p)
  BY <1>1, GroupInvMeans
<1>3. \A i, j \in DOMAIN dir : Related(dir, i, j) =>
              dir[i].group = dir[j].group \/ dir[i].id \in harmed \/ ToSplit(p, i, j)
  <2>1. \A i, j \in DOMAIN dir : \A q \in Procs : ToSplit(q, i, j) => q = p
    BY DEF ToSplit
  <2> QED BY <2>1, GroupInvMeans
<1>4. \A i, j \in DOMAIN dir : dir[i].id = dir[j].id => i = j
  BY <1>0, OnePlace
<1>5. \A i \in DOMAIN dir : Ends(p) => i <= n
  BY <1>0 DEF Ends
<1>6. Splits(p)' => GoesOn(p)
  BY SplitMeans DEF Splits, Ends
<1>7. \A q \in Procs : Splits(q)' => q = p
  OBVIOUS
<1>8. CASE ~InSubtree(Now(p), loc[p].old)
  <2>1. dir' = dir /\ (Ends(p) \/ loc'[p].old = loc[p].old)
    BY <1>8, SplitMeans
  <2>2. \A j \in DOMAIN dir : dir[n].re = dir[j].id => dir[j].id \notin Old(p)
    BY <1>0, <1>8, OldOnes
  <2>3. Splits(p)' => OldBefore(p)'
    <3>1. SUFFICES ASSUME Splits(p)' PROVE OldBefore(p)'
      OBVIOUS
    <3>2. loc'[p].now = n + 1 /\ loc'[p].old = loc[p].old /\ dir' = dir
      BY <1>6, <2>1, <3>1 DEF GoesOn, Ends, Splits
    <3>3. \A k \in DOMAIN dir : k < n => k < n + 1
      BY <1>0
    <3> QED BY <1>2, <3>2, <3>3 DEF OldBefore, Old
  <2>4. ASSUME NEW i \in DOMAIN dir, NEW j \in DOMAIN dir, Related(dir, i, j)
        PROVE  dir[i].group = dir[j].group \/ dir[i].id \in harmed \/ ToSplit(p, i, j)'
    <3>1. SUFFICES ASSUME ToSplit(p, i, j) PROVE ToSplit(p, i, j)'
      BY <1>3, <2>4
    <3>2. i >= n /\ dir[j].id \in Old(p) /\ dir[i].group = loc[p].fh.group
      BY <3>1 DEF ToSplit
    <3>3. i # n
      BY <2>2, <2>4, <3>2 DEF Related
    <3>4. i >= n + 1 /\ ~(i <= n)
      BY <1>0, <3>2, <3>3
    <3>5. GoesOn(p) /\ ~Ends(p)
      BY <1>5, <3>4, SplitMeans
    <3>6. loc'[p].now = n + 1 /\ loc'[p].old = loc[p].old /\ dir' = dir /\ loc'[p].fh = loc[p].fh
      BY <2>1, <3>5 DEF GoesOn
    <3>7. Splits(p)'
      BY <1>1, <3>5 DEF Splits, GoesOn
    <3> QED BY <3>2, <3>4, <3>6, <3>7 DEF ToSplit, Old
  <2> QED BY <1>7, <2>1, <2>3, <2>4 DEF GroupInv, OldBefore, Related
<1>9. CASE InSubtree(Now(p), loc[p].old)
  <2> DEFINE y == IF loc[p].old = <<>> THEN Now(p).id ELSE Now(p).re
  <2>1. MovedAt(dir, dir', n, r, y)
    BY <1>9, SplitMoves
  <2> HIDE DEF y
  <2>2. Ends(p) \/ loc'[p].old = Append(loc[p].old, Now(p).id)
    BY <1>9, SplitMeans
  <2>3. /\ DOMAIN dir' = DOMAIN dir /\ dir'[n].id = dir[n].id /\ dir'[n].group = r /\ dir'[n].re = y
        /\ \A i \in DOMAIN dir : i # n => dir'[i] = dir[i]
    <3>1. dir' \in Seq(Record)
      BY FilesStay DEF Step, WalkOn
    <3>2. DOMAIN dir' = 1 .. Len(dir')
      BY <3>1
    <3> QED BY <1>0, <2>1, <3>2 DEF MovedAt
  <2>4. ASSUME NEW x \in Old(p)
        PROVE  \E k \in DOMAIN dir : k < n /\ dir[k].id = x /\ dir'[k] = dir[k] /\ dir[k].group = r
    <3>1. PICK k \in DOMAIN dir : k < n /\ dir[k].id = x /\ dir[k].group = loc[p].old[1]
      BY <1>2, <2>4 DEF OldBefore
    <3>2. loc[p].old # <<>>
      BY <2>4, OldOnes
    <3>3. k # n
      BY <1>0, <3>1
    <3> QED BY <2>3, <3>1, <3>2, <3>3 DEF FirstOld
  <2>5. ASSUME Splits(p)'
        PROVE  /\ loc'[p].now = n + 1 /\ loc'[p].fh = loc[p].fh /\ loc'[p].old[1] = r
               /\ Old(p)' = Old(p) \cup {dir[n].id}
    <3>1. loc'[p].now = n + 1 /\ loc'[p].fh = loc[p].fh
      BY <1>6, <2>5 DEF GoesOn
    <3>2. loc'[p].old = Append(loc[p].old, Now(p).id)
      BY <2>2, <2>5 DEF Splits, Ends
    <3>3. loc'[p].old[1] = r
      BY <3>2, OldOnes DEF FirstOld
    <3>4. Old(p)' = Old(p) \cup {Now(p).id}
      BY <3>2, OldGrows
    <3>5. Now(p).id = dir[n].id
      BY <1>0
    <3> QED BY <3>1, <3>3, <3>4, <3>5
  <2>6. Splits(p)' => OldBefore(p)'
    <3>1. SUFFICES ASSUME Splits(p)', NEW x \in Old(p)'
                   PROVE \E k \in DOMAIN dir' : k < n + 1 /\ dir'[k].id = x /\ dir'[k].group = r
      BY <2>5 DEF OldBefore
    <3>2. CASE x \in Old(p)
      <4>1. PICK k \in DOMAIN dir : k < n /\ dir[k].id = x /\ dir'[k] = dir[k] /\ dir[k].group = r
        BY <2>4, <3>2
      <4>2. k < n + 1
        BY <1>0, <4>1
      <4> QED BY <2>3, <4>1, <4>2
    <3>3. CASE x = dir[n].id
      <4>1. n < n + 1
        BY <1>0
      <4> QED BY <1>0, <2>3, <3>3, <4>1
    <3> QED BY <2>5, <3>1, <3>2, <3>3
  <2>7. ASSUME NEW i \in DOMAIN dir, NEW j \in DOMAIN dir, Related(dir', i, j)
        PROVE  dir'[i].group = dir'[j].group \/ dir'[i].id \in harmed' \/ ToSplit(p, i, j)'
    <3>1. CASE i = j
      BY <3>1
    <3>2. CASE i = n /\ j # n
      <4>1. dir[j].id = y
        BY <2>3, <2>7, <3>2 DEF Related
      <4>2. loc[p].old # <<>>
        BY <1>0, <1>4, <3>2, <4>1 DEF y
      <4>3. y \in Old(p)
        BY <1>9, <4>2, OldOnes DEF y
      <4>4. PICK k \in DOMAIN dir : dir[k].id = y /\ dir'[k] = dir[k] /\ dir[k].group = r
        BY <2>4, <4>3
      <4>5. k = j
        BY <1>4, <4>1, <4>4
      <4> QED BY <2>3, <3>2, <4>4, <4>5
    <3>3. ASSUME i # n, dir[i].group = loc[p].fh.group, i > n, dir[j].id \in Old(p) \cup {dir[n].id}
          PROVE  ToSplit(p, i, j)'
      <4>1. GoesOn(p)
        BY <1>0, <1>5, <3>3, SplitMeans
      <4>2. Splits(p)'
        BY <1>1, <4>1 DEF Splits, GoesOn
      <4>3. dir'[j].id = dir[j].id /\ dir'[i] = dir[i]
        BY <2>3, <3>3
      <4>4. i >= n + 1
        BY <1>0, <3>3
      <4> QED BY <2>5, <3>3, <4>2, <4>3, <4>4 DEF ToSplit
    <3>4. CASE i # n /\ j = n
      <4>1. dir'[i] = dir[i] /\ dir[i].re = dir[n].id /\ Related(dir, i, n)
        BY <2>3, <2>7, <3>4 DEF Related
      <4>2. ~ToSplit(p, i, n)
        <5>1. SUFFICES ASSUME dir[n].id \in Old(p) PROVE FALSE
          BY DEF ToSplit
        <5>2. PICK k \in DOMAIN dir : k < n /\ dir[k].id = dir[n].id
          BY <2>4, <5>1
        <5> QED BY <1>0, <1>4, <5>2
      <4>3. i > n
        <5>1. dir[n].id <= dir[i].id /\ dir[n].id # dir[i].id
          BY <1>0, <1>4, <3>4, <4>1 DEF Posted
        <5>2. dir[n].id < dir[i].id
          BY <1>0, <5>1 DEF Posted
        <5>3. n < i
          BY <1>0, <5>2, OnePlace
        <5> QED BY <1>0, <5>3
      <4>4. dir[i].group = dir[n].group \/ dir[i].id \in harmed
        BY <1>0, <1>3, <4>1, <4>2
      <4> QED BY <1>0, <3>3, <3>4, <4>1, <4>3, <4>4
    <3>5. CASE i # n /\ j # n
      <4>1. dir'[i] = dir[i] /\ dir'[j] = dir[j] /\ Related(dir, i, j)
        BY <2>3, <2>7, <3>5 DEF Related
      <4>2. CASE ToSplit(p, i, j)
        <5>1. i >= n /\ dir[j].id \in Old(p) /\ dir[i].group = loc[p].fh.group
          BY <4>2 DEF ToSplit
        <5>2. i > n
          BY <1>0, <3>5, <5>1
        <5> QED BY <3>3, <3>5, <5>1, <5>2
      <4>3. CASE ~ToSplit(p, i, j)
        BY <1>3, <4>1, <4>3
      <4> QED BY <4>2, <4>3
    <3> QED BY <3>1, <3>2, <3>4, <3>5
  <2> QED BY <1>7, <2>3, <2>6, <2>7 DEF GroupInv, OldBefore, Related
<1> QED BY <1>8, <1>9

(* Who does not split, of those who leave .DIR alone. *)
LEMMA QuietSplits ==
  ASSUME TypeInv, NEW p \in Procs, Step(p), ~Changes(p), ~PassBy(p)
  PROVE  ~Splits(p) /\ (Splits(p)' => loc'[p].old = <<>>)
<1>0. /\ pc \in [Procs -> {"idle", "viewed", "walk", "asked", "written", "found", "done", "gone"}]
      /\ loc \in [Procs -> Locals] /\ loc[p] \in Locals /\ task' = task
  BY Others DEF TypeInv
<1>1. CASE View(p) \/ Reply(p) \/ Find(p)
  BY <1>0, <1>1 DEF View, Reply, Find, Goto, Does, Splits
<1>2. CASE LockDir(p)
  <2>1. pc[p] = "viewed" /\ loc[p].old = <<>>
    BY <1>2 DEF LockDir, TypeInv, InPlace
  <2>2. loc' = loc \/ loc' = [loc EXCEPT ![p].now = First(p), ![p].count = Len(dir)]
    BY <1>2 DEF LockDir
  <2>3. loc'[p].old = <<>>
    BY <1>0, <2>1, <2>2 DEF Locals
  <2> QED BY <2>1, <2>3 DEF Splits
<1>3. CASE Ask(p) \/ DelFails(p)
  BY <1>0, <1>3 DEF Ask, DelFails, Deletes, Splits
<1>4. CASE Answer(p) \/ Leave(p)
  <2>1. pc[p] = "asked" /\ task[p] \in {"delete", "delmarkdel"}
    BY <1>4 DEF Answer, Leave, TypeInv, InPlace
  <2> QED BY <1>0, <2>1 DEF Splits
<1> QED BY <1>1, <1>2, <1>3, <1>4 DEF Step, WalkOn, Single, Changes

LEMMA PassGroups ==
  ASSUME TypeInv, OrderInv, GroupInv, Nobody \notin harmed, NEW p \in Procs, PassBy(p), Splits(p)
  PROVE  /\ Splits(p)' => OldBefore(p)'
         /\ \A i, j \in DOMAIN dir : ToSplit(p, i, j) => ToSplit(p, i, j)'
<1>1. /\ dir' = dir /\ task' = task /\ loc[p].now \in Nat /\ GoOn(p)
      /\ DOMAIN dir = 1 .. Len(dir) /\ Len(dir) \in Nat /\ loc[p].count = Len(dir)
      /\ Now(p).group # loc[p].fh.group
  <2>1. loc[p].count = Len(dir)
    BY DEF OrderInv, InOrder, Walking, Splits
  <2> QED BY <2>1, LocalTypes, LengthNat DEF PassBy
<1>2. (GoesOn(p) /\ loc'[p].old = loc[p].old) \/ Ends(p)
  BY <1>1, GoOnMeans
<1>3. ASSUME Splits(p)' PROVE OldBefore(p)'
  <2>1. loc'[p].now = loc[p].now + 1 /\ loc'[p].old = loc[p].old
    BY <1>2, <1>3 DEF GoesOn, Ends, Splits
  <2>2. \A k \in DOMAIN dir : k < loc[p].now => k < loc[p].now + 1
    BY <1>1
  <2>3. OldBefore(p)
    BY GroupInvMeans
  <2>4. Old(p)' = Old(p) /\ DOMAIN dir' = DOMAIN dir
    BY <1>1, <2>1 DEF Old
  <2>5. SUFFICES ASSUME NEW x \in Old(p)
                 PROVE \E k \in DOMAIN dir : k < loc[p].now + 1 /\ dir[k].id = x /\ dir[k].group = loc[p].old[1]
    BY <1>1, <2>1, <2>4 DEF OldBefore
  <2> QED BY <2>2, <2>3 DEF OldBefore
<1>4. ASSUME NEW i \in DOMAIN dir, NEW j \in DOMAIN dir, ToSplit(p, i, j) PROVE ToSplit(p, i, j)'
  <2>1. i >= loc[p].now /\ dir[j].id \in Old(p) /\ dir[i].group = loc[p].fh.group
    BY <1>4 DEF ToSplit
  <2>2. i # loc[p].now
    BY <1>1, <2>1 DEF Now, At
  <2>3. i >= loc[p].now + 1
    BY <1>1, <2>1, <2>2
  <2>4. GoesOn(p) /\ loc'[p].old = loc[p].old
    BY <1>1, <1>2, <2>3 DEF Ends
  <2> QED BY <1>1, <2>1, <2>3, <2>4 DEF ToSplit, Splits, GoesOn, Old
<1> QED BY <1>3, <1>4

LEMMA GroupInvStep ==
  ASSUME {"unlocked", "reply", "recover"} \subseteq Windows
  PROVE  TypeInv /\ LockInv /\ OrderInv /\ GroupInv /\ [Next]_vars => GroupInv'
<1> SUFFICES ASSUME TypeInv, LockInv, OrderInv, GroupInv, [Next]_vars PROVE GroupInv'
  OBVIOUS
<1>1. ASSUME NEW p \in Procs, Step(p), Nobody \notin harmed' PROVE GroupInv'
  <2>0. /\ Nobody \notin harmed /\ task' = task /\ harmed \subseteq harmed'
        /\ \A q \in Procs \ {p} : pc'[q] = pc[q] /\ loc'[q] = loc[q]
    BY <1>1, Others
  <2>1. CASE Changes(p)
    <3>1. \A q \in Procs \ {p} : ~Splits(q) /\ ~Splits(q)'
      BY <1>1, <2>0, <2>1, ChangesAlone DEF Splits
    <3>2. CASE Split(p)
      BY <2>0, <3>1, <3>2, SplitGroups
    <3>3. CASE ~Split(p)
      <4>1. ~Splits(p) /\ ~Splits(p)'
        <5>1. CASE SetFlags(p) \/ DelEntry(p)
          BY <2>0, <5>1 DEF SetFlags, DelEntry, Deletes, Splits
        <5>2. CASE Post(p) \/ RemoveOne(p) \/ Recover(p) \/ Mark(p)
          BY <5>2 DEF Post, RemoveOne, Recover, Mark, Does, Goto, Splits, TypeInv
        <5> QED BY <2>1, <3>3, <5>1, <5>2 DEF Changes
      <4>2. Together(dir, harmed)
        BY <2>0, <3>1, <4>1, NoSplitBefore
      <4>3. Together(dir', harmed')
        BY <2>0, <2>1, <3>3, <4>2, TogetherStays
      <4>4. \A q \in Procs : ~Splits(q)'
        BY <3>1, <4>1
      <4> QED BY <4>3, <4>4, NoSplitAfter
    <3> QED BY <3>2, <3>3
  <2>2. CASE ~Changes(p)
    <3>1. dir' = dir
      BY <1>1, <2>2, OnlyChanges DEF SameFiles
    <3>2. ASSUME NEW q \in Procs \ {p}
          PROVE  /\ Splits(q)' => OldBefore(q)'
                 /\ \A i, j \in DOMAIN dir : ToSplit(q, i, j) => ToSplit(q, i, j)'
      <4>1. pc'[q] = pc[q] /\ loc'[q] = loc[q] /\ task'[q] = task[q]
        BY <2>0
      <4>2. Splits(q) => OldBefore(q)
        BY <2>0, GroupInvMeans
      <4> QED BY <3>1, <4>1, <4>2 DEF Splits, OldBefore, ToSplit, Old
    <3>3. /\ Splits(p)' => OldBefore(p)'
          /\ \A i, j \in DOMAIN dir : ToSplit(p, i, j) => ToSplit(p, i, j)'
      <4>1. CASE PassBy(p) /\ Splits(p)
        BY <2>0, <4>1, PassGroups
      <4>2. CASE ~PassBy(p)
        <5>1. ~Splits(p) /\ (Splits(p)' => loc'[p].old = <<>>)
          BY <1>1, <2>2, <4>2, QuietSplits
        <5>2. Splits(p)' => Old(p)' = {}
          BY <5>1 DEF Old
        <5> QED BY <5>1, <5>2 DEF OldBefore, ToSplit
      <4>3. CASE PassBy(p) /\ ~Splits(p)
        <5>1. ~Splits(p)'
          BY <2>0, <4>3 DEF PassBy, Walk, Splits
        <5> QED BY <4>3, <5>1 DEF ToSplit
      <4> QED BY <4>1, <4>2, <4>3
    <3>4. \A q \in Procs : /\ Splits(q)' => OldBefore(q)'
                           /\ \A i, j \in DOMAIN dir : ToSplit(q, i, j) => ToSplit(q, i, j)'
      BY <3>2, <3>3
    <3>5. \A i, j \in DOMAIN dir' : Related(dir', i, j) =>
            dir'[i].group = dir'[j].group \/ dir'[i].id \in harmed' \/ \E q \in Procs : ToSplit(q, i, j)'
      BY <2>0, <3>1, <3>4, GroupInvMeans
    <3>6. \A q \in Procs : Splits(q)' => OldBefore(q)'
      BY <3>4
    <3> QED BY <3>5, <3>6 DEF GroupInv, OldBefore, Related
  <2> QED BY <2>1, <2>2
<1>2. CASE UNCHANGED vars
  BY <1>2 DEF vars, GroupInv, Splits, Old, ToSplit
<1>3. CASE Nobody \in harmed'
  BY <1>3 DEF GroupInv
<1> QED BY <1>1, <1>2, <1>3, Steps

(* As long as no thread is being split, a reply is in the thread of the      *)
(* article it replies to, if that is there; but for replies written and      *)
(* articles deleted before a split, and with nobody at work beside a         *)
(* deletion without the lock (bbs.c:6463-6497).                              *)
THEOREM ThreadTogether ==
  ASSUME {"unlocked", "reply", "recover"} \subseteq Windows
  PROVE  Spec => []GroupOfParent
<1> DEFINE I == TypeInv /\ LockInv /\ OrderInv /\ GroupInv
<1>0. "unlocked" \in Windows
  OBVIOUS
<1>1. Init => I
  BY TypeInvInit, LockInvInit, OrderInvInit, GroupInvInit
<1>2. I /\ [Next]_vars => I'
  BY <1>0, TypeInvStep, LockInvStep, OrderInvStep, GroupInvStep
<1>3. I => GroupOfParent
  <2> SUFFICES ASSUME GroupInv, Nobody \notin harmed, \A p \in Procs : pc[p] = "walk" => task[p] # "split"
               PROVE  \A a, b \in Files : a.re = b.id => a.group = b.group \/ a.id \in harmed
    BY DEF GroupOfParent, Excused
  <2>1. \A p \in Procs : ~Splits(p)
    BY DEF Splits
  <2>2. Together(dir, harmed)
    BY <2>1, NoSplitBefore
  <2> QED BY <2>2 DEF Together, Related, Files
<1> QED BY <1>1, <1>2, <1>3, PTL DEF Spec


-----------------------------------------------------------------------------
(* A walk treats what was meant.                                             *)
Rest(d, n, meant, treated, f, split) ==
  /\ \A x \in meant : x \in treated \/ \E i \in DOMAIN d : i >= n /\ d[i].id = x
  /\ treated \subseteq meant
  /\ \A i \in DOMAIN d : i >= n =>
       (d[i].id \in meant <=> /\ d[i].group = f.group
                              /\ split => d[i].id = f.id \/ (d[i].re \in meant /\ d[i].re # d[i].id))
Descends(p) ==
  /\ done[p] = Old(p) /\ loc[p].fh.id \in goal[p]
  /\ \A i \in DOMAIN dir : i >= loc[p].now => dir[i].id \notin Old(p)
  /\ IF loc[p].old = <<>> THEN loc[p].now \in DOMAIN dir /\ dir[loc[p].now].id = loc[p].fh.id
                         ELSE loc[p].fh.id \in Old(p)
WalkOk(p) ==
  /\ pc[p] \in {"idle", "viewed"} => done[p] = {}
  /\ pc[p] # "asked"
  /\ pc[p] = "walk" => /\ Rest(dir, loc[p].now, goal[p], done[p], loc[p].fh, task[p] = "split")
                       /\ task[p] = "split" => Descends(p)
  /\ pc[p] = "done" /\ task[p] \in Walks => done[p] = goal[p]

LEMMA WalkInvMeans == WalkInv <=> (Nobody \notin harmed => \A p \in Procs \ harmed : WalkOk(p))
BY DEF WalkInv, WalkOk, Whole, Rest, Descends, Belongs

(* What is before a walk, when it passes an article by, has treated one,     *)
(* deleted one, or comes to the end.                                         *)
LEMMA RestPassed ==
  ASSUME NEW d \in Seq(Record), NEW n \in Nat, NEW meant, NEW treated, NEW f, NEW split \in BOOLEAN,
         Rest(d, n, meant, treated, f, split), n \in DOMAIN d => d[n].id \notin meant
  PROVE  Rest(d, n + 1, meant, treated, f, split)
<1>1. DOMAIN d = 1 .. Len(d) /\ Len(d) \in Nat
  OBVIOUS
<1>2. \A i \in DOMAIN d : i >= n + 1 => i >= n
  BY <1>1
<1>3. \A i \in DOMAIN d : i >= n => i >= n + 1 \/ i = n
  BY <1>1
<1> QED BY <1>2, <1>3 DEF Rest

LEMMA RestTreated ==
  ASSUME NEW d \in Seq(Record), NEW e \in Seq(Record), NEW n \in DOMAIN d, NEW meant, NEW treated, NEW f,
         NEW split \in BOOLEAN, Rest(d, n, meant, treated, f, split), d[n].id \in meant, DOMAIN e = DOMAIN d,
         \A i \in DOMAIN d : i # n => e[i].id = d[i].id /\ e[i].group = d[i].group /\ e[i].re = d[i].re
  PROVE  Rest(e, n + 1, meant, treated \cup {d[n].id}, f, split)
<1>1. DOMAIN d = 1 .. Len(d) /\ Len(d) \in Nat
  OBVIOUS
<1>2. \A i \in DOMAIN d : i >= n + 1 => i >= n /\ i # n
  BY <1>1
<1>3. \A i \in DOMAIN d : i >= n => i >= n + 1 \/ i = n
  BY <1>1
<1>4. \A x \in meant : x \in treated \cup {d[n].id} \/ \E i \in DOMAIN e : i >= n + 1 /\ e[i].id = x
  <2> TAKE x \in meant
  <2>1. CASE \E i \in DOMAIN d : i >= n /\ d[i].id = x
    <3>1. PICK i \in DOMAIN d : i >= n /\ d[i].id = x
      BY <2>1
    <3> QED BY <1>2, <1>3, <3>1
  <2> QED BY <2>1 DEF Rest
<1>5. treated \cup {d[n].id} \subseteq meant
  BY DEF Rest
<1>6. ASSUME NEW i \in DOMAIN e, i >= n + 1
      PROVE  e[i].id \in meant <=> /\ e[i].group = f.group
                                   /\ split => e[i].id = f.id \/ (e[i].re \in meant /\ e[i].re # e[i].id)
  <2>1. i >= n /\ i # n
    BY <1>2, <1>6
  <2> QED BY <2>1 DEF Rest
<1> QED BY <1>4, <1>5, <1>6 DEF Rest

LEMMA RestGone ==
  ASSUME NEW d \in Seq(Record), NEW e \in Seq(Record), NEW n \in DOMAIN d, NEW meant, NEW treated, NEW f,
         NEW split \in BOOLEAN, Rest(d, n, meant, treated, f, split), d[n].id \in meant, GoneAt(d, e, n)
  PROVE  Rest(e, n, meant, treated \cup {d[n].id}, f, split)
<1>1. DOMAIN d = 1 .. Len(d) /\ Len(d) \in Nat /\ DOMAIN e = 1 .. Len(e) /\ Len(e) = Len(d) - 1
  BY DEF GoneAt
<1>2. \A i \in DOMAIN e : i >= n => i + 1 \in DOMAIN d /\ i + 1 >= n /\ e[i] = d[i + 1]
  <2> SUFFICES ASSUME NEW i \in DOMAIN e, i >= n PROVE i + 1 \in DOMAIN d /\ i + 1 >= n /\ e[i] = d[i + 1]
    OBVIOUS
  <2>1. i + 1 \in DOMAIN d /\ i + 1 >= n /\ ~(i < n) /\ i \in 1 .. Len(e)
    BY <1>1
  <2> QED BY <2>1 DEF GoneAt
<1>3. \A i \in DOMAIN d : i >= n /\ i # n => i - 1 \in DOMAIN e /\ i - 1 >= n /\ e[i - 1] = d[i]
  <2> SUFFICES ASSUME NEW i \in DOMAIN d, i >= n, i # n PROVE i - 1 \in DOMAIN e /\ i - 1 >= n /\ e[i - 1] = d[i]
    OBVIOUS
  <2>1. i - 1 \in DOMAIN e /\ i - 1 >= n /\ (i - 1) + 1 = i
    BY <1>1
  <2> QED BY <1>2, <2>1
<1>4. \A x \in meant : x \in treated \cup {d[n].id} \/ \E i \in DOMAIN e : i >= n /\ e[i].id = x
  <2> TAKE x \in meant
  <2>1. CASE \E i \in DOMAIN d : i >= n /\ d[i].id = x
    <3>1. PICK i \in DOMAIN d : i >= n /\ d[i].id = x
      BY <2>1
    <3>2. CASE i # n
      <4>1. i - 1 \in DOMAIN e /\ i - 1 >= n /\ e[i - 1].id = x
        BY <1>3, <3>1, <3>2
      <4> QED BY <4>1
    <3> QED BY <3>1, <3>2
  <2> QED BY <2>1 DEF Rest
<1>5. treated \cup {d[n].id} \subseteq meant
  BY DEF Rest
<1>6. ASSUME NEW i \in DOMAIN e, i >= n
      PROVE  e[i].id \in meant <=> /\ e[i].group = f.group
                                   /\ split => e[i].id = f.id \/ (e[i].re \in meant /\ e[i].re # e[i].id)
  <2>1. i + 1 \in DOMAIN d /\ i + 1 >= n /\ e[i] = d[i + 1]
    BY <1>2, <1>6
  <2> QED BY <2>1 DEF Rest
<1> QED BY <1>4, <1>5, <1>6 DEF Rest

LEMMA RestEnds ==
  ASSUME NEW d, NEW n, NEW meant, NEW treated, NEW f, NEW split, Rest(d, n, meant, treated, f, split),
         \A i \in DOMAIN d : ~(i >= n)
  PROVE  treated = meant
BY DEF Rest

LEMMA WalkGoesOn ==
  ASSUME TypeInv, OrderInv, Nobody \notin harmed, NEW p \in Procs, pc[p] = "walk", task' = task,
         GoesOn(p) \/ Ends(p), dir' \in Seq(Record), Len(dir') = Len(dir), goal'[p] = goal[p],
         Rest(dir', loc[p].now + 1, goal[p], done'[p], loc[p].fh, task[p] = "split"),
         task[p] = "split" /\ GoesOn(p) => Descends(p)'
  PROVE  WalkOk(p)'
<1>0. DOMAIN dir' = 1 .. Len(dir) /\ Len(dir) \in Nat /\ loc[p].count = Len(dir) /\ loc[p].now \in Nat
  BY LengthNat, LocalTypes DEF OrderInv, InOrder, Walking
<1>1. CASE GoesOn(p)
  <2>1. pc'[p] = "walk" /\ loc'[p].now = loc[p].now + 1 /\ loc'[p].fh = loc[p].fh
    BY <1>1 DEF GoesOn
  <2> QED BY <1>1, <2>1 DEF WalkOk
<1>2. CASE Ends(p)
  <2>1. \A i \in DOMAIN dir' : ~(i >= loc[p].now + 1)
    BY <1>0, <1>2 DEF Ends
  <2>2. done'[p] = goal[p]
    BY <2>1, RestEnds
  <2> QED BY <1>2, <2>2 DEF Ends, WalkOk
<1> QED BY <1>1, <1>2

LEMMA PassOk ==
  ASSUME TypeInv, OrderInv, Nobody \notin harmed, NEW p \in Procs, WalkOk(p), PassBy(p)
  PROVE  WalkOk(p)'
<1> DEFINE n == loc[p].now
<1>0. /\ dir \in Seq(Record) /\ n \in Nat /\ pc[p] = "walk" /\ Now(p).group # loc[p].fh.group
      /\ UNCHANGED <<dir, task, goal, done>>
  BY LocalTypes DEF TypeInv, PassBy, Walk
<1>1. Rest(dir, n, goal[p], done[p], loc[p].fh, task[p] = "split") /\ (task[p] = "split" => Descends(p))
  BY <1>0 DEF WalkOk
<1>2. n \in DOMAIN dir => dir[n].id \notin goal[p]
  <2>1. n \in DOMAIN dir => dir[n].group # loc[p].fh.group
    BY <1>0 DEF Now, At
  <2>2. n >= n
    BY <1>0
  <2> QED BY <1>1, <2>1, <2>2 DEF Rest
<1>3. Rest(dir, n + 1, goal[p], done[p], loc[p].fh, task[p] = "split")
  BY <1>0, <1>1, <1>2, RestPassed
<1>4. (GoesOn(p) /\ loc'[p].old = loc[p].old) \/ Ends(p)
  BY GoOnMeans DEF PassBy
<1>5. ASSUME task[p] = "split", GoesOn(p) PROVE Descends(p)'
  <2>1. loc[p].old # <<>>
    BY <1>1, <1>2, <1>5 DEF Descends
  <2>2. loc'[p].now = n + 1 /\ loc'[p].fh = loc[p].fh /\ pc'[p] = "walk"
    BY <1>0, <1>5 DEF GoesOn
  <2>3. loc'[p].old = loc[p].old
    BY <1>0, <1>4, <2>2 DEF Ends
  <2>4. \A i \in DOMAIN dir : i >= n + 1 => i >= n
    BY <1>0
  <2> QED BY <1>0, <1>1, <1>5, <2>1, <2>2, <2>3, <2>4 DEF Descends, Old
<1> QED BY <1>0, <1>3, <1>4, <1>5, WalkGoesOn

LEMMA FlagsOk ==
  ASSUME TypeInv, OrderInv, Nobody \notin harmed, NEW p \in Procs, WalkOk(p), SetFlags(p)
  PROVE  WalkOk(p)'
<1> DEFINE n == loc[p].now
<1>0. /\ dir \in Seq(Record) /\ dir' \in Seq(Record) /\ pc[p] = "walk" /\ task[p] # "split" /\ goal' = goal /\ task' = task
      /\ n \in 1 .. Len(dir) /\ n \in DOMAIN dir /\ n \in Nat /\ Now(p) = dir[n] /\ dir[n].group = loc[p].fh.group
  <2>1. dir' \in Seq(Record)
    BY FilesStay DEF Step, WalkOn
  <2> QED BY <2>1, NowThere, LocalTypes DEF TypeInv, SetFlags, InThread, Walk
<1>1. Rest(dir, n, goal[p], done[p], loc[p].fh, FALSE)
  BY <1>0 DEF WalkOk
<1>2. dir[n].id \in goal[p]
  <2>1. n >= n
    BY <1>0
  <2> QED BY <1>0, <1>1, <2>1 DEF Rest
<1>3. done'[p] = done[p] \cup {dir[n].id}
  BY <1>0 DEF SetFlags, Treated, TypeInv
<1>4. SameRecords(dir, dir')
  BY FlagsChange
<1>5. /\ DOMAIN dir' = DOMAIN dir /\ Len(dir') = Len(dir)
      /\ \A i \in DOMAIN dir : dir'[i].id = dir[i].id /\ dir'[i].group = dir[i].group /\ dir'[i].re = dir[i].re
  BY <1>0, <1>4 DEF SameRecords
<1>6. Rest(dir', n + 1, goal[p], done[p] \cup {dir[n].id}, loc[p].fh, FALSE)
  BY <1>0, <1>1, <1>2, <1>5, RestTreated
<1>7. GoesOn(p) \/ Ends(p)
  BY GoOnMeans DEF SetFlags
<1>8. (task[p] = "split") = FALSE
  BY <1>0
<1> QED BY <1>0, <1>3, <1>5, <1>6, <1>7, <1>8, WalkGoesOn

LEMMA DeletedOk ==
  ASSUME TypeInv, OrderInv, Nobody \notin harmed, NEW p \in Procs, WalkOk(p), DelEntry(p)
  PROVE  WalkOk(p)'
<1> DEFINE n == loc[p].now
<1>0. /\ dir \in Seq(Record) /\ dir' \in Seq(Record) /\ pc[p] = "walk" /\ task[p] # "split" /\ goal' = goal
      /\ pc' = pc /\ task' = task
      /\ n \in DOMAIN dir /\ n \in Nat /\ Now(p) = dir[n] /\ dir[n].group = loc[p].fh.group
  <2>1. dir' \in Seq(Record)
    BY FilesStay DEF Step, WalkOn
  <2> QED BY <2>1, NowThere, LocalTypes DEF TypeInv, DelEntry, Deletes, InThread, Walk
<1>1. Rest(dir, n, goal[p], done[p], loc[p].fh, FALSE)
  BY <1>0 DEF WalkOk
<1>2. dir[n].id \in goal[p]
  <2>1. n >= n
    BY <1>0
  <2> QED BY <1>0, <1>1, <2>1 DEF Rest
<1>3. done'[p] = done[p] \cup {dir[n].id}
  BY <1>0 DEF DelEntry, Treated, TypeInv
<1>4. GoneAt(dir, dir', n) /\ loc'[p].now = n /\ loc'[p].fh = loc[p].fh
  BY EntryGoes
<1>5. Rest(dir', n, goal[p], done[p] \cup {dir[n].id}, loc[p].fh, FALSE)
  BY <1>0, <1>1, <1>2, <1>4, RestGone
<1>6. (task[p] = "split") = FALSE
  BY <1>0
<1> QED BY <1>0, <1>3, <1>4, <1>5, <1>6 DEF WalkOk

(* A split moves what descends from its article, and nothing else. *)
LEMMA SplitOk ==
  ASSUME TypeInv, OrderInv, Nobody \notin harmed, NEW p \in Procs, WalkOk(p), Split(p)
  PROVE  WalkOk(p)'
<1> DEFINE n == loc[p].now
           f == loc[p].fh
           sub == InSubtree(Now(p), loc[p].old)
<1>0. /\ dir \in Seq(Record) /\ dir' \in Seq(Record) /\ pc[p] = "walk" /\ task[p] = "split"
      /\ goal' = goal /\ task' = task /\ lastid \in Nat /\ Ordered(dir, bin, lastid, renumbered)
      /\ DOMAIN dir = 1 .. Len(dir) /\ Len(dir) \in Nat
      /\ n \in 1 .. Len(dir) /\ n \in DOMAIN dir /\ n \in Nat /\ Now(p) = dir[n] /\ dir[n].group = f.group
      /\ Posted(dir[n], lastid)
  <2>1. dir' \in Seq(Record)
    BY FilesStay DEF Step, WalkOn
  <2> QED BY <2>1, NowThere, LocalTypes, LengthNat DEF TypeInv, OrderInv, Split, InThread, Walk
<1>1. Rest(dir, n, goal[p], done[p], f, TRUE) /\ Descends(p)
  <2>1. (task[p] = "split") = TRUE
    BY <1>0
  <2> QED BY <1>0, <2>1 DEF WalkOk
<1>2. \A i \in DOMAIN dir : dir[i].id = dir[n].id => i = n
  BY <1>0, OnePlace
<1>3. n >= n /\ n < n + 1 /\ \A i \in DOMAIN dir : i >= n + 1 => i >= n /\ i # n
  BY <1>0
<1>4. sub <=> loc[p].old = <<>> \/ dir[n].re \in Old(p)
  BY <1>0, OldOnes
<1>5. sub => dir[n].id \in goal[p]
  <2>1. CASE loc[p].old = <<>>
    BY <1>1, <2>1 DEF Descends
  <2>2. CASE dir[n].re \in Old(p)
    <3>1. dir[n].re \in goal[p] /\ dir[n].re # dir[n].id
      BY <1>0, <1>1, <1>3, <2>2 DEF Descends, Rest
    <3> QED BY <1>0, <1>1, <1>3, <3>1 DEF Rest
  <2> QED BY <1>4, <2>1, <2>2
<1>6. ASSUME dir[n].id \in goal[p] PROVE sub
  <2>1. dir[n].id = f.id \/ (dir[n].re \in goal[p] /\ dir[n].re # dir[n].id)
    BY <1>0, <1>1, <1>3, <1>6 DEF Rest
  <2>2. CASE dir[n].id = f.id
    <3>1. SUFFICES ASSUME f.id \in Old(p) PROVE FALSE
      BY <1>1, <1>4 DEF Descends
    <3> QED BY <1>0, <1>1, <1>3, <2>2, <3>1 DEF Descends
  <2>3. CASE dir[n].re \in goal[p] /\ dir[n].re # dir[n].id
    <3>1. SUFFICES ASSUME NEW i \in DOMAIN dir, i >= n, dir[i].id = dir[n].re PROVE FALSE
      BY <1>1, <1>4, <2>3 DEF Rest, Descends
    <3>2. dir[i].id < dir[n].id
      BY <1>0, <2>3, <3>1 DEF Posted
    <3>3. i < n
      BY <1>0, <3>2, OnePlace
    <3> QED BY <1>0, <3>1, <3>3
  <2> QED BY <2>1, <2>2, <2>3
<1>7. GoesOn(p) \/ Ends(p)
  BY SplitMeans
<1>8. CASE ~sub
  <2>1. dir' = dir /\ done' = done /\ (Ends(p) \/ loc'[p].old = loc[p].old)
    BY <1>8, SplitMeans DEF Split
  <2>2. Rest(dir, n + 1, goal[p], done[p], f, TRUE)
    BY <1>0, <1>1, <1>6, <1>8, RestPassed
  <2>3. ASSUME GoesOn(p) PROVE Descends(p)'
    <3>1. loc'[p].now = n + 1 /\ loc'[p].fh = f /\ loc'[p].old = loc[p].old
      BY <1>0, <2>1, <2>3 DEF GoesOn, Ends
    <3>2. loc[p].old # <<>>
      BY <1>4, <1>8
    <3> QED BY <1>0, <1>1, <1>3, <2>1, <3>1, <3>2 DEF Descends, Old
  <2>4. (task[p] = "split") = TRUE
    BY <1>0
  <2> QED BY <1>0, <1>7, <2>1, <2>2, <2>3, <2>4, WalkGoesOn
<1>9. CASE sub
  <2> DEFINE y == IF loc[p].old = <<>> THEN Now(p).id ELSE Now(p).re
  <2>1. MovedAt(dir, dir', n, FirstOld(p), y)
    BY <1>9, SplitMoves
  <2> HIDE DEF y
  <2>2. /\ DOMAIN dir' = DOMAIN dir /\ Len(dir') = Len(dir)
        /\ \A i \in DOMAIN dir : i # n => dir'[i] = dir[i]
        /\ dir'[n].id = dir[n].id
    BY <1>0, <2>1 DEF MovedAt
  <2>3. done'[p] = done[p] \cup {dir[n].id}
    BY <1>0, <1>9 DEF Split, Treated, TypeInv
  <2>4. dir[n].id \in goal[p]
    BY <1>5, <1>9
  <2>5. Rest(dir', n + 1, goal[p], done[p] \cup {dir[n].id}, f, TRUE)
    <3>1. \A i \in DOMAIN dir : i # n => dir'[i].id = dir[i].id /\ dir'[i].group = dir[i].group /\ dir'[i].re = dir[i].re
      BY <2>2
    <3> QED BY <1>0, <1>1, <2>2, <2>4, <3>1, RestTreated
  <2>6. ASSUME GoesOn(p) PROVE Descends(p)'
    <3>1. loc'[p].now = n + 1 /\ loc'[p].fh = f /\ pc'[p] = "walk"
      BY <1>0, <2>6 DEF GoesOn
    <3>2. loc'[p].old = Append(loc[p].old, Now(p).id)
      BY <1>9, <3>1, SplitMeans DEF Ends
    <3>3. Old(p)' = Old(p) \cup {Now(p).id} /\ Append(loc[p].old, Now(p).id) # <<>>
      BY <3>2, OldGrows, OldOnes
    <3>4. Old(p)' = Old(p) \cup {dir[n].id} /\ loc'[p].old # <<>>
      BY <1>0, <3>2, <3>3
    <3>5. done'[p] = Old(p)' /\ loc'[p].fh.id \in goal'[p]
      BY <1>0, <1>1, <2>3, <3>1, <3>4 DEF Descends
    <3>6. \A i \in DOMAIN dir' : i >= n + 1 => dir'[i].id \notin Old(p) \cup {dir[n].id}
      BY <1>1, <1>2, <1>3, <2>2 DEF Descends
    <3>7. f.id \in Old(p) \cup {dir[n].id}
      BY <1>1 DEF Descends
    <3> QED BY <3>1, <3>4, <3>5, <3>6, <3>7 DEF Descends
  <2>7. (task[p] = "split") = TRUE
    BY <1>0
  <2> QED BY <1>0, <1>7, <2>2, <2>3, <2>5, <2>6, <2>7, WalkGoesOn
<1> QED BY <1>8, <1>9

-----------------------------------------------------------------------------
(* What a walk is to treat, when it begins.                                  *)
LEMMA StartsAt ==
  ASSUME TypeInv, OrderInv, Nobody \notin harmed, NEW p \in Procs, pc[p] = "viewed", ~Moved(p)
  PROVE  /\ Here(loc[p].fh.id) => Group(loc[p].fh.id) = loc[p].fh.group
         /\ ~loc[p].first =>
              /\ dir # <<>> /\ loc[p].pos \in DOMAIN dir /\ dir[loc[p].pos].id = loc[p].fh.id
              /\ First(p) = loc[p].pos /\ dir[loc[p].pos].group = loc[p].fh.group /\ Here(loc[p].fh.id)
<1> DEFINE f == loc[p].fh
           n == loc[p].pos
<1>0. /\ dir \in Seq(Record) /\ DOMAIN dir = 1 .. Len(dir) /\ lastid \in Nat /\ Ordered(dir, bin, lastid, renumbered)
      /\ n >= 1 /\ Posted(f, lastid)
  BY LengthNat DEF TypeInv, InPlace, OrderInv, InOrder, Holds
<1>1. Here(f.id) => Group(f.id) = f.group
  BY DEF Moved
<1>2. ASSUME ~loc[p].first
      PROVE  /\ dir # <<>> /\ n \in DOMAIN dir /\ dir[n].id = f.id
             /\ First(p) = n /\ dir[n].group = f.group /\ Here(f.id)
  <2>1. At(n).id = f.id /\ f.id # 0
    BY <1>0, <1>2 DEF Moved, Posted
  <2>2. n \in DOMAIN dir /\ dir[n].id = f.id
    BY <2>1 DEF At, Zero
  <2>3. dir # <<>>
    BY <2>2
  <2>4. First(p) = n
    BY <1>0, <1>2, <2>2, <2>3, FirstPlace
  <2>5. dir[n] \in Files /\ Here(f.id)
    BY <2>2 DEF Files, Here
  <2>6. \A a \in Files : a.id = f.id => a = dir[n]
    <3> SUFFICES ASSUME NEW k \in DOMAIN dir, dir[k].id = f.id PROVE dir[k] = dir[n]
      BY DEF Files
    <3>1. dir \in Seq(Record) /\ lastid \in Nat /\ Ordered(dir, bin, lastid, renumbered)
      BY <1>0
    <3>2. n \in DOMAIN dir /\ dir[k].id = dir[n].id
      BY <2>2
    <3> HIDE DEF n
    <3>3. k = n
      BY <3>1, <3>2, OnePlace
    <3> QED BY <3>3
  <2>7. Group(f.id) = dir[n].group
    <3>1. (CHOOSE a \in Files : a.id = f.id) = dir[n]
      BY <2>2, <2>5, <2>6
    <3> QED BY <3>1 DEF Group
  <2> QED BY <1>1, <2>2, <2>3, <2>4, <2>5, <2>7
<1> QED BY <1>1, <1>2

LEMMA ChosenThread ==
  ASSUME TypeInv, OrderInv, Nobody \notin harmed, NEW p \in Procs, pc[p] = "viewed", ~Moved(p),
         task[p] # "split", dir # <<>>
  PROVE  Rest(dir, First(p), Chosen(p), {}, loc[p].fh, FALSE)
<1> DEFINE f == loc[p].fh
           n == First(p)
           g == IF Here(f.id) THEN Group(f.id) ELSE f.group
           c == {a.id : a \in {x \in Files : x.group = g /\ (loc[p].first \/ x.id >= f.id)}}
<1>0. /\ dir \in Seq(Record) /\ DOMAIN dir = 1 .. Len(dir) /\ Len(dir) \in Nat
      /\ lastid \in Nat /\ Ordered(dir, bin, lastid, renumbered)
      /\ Posted(f, lastid) /\ \A i \in DOMAIN dir : Posted(dir[i], lastid)
  BY LengthNat DEF TypeInv, OrderInv, InOrder, Holds, Ordered
<1>1. g = f.group /\ Chosen(p) = c
  BY StartsAt DEF Chosen
<1> HIDE DEF g
<1>2. n \in 1 .. Len(dir) /\ (loc[p].first => \A j \in 1 .. Len(dir) : dir[j].group = f.group => j >= n)
  BY FirstPlace DEF TypeInv, InPlace
<1>3. \A x : x \in c <=> \E i \in DOMAIN dir : dir[i].id = x /\ dir[i].group = f.group /\ (loc[p].first \/ dir[i].id >= f.id)
  BY <1>1 DEF Files
<1> HIDE DEF c, n
<1>4. ~loc[p].first => \A i \in DOMAIN dir : dir[i].id >= f.id <=> i >= n
  <2> SUFFICES ASSUME ~loc[p].first, NEW i \in DOMAIN dir PROVE dir[i].id >= f.id <=> i >= n
    OBVIOUS
  <2>1. n \in DOMAIN dir /\ dir[n].id = f.id
    BY StartsAt DEF n
  <2>2. i < n <=> dir[i].id < dir[n].id
    BY <1>0, <2>1, OnePlace
  <2> QED BY <1>0, <2>1, <2>2 DEF Posted
<1>5. \A x \in c : \E i \in DOMAIN dir : i >= n /\ dir[i].id = x
  BY <1>0, <1>2, <1>3, <1>4
<1>6. ASSUME NEW i \in DOMAIN dir, i >= n PROVE dir[i].id \in c <=> dir[i].group = f.group
  <2>1. \A j \in DOMAIN dir : dir[j].id = dir[i].id => j = i
    BY <1>0, OnePlace
  <2>2. loc[p].first \/ dir[i].id >= f.id
    BY <1>4, <1>6
  <2> QED BY <1>3, <2>1, <2>2
<1>7. Rest(dir, n, c, {}, f, FALSE)
  BY <1>5, <1>6 DEF Rest
<1> QED BY <1>1, <1>7 DEF n

(* The least set with the article and, of the thread, the replies to what is *)
(* in it: but for the article, each is a reply to another in the set.        *)
LEMMA LeastReplies ==
  ASSUME TypeInv, OrderInv, Nobody \notin harmed, NEW p \in Procs, pc[p] = "viewed", task[p] = "split"
  PROVE  /\ loc[p].fh.id \in Chosen(p) /\ HasReplies(Chosen(p), loc[p].fh.group)
         /\ \A x \in Chosen(p) : x = loc[p].fh.id \/
              \E a \in Files : a.id = x /\ a.group = loc[p].fh.group /\ a.re \in Chosen(p) /\ a.re # a.id
         /\ \A x \in Chosen(p) : x \in Ids /\ x >= loc[p].fh.id
<1> DEFINE f == loc[p].fh
           Closed(S) == f.id \in S /\ HasReplies(S, f.group)
           c == {x \in Ids : \A S \in SUBSET Ids : Closed(S) => x \in S}
<1>0. /\ Posted(f, lastid) /\ lastid \in 0 .. MaxId /\ MaxId \in Nat
      /\ \A a \in Files : Posted(a, lastid) /\ a.id \in Ids
  <2>1. \A a \in Files : Posted(a, lastid)
    BY DEF OrderInv, Ordered, Files
  <2>2. Posted(f, lastid) /\ lastid \in 0 .. MaxId /\ MaxId \in Nat
    BY Consts DEF TypeInv, OrderInv, InOrder, Holds
  <2> QED BY <2>1, <2>2 DEF Posted, Ids
<1>1. Chosen(p) = c
  BY DEF Chosen
<1>2. f.id \in c
  BY <1>0 DEF Posted, Ids
<1>3. HasReplies(c, f.group)
  <2> SUFFICES ASSUME NEW a \in Files, a.group = f.group, a.re \in c PROVE a.id \in c
    BY DEF HasReplies
  <2>1. ASSUME NEW S \in SUBSET Ids, Closed(S) PROVE a.id \in S
    BY <2>1 DEF HasReplies
  <2> QED BY <1>0, <2>1
<1>4. \A S \in SUBSET Ids : Closed(S) => c \subseteq S
  OBVIOUS
<1>5. c \subseteq Ids
  OBVIOUS
<1> HIDE DEF c
<1>6. ASSUME NEW x \in c, x # f.id
      PROVE  \E a \in Files : a.id = x /\ a.group = f.group /\ a.re \in c /\ a.re # a.id
  <2>1. SUFFICES ASSUME \A a \in Files : a.id = x /\ a.group = f.group /\ a.re \in c => a.re = a.id PROVE FALSE
    OBVIOUS
  <2>2. HasReplies(c \ {x}, f.group)
    BY <1>3, <2>1 DEF HasReplies
  <2>3. Closed(c \ {x}) /\ c \ {x} \in SUBSET Ids
    BY <1>2, <1>5, <1>6, <2>2
  <2> QED BY <1>4, <2>3
<1>7. ASSUME NEW x \in c PROVE x >= f.id
  <2> DEFINE S == {z \in c : z >= f.id}
  <2>1. HasReplies(S, f.group)
    <3> SUFFICES ASSUME NEW a \in Files, a.group = f.group, a.re \in S PROVE a.id \in S
      BY DEF HasReplies
    <3>1. a.id \in c
      BY <1>3 DEF HasReplies
    <3>2. a.re >= f.id /\ Posted(a, lastid)
      BY <1>0
    <3> QED BY <1>0, <3>1, <3>2 DEF Posted
  <2>2. f.id \in S
    BY <1>0, <1>2 DEF Posted
  <2>3. S \in SUBSET Ids
    BY <1>5
  <2>4. x \in S
    BY <1>4, <2>1, <2>2, <2>3
  <2> QED BY <2>4
<1> QED BY <1>1, <1>2, <1>3, <1>5, <1>6, <1>7

LEMMA ChosenSplit ==
  ASSUME TypeInv, OrderInv, Nobody \notin harmed, NEW p \in Procs, pc[p] = "viewed", ~Moved(p),
         task[p] = "split"
  PROVE  /\ dir # <<>> /\ First(p) \in DOMAIN dir /\ dir[First(p)].id = loc[p].fh.id
         /\ Rest(dir, First(p), Chosen(p), {}, loc[p].fh, TRUE) /\ loc[p].fh.id \in Chosen(p)
<1> DEFINE f == loc[p].fh
           n == First(p)
           c == Chosen(p)
<1>0. /\ dir \in Seq(Record) /\ DOMAIN dir = 1 .. Len(dir) /\ Len(dir) \in Nat
      /\ lastid \in Nat /\ Ordered(dir, bin, lastid, renumbered)
      /\ Posted(f, lastid) /\ \A i \in DOMAIN dir : Posted(dir[i], lastid)
  BY LengthNat DEF TypeInv, OrderInv, InOrder, Holds, Ordered
<1>1. dir # <<>> /\ n \in DOMAIN dir /\ dir[n].id = f.id /\ dir[n].group = f.group
  BY StartsAt DEF TypeInv, InPlace
<1>2. /\ f.id \in c /\ HasReplies(c, f.group)
      /\ \A x \in c : x = f.id \/ \E a \in Files : a.id = x /\ a.group = f.group /\ a.re \in c /\ a.re # a.id
      /\ \A x \in c : x \in Ids /\ x >= f.id
  BY LeastReplies
<1> HIDE DEF c, n
<1>3. ASSUME NEW x \in c PROVE \E i \in DOMAIN dir : i >= n /\ dir[i].id = x
  <2>1. CASE x = f.id
    <3>1. n >= n
      BY <1>0, <1>1
    <3> QED BY <1>1, <2>1, <3>1
  <2>2. CASE x # f.id
    <3>1. PICK i \in DOMAIN dir : dir[i].id = x
      BY <1>2, <2>2 DEF Files
    <3>2. x >= dir[n].id
      BY <1>1, <1>2
    <3>3. i >= n
      <4>1. i < n <=> dir[i].id < dir[n].id
        BY <1>0, <1>1, OnePlace
      <4> QED BY <1>0, <1>1, <3>1, <3>2, <4>1 DEF Posted
    <3> QED BY <3>1, <3>3
  <2> QED BY <2>1, <2>2
<1>4. ASSUME NEW i \in DOMAIN dir
      PROVE  dir[i].id \in c <=> /\ dir[i].group = f.group
                                 /\ dir[i].id = f.id \/ (dir[i].re \in c /\ dir[i].re # dir[i].id)
  <2>0. \A k \in DOMAIN dir : dir[k].id = dir[i].id => k = i
    BY <1>0, OnePlace
  <2>1. ASSUME dir[i].id \in c
        PROVE  /\ dir[i].group = f.group
               /\ dir[i].id = f.id \/ (dir[i].re \in c /\ dir[i].re # dir[i].id)
    <3>1. CASE dir[i].id = f.id
      BY <1>1, <2>0, <3>1
    <3>2. CASE dir[i].id # f.id
      <4>1. PICK a \in Files : a.id = dir[i].id /\ a.group = f.group /\ a.re \in c /\ a.re # a.id
        BY <1>2, <2>1, <3>2
      <4>2. a = dir[i]
        BY <2>0, <4>1 DEF Files
      <4> QED BY <4>1, <4>2
    <3> QED BY <3>1, <3>2
  <2>2. dir[i] \in Files
    BY DEF Files
  <2>3. dir[i].id = f.id => dir[i].id \in c
    BY <1>2
  <2>4. dir[i].group = f.group /\ dir[i].re \in c => dir[i].id \in c
    BY <1>2, <2>2 DEF HasReplies
  <2> QED BY <2>1, <2>3, <2>4
<1>5. Rest(dir, n, c, {}, f, TRUE)
  BY <1>3, <1>4 DEF Rest
<1> QED BY <1>1, <1>2, <1>5 DEF c, n

LEMMA BeginsOk ==
  ASSUME TypeInv, OrderInv, Nobody \notin harmed, "moved" \in Windows, NEW p \in Procs, WalkOk(p),
         LockDir(p), p \notin harmed'
  PROVE  WalkOk(p)'
<1>0. /\ pc[p] = "viewed" /\ ~Moved(p) /\ done[p] = {} /\ task' = task /\ dir' = dir /\ done' = done
      /\ goal'[p] = Chosen(p) /\ task[p] \in Walks /\ loc[p].old = <<>>
  BY DEF LockDir, WalkOk, TypeInv, InPlace
<1>1. CASE dir = <<>>
  <2>1. pc'[p] = "done" /\ task[p] # "split"
    BY <1>0, <1>1, ChosenSplit DEF LockDir, Goto, TypeInv
  <2>2. Files = {}
    BY <1>1 DEF Files
  <2>3. Chosen(p) = {}
    BY <2>1, <2>2 DEF Chosen
  <2> QED BY <1>0, <2>1, <2>3 DEF WalkOk
<1>2. CASE dir # <<>>
  <2>1. pc'[p] = "walk" /\ loc' = [loc EXCEPT ![p].now = First(p), ![p].count = Len(dir)]
    BY <1>0, <1>2 DEF LockDir, Goto, TypeInv
  <2>2. loc'[p].now = First(p) /\ loc'[p].fh = loc[p].fh /\ loc'[p].old = loc[p].old
    BY <2>1 DEF TypeInv, Locals
  <2>3. CASE task[p] = "split"
    <3>1. /\ First(p) \in DOMAIN dir /\ dir[First(p)].id = loc[p].fh.id
          /\ Rest(dir, First(p), Chosen(p), {}, loc[p].fh, TRUE) /\ loc[p].fh.id \in Chosen(p)
      BY <1>0, <2>3, ChosenSplit
    <3>2. Old(p)' = {}
      BY <1>0, <2>2 DEF Old
    <3>3. Descends(p)'
      BY <1>0, <2>2, <3>1, <3>2 DEF Descends
    <3>4. (task[p] = "split") = TRUE
      BY <2>3
    <3> QED BY <1>0, <2>1, <2>2, <3>1, <3>3, <3>4 DEF WalkOk
  <2>4. CASE task[p] # "split"
    <3>1. Rest(dir, First(p), Chosen(p), {}, loc[p].fh, FALSE)
      BY <1>0, <1>2, <2>4, ChosenThread
    <3>2. (task[p] = "split") = FALSE
      BY <2>4
    <3> QED BY <1>0, <2>1, <2>2, <2>4, <3>1, <3>2 DEF WalkOk
  <2> QED BY <2>3, <2>4
<1> QED BY <1>1, <1>2

LEMMA WalkInvInit == Init => WalkInv
BY DEF Init, WalkInv

LEMMA WalkInvStep ==
  ASSUME {"unlocked", "moved", "asked"} \subseteq Windows
  PROVE  TypeInv /\ LockInv /\ OrderInv /\ WalkInv /\ [Next]_vars => WalkInv'
<1> SUFFICES ASSUME TypeInv, LockInv, OrderInv, WalkInv, [Next]_vars PROVE WalkInv'
  OBVIOUS
<1>1. ASSUME NEW p \in Procs, Step(p), Nobody \notin harmed', NEW q \in Procs \ harmed' PROVE WalkOk(q)'
  <2>0. /\ Nobody \notin harmed /\ task' = task /\ harmed \subseteq harmed' /\ q \notin harmed
        /\ \A r \in Procs \ {p} : pc'[r] = pc[r] /\ loc'[r] = loc[r] /\ goal'[r] = goal[r] /\ done'[r] = done[r]
    BY <1>1, Others
  <2>1. WalkOk(q)
    BY <2>0, WalkInvMeans
  <2>2. CASE q # p
    <3>1. pc'[q] = pc[q] /\ loc'[q] = loc[q] /\ goal'[q] = goal[q] /\ done'[q] = done[q]
      BY <2>0, <2>2
    <3>2. dir' = dir \/ pc[q] # "walk"
      BY <1>1, <2>2, OnlyChanges, ChangesAlone DEF SameFiles
    <3> QED BY <2>0, <2>1, <3>1, <3>2 DEF WalkOk, Descends, Old
  <2>3. CASE q = p
    <3>0. WalkOk(p) /\ p \notin harmed' /\ p \in Procs
      BY <2>1, <2>3, <1>1
    <3>1. CASE View(p)
      <4>1. pc[p] = "idle" /\ pc'[p] = "viewed" /\ done' = done
        BY <3>1 DEF View, Goto, TypeInv
      <4> QED BY <3>0, <4>1, <2>3 DEF WalkOk
    <3>2. CASE LockDir(p)
      BY <2>0, <2>3, <3>0, <3>2, BeginsOk
    <3>3. CASE PassBy(p)
      BY <2>0, <2>3, <3>0, <3>3, PassOk
    <3>4. CASE SetFlags(p)
      BY <2>0, <2>3, <3>0, <3>4, FlagsOk
    <3>5. CASE Ask(p)
      BY <3>0, <3>5 DEF Ask
    <3>6. CASE Answer(p) \/ Leave(p)
      BY <3>0, <3>6 DEF Answer, Leave, WalkOk
    <3>7. CASE DelEntry(p)
      BY <2>0, <2>3, <3>0, <3>7, DeletedOk
    <3>8. CASE DelFails(p)
      BY <2>0, <3>8, NowThere, LengthNat DEF DelFails
    <3>9. CASE Split(p)
      BY <2>0, <2>3, <3>0, <3>9, SplitOk
    <3>10. CASE Single(p)
      <4>1. pc'[p] \in {"written", "found", "done"} /\ task[p] \in Singles
        <5>1. CASE Reply(p) \/ RemoveOne(p) \/ Recover(p) \/ Find(p)
          BY <5>1 DEF Reply, RemoveOne, Recover, Find, Does, Goto, TypeInv, Singles
        <5>2. CASE Post(p) \/ Mark(p)
          BY <5>2 DEF Post, Mark, Goto, TypeInv, InPlace
        <5> QED BY <3>10, <5>1, <5>2 DEF Single
      <4>2. task[p] \notin Walks
        BY <4>1 DEF Walks, Singles
      <4> QED BY <2>0, <2>3, <4>1, <4>2 DEF WalkOk
    <3> QED BY <1>1, <3>1, <3>2, <3>3, <3>4, <3>5, <3>6, <3>7, <3>8, <3>9, <3>10 DEF Step, WalkOn
  <2> QED BY <2>2, <2>3
<1>2. CASE UNCHANGED vars
  BY <1>2 DEF vars, WalkInv, Whole, Belongs, Old
<1>3. WalkInv' <=> (Nobody \notin harmed' => \A q \in Procs \ harmed' : WalkOk(q)')
  BY DEF WalkInv, WalkOk, Whole, Rest, Descends, Belongs
<1> QED BY <1>1, <1>2, <1>3, Steps

(* A walk that has ended has treated what was meant, all of it and nothing   *)
(* else: the thread, its rest, or what descends from an article in it; if    *)
(* the list the manager looked at had not changed in ways that matter, he    *)
(* was not asked, and nobody was at work beside a deletion without the lock  *)
(* (newread.c:1328-1377, bbs.c:6101-6203, 6463-6497).                        *)
THEOREM ThreadWhole ==
  ASSUME {"unlocked", "moved", "asked"} \subseteq Windows
  PROVE  Spec => []WholeThread
<1> DEFINE I == TypeInv /\ LockInv /\ OrderInv /\ WalkInv
<1>0. "unlocked" \in Windows
  OBVIOUS
<1>1. Init => I
  BY TypeInvInit, LockInvInit, OrderInvInit, WalkInvInit
<1>2. I /\ [Next]_vars => I'
  BY <1>0, TypeInvStep, LockInvStep, OrderInvStep, WalkInvStep
<1>3. I => WholeThread
  BY DEF WalkInv, WholeThread, Excused
<1> QED BY <1>1, <1>2, <1>3, PTL DEF Spec


=============================================================================
