-------------------------- MODULE UtmpTable_proofs --------------------------
(* The table of sessions stays consistent: every slot on one chain, the     *)
(* ring sorted and complete.                                                *)
EXTENDS UtmpTable, TLAPS, FiniteSetTheorems, WellFoundedInduction

(* A set of numbers has a least element: induction, without an operator. *)
LEMMA LeastNat ==
  ASSUME NEW T \in SUBSET Nat, T # {}
  PROVE  \E x \in T : \A y \in T : x <= y
<1> DEFINE R == OpToRel(<, Nat)
<1>1. IsWellFoundedOn(R, Nat)
  BY NatLessThanWellFounded
<1>2. \A x, y \in Nat : <<x, y>> \in R <=> x < y
  BY DEF OpToRel
<1> HIDE DEF R
<1>3. PICK x \in T : \A y \in T : ~ (<<y, x>> \in R)
  BY <1>1, WFMin
<1>4. \A y \in T : ~(y < x)
  BY <1>2, <1>3
<1>5. \A y \in T : x <= y
  BY <1>4
<1> QED BY <1>5

-----------------------------------------------------------------------------
(* What the operations on a list without duplicates do to its elements.     *)

LEMMA PushOnto ==
  ASSUME NEW S, NEW l \in Seq(S), NEW e \in S, IsInjective(l), e \notin Range(l)
  PROVE  /\ <<e>> \o l \in Seq(S)
         /\ IsInjective(<<e>> \o l)
         /\ Range(<<e>> \o l) = Range(l) \cup {e}
<1> DEFINE m == <<e>> \o l
<1>1. m \in Seq(S) /\ Len(m) = Len(l) + 1
  OBVIOUS
<1>2. m[1] = e /\ \A i \in 1 .. Len(l) : m[i + 1] = l[i]
  OBVIOUS
<1>3. DOMAIN m = 1 .. Len(l) + 1 /\ DOMAIN l = 1 .. Len(l) /\ Len(l) \in Nat
  BY <1>1
<1>4. \A i \in 1 .. Len(l) + 1 : i = 1 \/ (i - 1 \in 1 .. Len(l) /\ m[i] = l[i - 1])
  BY <1>2, <1>3
<1> HIDE DEF m
<1>5. \A i \in 1 .. Len(l) : l[i] # e
  BY <1>3 DEF Range
<1>6. IsInjective(m)
  <2> SUFFICES ASSUME NEW i \in 1 .. Len(l) + 1, NEW j \in 1 .. Len(l) + 1, m[i] = m[j], i # j
               PROVE  FALSE
    BY <1>3 DEF IsInjective
  <2>1. CASE i # 1 /\ j # 1
    BY <2>1, <1>3, <1>4 DEF IsInjective
  <2>2. CASE i = 1
    BY <2>2, <1>2, <1>3, <1>4, <1>5
  <2>3. CASE j = 1
    BY <2>3, <1>2, <1>3, <1>4, <1>5
  <2> QED BY <2>1, <2>2, <2>3
<1>7. Range(m) = Range(l) \cup {e}
  <2>1. \A i \in 1 .. Len(l) : i + 1 \in 1 .. Len(l) + 1
    BY <1>3
  <2>2. Range(l) \cup {e} \subseteq Range(m)
    BY <2>1, <1>2, <1>3 DEF Range
  <2>3. Range(m) \subseteq Range(l) \cup {e}
    BY <1>2, <1>3, <1>4 DEF Range
  <2> QED BY <2>2, <2>3
<1> QED BY <1>1, <1>6, <1>7 DEF m

LEMMA PopOff ==
  ASSUME NEW S, NEW l \in Seq(S), IsInjective(l), l # <<>>
  PROVE  /\ Head(l) \in S /\ Head(l) \in Range(l)
         /\ Tail(l) \in Seq(S)
         /\ IsInjective(Tail(l))
         /\ Range(Tail(l)) = Range(l) \ {Head(l)}
<1>1. Len(l) \in Nat \ {0} /\ DOMAIN l = 1 .. Len(l) /\ Head(l) = l[1]
  OBVIOUS
<1>2. Tail(l) \in Seq(S) /\ Len(Tail(l)) = Len(l) - 1
      /\ DOMAIN Tail(l) = 1 .. Len(l) - 1
  OBVIOUS
<1>3. \A i \in 1 .. Len(l) - 1 : Tail(l)[i] = l[i + 1]
  OBVIOUS
<1>4. IsInjective(Tail(l))
  BY <1>1, <1>2, <1>3 DEF IsInjective
<1>5. \A i \in 1 .. Len(l) : i # 1 => i - 1 \in 1 .. Len(l) - 1 /\ Tail(l)[i - 1] = l[i]
  BY <1>1, <1>3
<1>6. Range(Tail(l)) = Range(l) \ {Head(l)}
  <2> DEFINE t == Tail(l)  h == Head(l)
  <2>1. DOMAIN t = 1 .. Len(l) - 1 /\ h = l[1] /\ \A i \in 1 .. Len(l) - 1 : t[i] = l[i + 1]
    BY <1>1, <1>2, <1>3
  <2>2. \A i \in 1 .. Len(l) : i # 1 => i - 1 \in 1 .. Len(l) - 1 /\ t[i - 1] = l[i]
    BY <1>5
  <2> HIDE DEF t, h
  <2>3. \A i \in 1 .. Len(l) : l[i] = h => i = 1
    BY <2>1, <1>1 DEF IsInjective
  <2>4. \A i \in 1 .. Len(l) - 1 : i + 1 \in 1 .. Len(l) /\ i + 1 # 1
    BY <1>1
  <2>5. Range(t) \subseteq Range(l) \ {h}
    BY <1>1, <2>1, <2>3, <2>4 DEF Range
  <2>6. Range(l) \ {h} \subseteq Range(t)
    BY <1>1, <2>1, <2>2 DEF Range
  <2> QED BY <2>5, <2>6 DEF t, h
<1>7. Head(l) \in S /\ Head(l) \in Range(l)
  BY <1>1 DEF Range
<1> QED BY <1>2, <1>4, <1>6, <1>7

(* Where an element is removed, those behind it move up. *)
LEMMA MovedUp ==
  ASSUME NEW S, NEW l \in Seq(S), IsInjective(l), NEW p \in 1 .. Len(l)
  PROVE  LET m == RemoveFirst(l, l[p]) IN
         /\ m \in Seq(S) /\ Len(m) = Len(l) - 1
         /\ \A i \in 1 .. Len(l) - 1 : m[i] = IF i < p THEN l[i] ELSE l[i + 1]
<1> DEFINE e == l[p]  m == RemoveFirst(l, e)
<1>0. Len(l) \in Nat /\ DOMAIN l = 1 .. Len(l)
  OBVIOUS
<1>1. {i \in 1 .. Len(l) : l[i] = e} = {p}
  BY <1>0 DEF IsInjective
<1>2. SelectInSeq(l, LAMBDA v : v = e) = p
  BY <1>1, <1>0 DEF SelectInSeq, Min
<1>3. m = SubSeq(l, 1, p - 1) \o SubSeq(l, p + 1, Len(l))
  BY <1>2 DEF RemoveFirst, RemoveAt
<1> HIDE DEF m
<1> DEFINE a == SubSeq(l, 1, p - 1)  b == SubSeq(l, p + 1, Len(l))
<1>4. a \in Seq(S) /\ Len(a) = p - 1 /\ \A i \in 1 .. p - 1 : a[i] = l[i]
  BY <1>0
<1>5. b \in Seq(S) /\ Len(b) = Len(l) - p /\ \A i \in 1 .. Len(l) - p : b[i] = l[p + i]
  <2>1. p + 1 \in 1 .. Len(l) + 1 /\ Len(l) - p \in Nat
    BY <1>0
  <2>2. b = [i \in 1 .. Len(l) - p |-> l[p + i]]
    BY <2>1, <1>0
  <2>3. \A i \in 1 .. Len(l) - p : p + i \in 1 .. Len(l)
    BY <1>0
  <2> HIDE DEF b
  <2> QED BY <2>1, <2>2, <2>3
<1> HIDE DEF a, b
<1>6. m = a \o b
  BY <1>3 DEF a, b
<1>7. m \in Seq(S) /\ Len(m) = Len(l) - 1
  BY <1>4, <1>5, <1>6, <1>0
<1>8. ASSUME NEW i \in 1 .. Len(l) - 1, i < p PROVE m[i] = l[i]
  BY <1>4, <1>5, <1>6, <1>8, <1>0
<1>9. ASSUME NEW i \in 1 .. Len(l) - 1, ~(i < p) PROVE m[i] = l[i + 1]
  <2>1. i - (p - 1) \in 1 .. Len(l) - p /\ p + (i - (p - 1)) = i + 1
    BY <1>9, <1>0
  <2>2. m[i] = b[i - (p - 1)]
    BY <1>4, <1>5, <1>6, <1>9, <1>0
  <2> QED BY <2>1, <2>2, <1>5
<1> QED BY <1>7, <1>8, <1>9 DEF m

LEMMA TakeOff ==
  ASSUME NEW S, NEW l \in Seq(S), IsInjective(l), NEW e
  PROVE  LET m == RemoveFirst(l, e) IN
         /\ m \in Seq(S)
         /\ IsInjective(m)
         /\ Range(m) = Range(l) \ {e}
         /\ \A i, j \in DOMAIN m : i < j =>
              \E a, b \in DOMAIN l : a < b /\ m[i] = l[a] /\ m[j] = l[b]
<1> DEFINE m == RemoveFirst(l, e)
<1>0. Len(l) \in Nat /\ DOMAIN l = 1 .. Len(l)
  OBVIOUS
<1>1. CASE \A i \in 1 .. Len(l) : l[i] # e
  <2>1. m = l
    BY <1>1 DEF RemoveFirst
  <2> QED BY <2>1, <1>0, <1>1 DEF Range
<1>2. CASE \E p \in 1 .. Len(l) : l[p] = e
  <2>1. PICK p \in 1 .. Len(l) : l[p] = e
    BY <1>2
  <2>2. /\ m \in Seq(S) /\ Len(m) = Len(l) - 1
        /\ \A i \in 1 .. Len(l) - 1 : m[i] = IF i < p THEN l[i] ELSE l[i + 1]
    BY MovedUp, <2>1
  <2> HIDE DEF m
  <2> DEFINE from(i) == IF i < p THEN i ELSE i + 1
  <2>3. DOMAIN m = 1 .. Len(l) - 1
    BY <2>2, <1>0
  <2>4. \A i \in DOMAIN m : from(i) \in DOMAIN l \ {p} /\ m[i] = l[from(i)]
    BY <2>2, <2>3, <1>0
  <2>5. \A i, j \in DOMAIN m : i < j => from(i) < from(j)
    BY <2>3, <1>0
  <2>6. \A a \in DOMAIN l \ {p} : \E i \in DOMAIN m : from(i) = a
    <3> TAKE a \in DOMAIN l \ {p}
    <3>1. CASE a < p
      BY <3>1, <2>3, <1>0
    <3>2. CASE a > p
      <4>1. a - 1 \in DOMAIN m /\ from(a - 1) = a
        BY <3>2, <2>3, <1>0
      <4> HIDE DEF from
      <4> QED BY <4>1
    <3> QED BY <3>1, <3>2, <1>0
  <2> HIDE DEF from
  <2>7. IsInjective(m)
    <3> SUFFICES ASSUME NEW i \in DOMAIN m, NEW j \in DOMAIN m, m[i] = m[j], i # j PROVE FALSE
      BY DEF IsInjective
    <3>1. from(i) = from(j)
      BY <2>4 DEF IsInjective
    <3>2. i < j \/ j < i
      BY <2>3, <1>0
    <3> QED BY <3>1, <3>2, <2>4, <2>5, <1>0
  <2>8. Range(m) = Range(l) \ {e}
    BY <2>1, <2>4, <2>6 DEF Range, IsInjective
  <2>9. \A i, j \in DOMAIN m : i < j =>
          \E a, b \in DOMAIN l : a < b /\ m[i] = l[a] /\ m[j] = l[b]
    BY <2>4, <2>5
  <2> QED BY <2>2, <2>7, <2>8, <2>9 DEF m
<1> QED BY <1>1, <1>2

LEMMA TakeOffType ==
  ASSUME NEW S, NEW l \in Seq(S), NEW e
  PROVE  RemoveFirst(l, e) \in Seq(S)
<1>1. CASE \A i \in 1 .. Len(l) : l[i] # e
  BY <1>1 DEF RemoveFirst
<1>2. CASE \E i \in 1 .. Len(l) : l[i] = e
  <2> DEFINE I == {i \in 1 .. Len(l) : l[i] = e}
  <2>1. I \in SUBSET Nat /\ I # {}
    BY <1>2
  <2>2. PICK p \in I : \A q \in I : p <= q
    BY <2>1, LeastNat
  <2>3. Min(I) \in I
    BY <2>2 DEF Min
  <2>4. SelectInSeq(l, LAMBDA v : v = e) = Min(I)
    BY <2>1 DEF SelectInSeq
  <2> DEFINE k == Min(I)
  <2>5. k \in 1 .. Len(l)
    BY <2>3
  <2>6. RemoveFirst(l, e) = SubSeq(l, 1, k - 1) \o SubSeq(l, k + 1, Len(l))
    BY <2>4, <1>2 DEF RemoveFirst, RemoveAt
  <2> HIDE DEF k
  <2>7. SubSeq(l, 1, k - 1) \in Seq(S) /\ SubSeq(l, k + 1, Len(l)) \in Seq(S)
    BY <2>5
  <2> QED BY <2>6, <2>7
<1> QED BY <1>1, <1>2

(* Where an element is put in, those from its place on move down. *)
LEMMA PutIn ==
  ASSUME NEW S, NEW l \in Seq(S), NEW p \in 1 .. Len(l) + 1, NEW e \in S
  PROVE  LET m == InsertAt(l, p, e) IN
         /\ m \in Seq(S) /\ Len(m) = Len(l) + 1 /\ m[p] = e
         /\ \A i \in 1 .. p - 1 : m[i] = l[i]
         /\ \A i \in p .. Len(l) : m[i + 1] = l[i]
<1> DEFINE m == InsertAt(l, p, e)  a == SubSeq(l, 1, p - 1)  b == SubSeq(l, p, Len(l))
<1>0. Len(l) \in Nat
  OBVIOUS
<1>1. m = (a \o <<e>>) \o b
  BY DEF InsertAt
<1>2. a \in Seq(S) /\ Len(a) = p - 1 /\ \A i \in 1 .. p - 1 : a[i] = l[i]
  BY <1>0
<1>3. b \in Seq(S) /\ Len(b) = Len(l) - p + 1 /\ \A i \in 1 .. Len(l) - p + 1 : b[i] = l[p + i - 1]
  <2>1. Len(l) - p + 1 \in Nat
    BY <1>0
  <2>2. b = [i \in 1 .. Len(l) - p + 1 |-> l[p + i - 1]]
    BY <2>1, <1>0
  <2>3. \A i \in 1 .. Len(l) - p + 1 : p + i - 1 \in 1 .. Len(l)
    BY <1>0
  <2> HIDE DEF b
  <2> QED BY <2>1, <2>2, <2>3
<1> HIDE DEF m, a, b
<1> DEFINE c == a \o <<e>>
<1>4. c \in Seq(S) /\ Len(c) = p /\ c[p] = e /\ \A i \in 1 .. p - 1 : c[i] = l[i]
  BY <1>2, <1>0
<1>5. m = c \o b
  BY <1>1
<1> HIDE DEF c
<1>6. m \in Seq(S) /\ Len(m) = Len(l) + 1
  <2>1. c \in Seq(S) /\ b \in Seq(S)
    BY <1>3, <1>4
  <2>2. m \in Seq(S) /\ Len(m) = Len(c) + Len(b)
    BY <2>1, <1>5
  <2> QED BY <2>2, <1>3, <1>4, <1>0
<1>7. m[p] = e /\ \A i \in 1 .. p - 1 : m[i] = l[i]
  BY <1>3, <1>4, <1>5, <1>0
<1>8. ASSUME NEW i \in p .. Len(l) PROVE m[i + 1] = l[i]
  <2>1. i + 1 - p \in 1 .. Len(l) - p + 1 /\ p + (i + 1 - p) - 1 = i
    BY <1>0
  <2>2. i + 1 \in Len(c) + 1 .. Len(c) + Len(b) /\ i + 1 - Len(c) = i + 1 - p
    BY <1>3, <1>4, <1>0
  <2>3. c \in Seq(S) /\ b \in Seq(S)
    BY <1>3, <1>4
  <2>4. m[i + 1] = b[i + 1 - p]
    BY <2>2, <2>3, <1>5
  <2> QED BY <2>1, <2>4, <1>3
<1> QED BY <1>6, <1>7, <1>8 DEF m

-----------------------------------------------------------------------------
(* Types, which every request keeps, also one that clears a free slot.      *)

TableTypes ==
  /\ TableTypeOK
  /\ \A s \in Online : info[s].user \in Users
  /\ Cardinality(Online) <= number

LEMMA OnlineFinite == IsFiniteSet(Online) /\ Cardinality(Online) \in Nat
<1>1. N \in Int /\ 1 \in Int
  BY NAssumption
<1>2. IsFiniteSet(Slots)
  BY <1>1, FS_Interval DEF Slots
<1>3. Online \in SUBSET Slots
  BY DEF Online
<1> QED BY <1>2, <1>3, FS_Subset, FS_CardinalityType

LEMMA ChainTypes ==
  ASSUME TableTypeOK
  PROVE  /\ 0 \in Buckets
         /\ \A h \in Buckets : chain[h] \in Seq(Slots)
         /\ \A u \in Users : Hash[u] \in Buckets /\ Hash[u] # 0
BY HashAssumption DEF TableTypeOK, Buckets

LEMMA PlaceType ==
  ASSUME TableTypeOK, NEW u \in Users
  PROVE  /\ Place(u) \in 1 .. Len(ring) + 1
         /\ \A i \in 1 .. Place(u) - 1 : ~(u <= info[ring[i]].user)
         /\ Place(u) \in DOMAIN ring => u <= info[ring[Place(u)]].user
<1>0. ring \in Seq(Slots) /\ Len(ring) \in Nat /\ DOMAIN ring = 1 .. Len(ring)
  BY DEF TableTypeOK
<1> DEFINE notLess == {i \in DOMAIN ring : u <= info[ring[i]].user}
<1>1. CASE notLess = {}
  <2>1. Place(u) = Len(ring) + 1
    BY <1>1 DEF Place
  <2> QED BY <2>1, <1>0, <1>1
<1>2. CASE notLess # {}
  <2>1. notLess \in SUBSET Nat
    BY <1>0
  <2>2. \E p \in notLess : \A j \in notLess : p <= j
    BY <1>2, <2>1, LeastNat
  <2>3. Place(u) = CHOOSE i \in notLess : \A j \in notLess : i <= j
    BY <1>2 DEF Place
  <2> DEFINE p == Place(u)
  <2>4. p \in notLess /\ \A j \in notLess : p <= j
    BY <2>2, <2>3
  <2> HIDE DEF p
  <2>5. \A i \in 1 .. p - 1 : i \notin notLess /\ i \in DOMAIN ring
    BY <2>4, <1>0
  <2> QED BY <2>4, <2>5, <1>0 DEF p
<1> QED BY <1>1, <1>2

LEMMA GrantedType ==
  ASSUME TableTypeOK, chain[0] # <<>>
  PROVE  Granted \in Slots /\ Tail(chain[0]) \in Seq(Slots)
BY ChainTypes DEF Granted

LEMMA AllocTypes ==
  ASSUME TableTypes, NEW u \in Users, NEW p \in Pids \cup {0}, Alloc(u, p)
  PROVE  TableTypes'
<1> DEFINE g == Granted
<1>0. TableTypeOK /\ chain[0] # <<>>
  BY DEF TableTypes, Alloc
<1>1. g \in Slots /\ Tail(chain[0]) \in Seq(Slots)
  BY <1>0, GrantedType
<1> HIDE DEF g
<1>2. info' = [info EXCEPT ![g] = [active |-> TRUE, user |-> u, pid |-> p]]
  BY DEF Alloc, g
<1>3. info' \in [Slots -> [active : BOOLEAN, user : Users \cup {NoUser}, pid : Pids \cup {0}]]
  BY <1>0, <1>1, <1>2 DEF TableTypeOK
<1>4. chain' \in [Buckets -> Seq(Slots)]
  <2>1. chain' = [chain EXCEPT ![0] = Tail(@), ![Hash[u]] = <<g>> \o @]
    BY DEF Alloc, g
  <2>2. <<g>> \o chain[Hash[u]] \in Seq(Slots)
    BY <1>0, <1>1, ChainTypes
  <2> QED BY <2>1, <2>2, <1>0, <1>1, ChainTypes DEF TableTypeOK
<1>5. ring' \in Seq(Slots)
  <2>1. ring' = InsertAt(ring, Place(u), g) /\ ring \in Seq(Slots)
    BY <1>0 DEF Alloc, g, TableTypeOK
  <2>2. Place(u) \in 1 .. Len(ring) + 1
    BY <1>0, PlaceType
  <2> QED BY <2>1, <2>2, <1>1, PutIn
<1>6. Online' = Online \cup {g}
  BY <1>0, <1>1, <1>2 DEF Online, Active, TableTypeOK
<1>7. Cardinality(Online') <= number' /\ number' \in Nat
  <2>1. number \in Nat /\ number' = number + 1 /\ Cardinality(Online) <= number
    BY <1>0 DEF Alloc, TableTypes, TableTypeOK
  <2>2. Cardinality(Online \cup {g}) = IF g \in Online THEN Cardinality(Online) ELSE Cardinality(Online) + 1
    BY OnlineFinite, FS_AddElement
  <2> QED BY <2>1, <2>2, <1>6, OnlineFinite
<1>8. \A s \in Online' : info'[s].user \in Users
  <2> SUFFICES ASSUME NEW s \in Online' PROVE info'[s].user \in Users
    OBVIOUS
  <2>1. CASE s = g
    BY <2>1, <1>0, <1>1, <1>2 DEF TableTypeOK
  <2>2. CASE s # g
    BY <2>2, <1>0, <1>1, <1>2, <1>6 DEF TableTypeOK, TableTypes, Online
  <2> QED BY <2>1, <2>2
<1> QED BY <1>3, <1>4, <1>5, <1>7, <1>8 DEF TableTypes, TableTypeOK

LEMMA FreeTypes ==
  ASSUME TableTypes, NEW s \in Slots, Free(s)
  PROVE  /\ TableTypes' /\ Online' = Online \ {s}
         /\ \E u \in Garbage :
              info' = [info EXCEPT ![s] = [active |-> FALSE, user |-> u, pid |-> 0]]
<1>0. TableTypeOK
  BY DEF TableTypes
<1>1. PICK u \in Garbage : info' = [info EXCEPT ![s] = [active |-> FALSE, user |-> u, pid |-> 0]]
  BY DEF Free
<1>2. u \in Users \cup {NoUser}
  BY GarbageAssumption
<1>3. info' \in [Slots -> [active : BOOLEAN, user : Users \cup {NoUser}, pid : Pids \cup {0}]]
  BY <1>0, <1>1, <1>2 DEF TableTypeOK
<1>4. chain' \in [Buckets -> Seq(Slots)]
  <2>1. chain' = [Unchained(s) EXCEPT ![0] = <<s>> \o @]
    BY DEF Free
  <2>2. Unchained(s) \in [Buckets -> Seq(Slots)]
    <3>1. CASE info[s].user \in Users
      <4>1. RemoveFirst(chain[Hash[info[s].user]], s) \in Seq(Slots)
        BY <3>1, <1>0, ChainTypes, TakeOffType
      <4> QED BY <3>1, <4>1, <1>0 DEF Unchained, TableTypeOK
    <3>2. CASE info[s].user \notin Users
      BY <3>2, <1>0 DEF Unchained, TableTypeOK
    <3> QED BY <3>1, <3>2
  <2>3. <<s>> \o Unchained(s)[0] \in Seq(Slots)
    BY <2>2, <1>0, ChainTypes
  <2> QED BY <2>1, <2>2, <2>3
<1>5. ring' \in Seq(Slots)
  BY <1>0, TakeOffType DEF Free, TableTypeOK
<1>6. Online' = Online \ {s}
  BY <1>0, <1>1 DEF Online, Active, TableTypeOK
<1>7. Cardinality(Online') <= number' /\ number' \in Nat
  <2>1. number \in Nat /\ number' = (IF s \in Online THEN number - 1 ELSE number)
        /\ Cardinality(Online) <= number
    BY <1>0 DEF Free, TableTypes, TableTypeOK, Online
  <2>2. Cardinality(Online \ {s}) = IF s \in Online THEN Cardinality(Online) - 1 ELSE Cardinality(Online)
    BY OnlineFinite, FS_RemoveElement
  <2>3. Cardinality(Online') \in Nat
    BY <1>6, OnlineFinite, FS_RemoveElement, FS_CardinalityType
  <2> QED BY <2>1, <2>2, <2>3, <1>6, OnlineFinite
<1>8. \A r \in Online' : info'[r].user \in Users
  BY <1>0, <1>1, <1>6 DEF TableTypes, TableTypeOK, Online
<1> QED BY <1>1, <1>3, <1>4, <1>5, <1>6, <1>7, <1>8 DEF TableTypes, TableTypeOK

-----------------------------------------------------------------------------
(* The chains. *)

LEMMA GrantedIsFree ==
  ASSUME TableTypes, ChainsPartition, chain[0] # <<>>
  PROVE  Granted \in Slots \ Online
<1>1. Head(chain[0]) \in Range(chain[0])
  BY ChainTypes, PopOff DEF TableTypes, ChainsPartition
<1> QED BY <1>1 DEF ChainsPartition, Granted

LEMMA AllocChains ==
  ASSUME TableTypes, ChainsPartition, NEW u \in Users, NEW p \in Pids \cup {0}, Alloc(u, p)
  PROVE  ChainsPartition'
<1> DEFINE g == Granted  k == Hash[u]
<1>0. TableTypeOK /\ chain[0] # <<>> /\ chain \in [Buckets -> Seq(Slots)]
      /\ info \in [Slots -> [active : BOOLEAN, user : Users \cup {NoUser}, pid : Pids \cup {0}]]
  BY DEF TableTypes, TableTypeOK, Alloc
<1>1. g \in Slots \ Online /\ g = Head(chain[0])
  BY <1>0, GrantedIsFree DEF Granted
<1>2. info' = [info EXCEPT ![g] = [active |-> TRUE, user |-> u, pid |-> p]]
      /\ chain' = [chain EXCEPT ![0] = Tail(@), ![k] = <<g>> \o @]
  BY DEF Alloc
<1> HIDE DEF g
<1>3. 0 \in Buckets /\ k \in Buckets /\ k # 0
  BY <1>0, ChainTypes
<1>4. /\ Tail(chain[0]) \in Seq(Slots) /\ IsInjective(Tail(chain[0]))
      /\ Range(Tail(chain[0])) = (Slots \ Online) \ {g}
  BY <1>0, <1>1, <1>3, PopOff DEF ChainsPartition
<1>5. g \notin Range(chain[k]) /\ IsInjective(chain[k])
  BY <1>1, <1>3 DEF ChainsPartition
<1>6. /\ IsInjective(<<g>> \o chain[k])
      /\ Range(<<g>> \o chain[k]) = Range(chain[k]) \cup {g}
  BY <1>0, <1>1, <1>3, <1>5, PushOnto
<1>7. /\ chain'[0] = Tail(chain[0]) /\ chain'[k] = <<g>> \o chain[k]
      /\ \A h \in Buckets \ {0, k} : chain'[h] = chain[h]
  BY <1>0, <1>2, <1>3
<1>8. /\ Online' = Online \cup {g}
      /\ info'[g].user = u
      /\ \A s \in Online : info'[s].user = info[s].user
  BY <1>0, <1>1, <1>2 DEF Online, Active
<1> HIDE DEF k
<1>9. \A h \in Buckets : IsInjective(chain'[h])
  BY <1>4, <1>6, <1>7 DEF ChainsPartition
<1>10. Range(chain'[0]) = Slots \ Online'
  BY <1>4, <1>7, <1>8
<1>11. ASSUME NEW h \in Buckets \ {0}
       PROVE  Range(chain'[h]) = {s \in Online' : Hash[info'[s].user] = h}
  <2>1. Range(chain[h]) = {s \in Online : Hash[info[s].user] = h}
    BY DEF ChainsPartition
  <2>2. CASE h = k
    BY <2>1, <2>2, <1>6, <1>7, <1>8 DEF k
  <2>3. CASE h # k
    BY <2>1, <2>3, <1>7, <1>8 DEF k
  <2> QED BY <2>2, <2>3
<1> QED BY <1>9, <1>10, <1>11 DEF ChainsPartition

LEMMA FreeChains ==
  ASSUME TableTypes, ChainsPartition, NEW s \in Online, Free(s)
  PROVE  ChainsPartition'
<1> DEFINE k == Hash[info[s].user]
<1>0. TableTypeOK /\ s \in Slots /\ chain \in [Buckets -> Seq(Slots)]
      /\ info \in [Slots -> [active : BOOLEAN, user : Users \cup {NoUser}, pid : Pids \cup {0}]]
  BY DEF TableTypes, TableTypeOK, Online
<1>1. info[s].user \in Users
  BY DEF TableTypes
<1>2. 0 \in Buckets /\ k \in Buckets /\ k # 0
  BY <1>0, <1>1, ChainTypes
<1>3. chain' = [[chain EXCEPT ![k] = RemoveFirst(@, s)] EXCEPT ![0] = <<s>> \o @]
  BY <1>1 DEF Free, Unchained
<1>4. /\ chain'[0] = <<s>> \o chain[0] /\ chain'[k] = RemoveFirst(chain[k], s)
      /\ \A h \in Buckets \ {0, k} : chain'[h] = chain[h]
  BY <1>0, <1>2, <1>3
<1>5. s \notin Range(chain[0]) /\ IsInjective(chain[0]) /\ IsInjective(chain[k])
  BY <1>2 DEF ChainsPartition
<1>6. IsInjective(<<s>> \o chain[0]) /\ Range(<<s>> \o chain[0]) = Range(chain[0]) \cup {s}
  BY <1>0, <1>2, <1>5, PushOnto
<1>7. IsInjective(RemoveFirst(chain[k], s))
      /\ Range(RemoveFirst(chain[k], s)) = Range(chain[k]) \ {s}
  <2>1. chain[k] \in Seq(Slots)
    BY <1>0, <1>2
  <2> HIDE DEF k
  <2> QED BY <2>1, <1>5, TakeOff
<1>8. Online' = Online \ {s} /\ \A r \in Online' : info'[r].user = info[r].user
  BY <1>0, FreeTypes DEF Online
<1>9. \A h \in Buckets : IsInjective(chain'[h])
  BY <1>4, <1>6, <1>7 DEF ChainsPartition
<1>10. Range(chain'[0]) = Slots \ Online'
  BY <1>0, <1>4, <1>6, <1>8 DEF ChainsPartition
<1>11. ASSUME NEW h \in Buckets \ {0}
       PROVE  Range(chain'[h]) = {r \in Online' : Hash[info'[r].user] = h}
  <2>1. Range(chain[h]) = {r \in Online : Hash[info[r].user] = h}
    BY DEF ChainsPartition
  <2>2. CASE h = k
    BY <2>1, <2>2, <1>4, <1>7, <1>8
  <2>3. CASE h # k
    BY <2>1, <2>3, <1>4, <1>8
  <2> QED BY <2>2, <2>3
<1> QED BY <1>9, <1>10, <1>11 DEF ChainsPartition

-----------------------------------------------------------------------------
(* The ring. *)

LEMMA AllocRing ==
  ASSUME TableTypes, ChainsPartition, RingSorted,
         NEW u \in Users, NEW p \in Pids \cup {0}, Alloc(u, p)
  PROVE  RingSorted'
<1> DEFINE g == Granted  q == Place(u)  m == InsertAt(ring, q, g)
<1>0. /\ TableTypeOK /\ chain[0] # <<>>
      /\ ring \in Seq(Slots) /\ Len(ring) \in Nat /\ DOMAIN ring = 1 .. Len(ring)
      /\ info \in [Slots -> [active : BOOLEAN, user : Users \cup {NoUser}, pid : Pids \cup {0}]]
  BY DEF TableTypes, TableTypeOK, Alloc
<1>1. g \in Slots \ Online
  BY <1>0, GrantedIsFree
<1>2. info' = [info EXCEPT ![g] = [active |-> TRUE, user |-> u, pid |-> p]]
      /\ ring' = m /\ number' = number + 1
  BY DEF Alloc
<1>3. /\ q \in 1 .. Len(ring) + 1
      /\ \A i \in 1 .. q - 1 : ~(u <= info[ring[i]].user)
      /\ q \in DOMAIN ring => u <= info[ring[q]].user
  BY <1>0, PlaceType
<1> HIDE DEF g, q
<1>4. /\ m \in Seq(Slots) /\ Len(m) = Len(ring) + 1 /\ m[q] = g
      /\ \A i \in 1 .. q - 1 : m[i] = ring[i]
      /\ \A i \in q .. Len(ring) : m[i + 1] = ring[i]
  <2>1. g \in Slots /\ q \in 1 .. Len(ring) + 1 /\ ring \in Seq(Slots)
    BY <1>0, <1>1, <1>3
  <2> QED BY <2>1, PutIn
<1> HIDE DEF m
<1>5. DOMAIN m = 1 .. Len(ring) + 1
  BY <1>4
<1> DEFINE from(i) == IF i < q THEN i ELSE i - 1
<1>6. \A i \in DOMAIN m \ {q} : from(i) \in DOMAIN ring /\ m[i] = ring[from(i)]
  <2> TAKE i \in DOMAIN m \ {q}
  <2>1. CASE i < q
    BY <2>1, <1>0, <1>3, <1>4, <1>5
  <2>2. CASE i > q
    <3>1. i - 1 \in q .. Len(ring) /\ (i - 1) + 1 = i
      BY <2>2, <1>0, <1>3, <1>5
    <3>2. m[i] = ring[i - 1]
      BY <3>1, <1>4
    <3> QED BY <3>1, <3>2, <2>2, <1>0, <1>3
  <2> QED BY <2>1, <2>2, <1>0, <1>3, <1>5
<1>7. \A i, j \in DOMAIN m \ {q} : i < j => from(i) < from(j)
  BY <1>0, <1>3, <1>5
<1>8. \A a \in DOMAIN ring : \E i \in DOMAIN m \ {q} : from(i) = a
  <2> TAKE a \in DOMAIN ring
  <2>1. CASE a < q
    BY <2>1, <1>0, <1>3, <1>5
  <2>2. CASE ~(a < q)
    <3>1. a + 1 \in DOMAIN m \ {q} /\ from(a + 1) = a
      BY <2>2, <1>0, <1>3, <1>5
    <3> HIDE DEF from
    <3> QED BY <3>1
  <2> QED BY <2>1, <2>2
<1>n. u \in Nat /\ \A s \in Slots : info[s].user \in Nat
  <2>1. Users \cup {NoUser} \subseteq Nat /\ u \in Users
    BY <1>0, UsersAssumption DEF NoUser
  <2>2. \A s \in Slots : info[s].user \in Users \cup {NoUser}
    BY <1>0
  <2> QED BY <2>1, <2>2
<1>9. \A i \in 1 .. q - 1 : info[ring[i]].user < u
  <2> TAKE i \in 1 .. q - 1
  <2>1. i \in DOMAIN ring /\ ring[i] \in Slots
    BY <1>0, <1>3
  <2>2. info[ring[i]].user \in Nat /\ u \in Nat
    BY <2>1, <1>n
  <2> QED BY <2>2, <1>3
<1>10. \A i \in q .. Len(ring) : u <= info[ring[i]].user
  <2> TAKE i \in q .. Len(ring)
  <2>1. i \in DOMAIN ring /\ q \in DOMAIN ring
    BY <1>0, <1>3
  <2>2. info[ring[q]].user <= info[ring[i]].user
    <3>1. CASE q < i
      BY <3>1, <2>1 DEF RingSorted
    <3>2. CASE q = i
      BY <3>2, <2>1, <1>0, <1>n
    <3> QED BY <3>1, <3>2, <1>0, <1>3
  <2>3. info[ring[i]].user \in Nat /\ info[ring[q]].user \in Nat /\ u \in Nat
    <3>1. ring[i] \in Slots /\ ring[q] \in Slots
      BY <2>1, <1>0
    <3> QED BY <3>1, <1>n
  <2> QED BY <2>1, <2>2, <2>3, <1>3
<1>11. /\ Online' = Online \cup {g} /\ info'[g].user = u
       /\ \A r \in Online : info'[r].user = info[r].user
  BY <1>0, <1>1, <1>2 DEF Online, Active
<1>12. \A a \in DOMAIN ring : ring[a] \in Online /\ ring[a] # g
  BY <1>1 DEF RingSorted, Range
<1>13. \A i \in DOMAIN m \ {q} : from(i) < q <=> i < q
  BY <1>0, <1>3, <1>5
<1>14. q \in DOMAIN m
  BY <1>3, <1>5
<1> HIDE DEF from
<1>15. IsInjective(m)
  <2> SUFFICES ASSUME NEW i \in DOMAIN m, NEW j \in DOMAIN m, m[i] = m[j], i # j PROVE FALSE
    BY DEF IsInjective
  <2>1. i # q /\ j # q
    BY <1>4, <1>6, <1>12
  <2>2. from(i) = from(j)
    BY <2>1, <1>6 DEF RingSorted, IsInjective
  <2>3. i < j \/ j < i
    BY <1>0, <1>5
  <2> QED BY <2>1, <2>2, <2>3, <1>0, <1>6, <1>7
<1>16. Range(m) = Online'
  <2>1. Range(m) \subseteq Online \cup {g}
    BY <1>4, <1>6, <1>12 DEF Range
  <2>2. g \in Range(m)
    BY <1>4, <1>14 DEF Range
  <2>3. Range(ring) \subseteq Range(m)
    BY <1>6, <1>8 DEF Range
  <2> QED BY <2>1, <2>2, <2>3, <1>11 DEF RingSorted
<1>17. ASSUME NEW i \in DOMAIN m, NEW j \in DOMAIN m, i < j
       PROVE  info'[m[i]].user <= info'[m[j]].user
  <2>1. CASE i # q /\ j # q
    <3>1. info[ring[from(i)]].user <= info[ring[from(j)]].user
      BY <2>1, <1>6, <1>7, <1>17 DEF RingSorted
    <3> QED BY <3>1, <2>1, <1>6, <1>11, <1>12
  <2>2. CASE i = q
    <3>1. j # q /\ ~(from(j) < q) /\ from(j) \in DOMAIN ring
      BY <2>2, <1>0, <1>3, <1>5, <1>6, <1>13, <1>17
    <3>2. u <= info[ring[from(j)]].user
      BY <3>1, <1>0, <1>3, <1>10
    <3> QED BY <3>1, <3>2, <2>2, <1>4, <1>6, <1>11, <1>12
  <2>3. CASE j = q
    <3>1. i # q /\ from(i) < q /\ from(i) \in DOMAIN ring
      BY <2>3, <1>0, <1>3, <1>5, <1>6, <1>13, <1>17
    <3>2. info[ring[from(i)]].user < u
      BY <3>1, <1>0, <1>3, <1>9
    <3>3. info[ring[from(i)]].user \in Nat /\ u \in Nat
      BY <3>1, <1>0, UsersAssumption DEF NoUser
    <3> QED BY <3>1, <3>2, <3>3, <2>3, <1>4, <1>6, <1>11, <1>12
  <2> QED BY <2>1, <2>2, <2>3
<1>18. number' = Cardinality(Online')
  BY <1>1, <1>2, <1>11, OnlineFinite, FS_AddElement DEF RingSorted
<1> QED BY <1>2, <1>15, <1>16, <1>17, <1>18 DEF RingSorted

LEMMA FreeRing ==
  ASSUME TableTypes, RingSorted, NEW s \in Online, Free(s)
  PROVE  RingSorted'
<1> DEFINE m == RemoveFirst(ring, s)
<1>0. TableTypeOK /\ s \in Slots /\ ring \in Seq(Slots)
      /\ info \in [Slots -> [active : BOOLEAN, user : Users \cup {NoUser}, pid : Pids \cup {0}]]
  BY DEF TableTypes, TableTypeOK, Online
<1>1. ring' = m /\ number' = number - 1
  BY DEF Free, Online
<1>2. /\ IsInjective(m) /\ Range(m) = Range(ring) \ {s}
      /\ \A i, j \in DOMAIN m : i < j =>
           \E a, b \in DOMAIN ring : a < b /\ m[i] = ring[a] /\ m[j] = ring[b]
  BY <1>0, TakeOff DEF RingSorted
<1> HIDE DEF m
<1>3. Online' = Online \ {s} /\ \A r \in Online' : info'[r].user = info[r].user
  BY <1>0, FreeTypes DEF Online
<1>4. \A i \in DOMAIN m : m[i] \in Online'
  BY <1>2, <1>3 DEF Range, RingSorted
<1>5. ASSUME NEW i \in DOMAIN m, NEW j \in DOMAIN m, i < j
      PROVE  info'[m[i]].user <= info'[m[j]].user
  <2>1. info[m[i]].user <= info[m[j]].user
    BY <1>2, <1>5 DEF RingSorted
  <2> QED BY <2>1, <1>3, <1>4
<1>6. number' = Cardinality(Online')
  BY <1>1, <1>3, OnlineFinite, FS_RemoveElement DEF RingSorted
<1> QED BY <1>1, <1>2, <1>3, <1>5, <1>6 DEF RingSorted

-----------------------------------------------------------------------------
(* The table by itself. *)

TableInv == TableTypes /\ ChainsPartition /\ RingSorted

LEMMA TableInvInit == TableInit => TableInv
<1> SUFFICES ASSUME TableInit PROVE TableInv
  OBVIOUS
<1> DEFINE free == [i \in 1 .. N |-> i]
<1>1. N \in Nat /\ free \in Seq(Slots) /\ DOMAIN free = Slots /\ \A i \in Slots : free[i] = i
  BY NAssumption DEF Slots
<1>2. chain[0] = free /\ 0 \in Buckets /\ \A h \in Buckets \ {0} : chain[h] = <<>>
  BY DEF TableInit, Buckets
<1> HIDE DEF free
<1>3. Online = {}
  BY DEF TableInit, Online, Active
<1>4. <<>> \in Seq(Slots) /\ IsInjective(<<>>) /\ Range(<<>>) = {} /\ DOMAIN <<>> = {}
  BY DEF IsInjective, Range
<1>5. chain \in [Buckets -> Seq(Slots)]
  <2>1. \A h \in Buckets : chain[h] \in Seq(Slots)
    BY <1>1, <1>2, <1>4
  <2>2. chain = [h \in Buckets |-> chain[h]]
    BY DEF TableInit
  <2> QED BY <2>1, <2>2
<1>6. Cardinality(Online) = 0
  BY <1>3, FS_EmptySet
<1>7. TableTypes
  BY <1>3, <1>4, <1>5, <1>6 DEF TableTypes, TableTypeOK, TableInit
<1>8. IsInjective(free) /\ Range(free) = Slots
  BY <1>1 DEF IsInjective, Range
<1>9. ChainsPartition
  BY <1>2, <1>3, <1>4, <1>8 DEF ChainsPartition
<1>10. RingSorted
  BY <1>3, <1>4, <1>6 DEF RingSorted, TableInit
<1> QED BY <1>7, <1>9, <1>10 DEF TableInv

LEMMA TableInvStep == TableInv /\ [TableNext]_tableVars => TableInv'
<1> SUFFICES ASSUME TableInv, [TableNext]_tableVars PROVE TableInv'
  OBVIOUS
<1>1. ASSUME NEW u \in Users, NEW p \in Pids, Alloc(u, p) PROVE TableInv'
  BY <1>1, AllocTypes, AllocChains, AllocRing DEF TableInv
<1>2. ASSUME NEW s \in Online, Free(s) PROVE TableInv'
  <2>1. s \in Slots
    BY DEF Online
  <2> QED BY <1>2, <2>1, FreeTypes, FreeChains, FreeRing DEF TableInv
<1>3. CASE UNCHANGED tableVars
  BY <1>3 DEF tableVars, TableInv, TableTypes, TableTypeOK, ChainsPartition, RingSorted,
              Online, Active
<1> QED BY <1>1, <1>2, <1>3 DEF TableNext

(* As long as only sessions that are online are cleared, every slot is on  *)
(* the chain it belongs to and there once, and the ring has the sessions,  *)
(* sorted (getnewutmpent2 and clear_utmp2, libBBS/utmp.c:212-304, 606-684). *)
THEOREM TableConsistent == TableSpec => [](ChainsPartition /\ RingSorted)
<1>1. TableInv => ChainsPartition /\ RingSorted
  BY DEF TableInv
<1> QED BY <1>1, TableInvInit, TableInvStep, PTL DEF TableSpec

=============================================================================
