-------------------------- MODULE Links_proofs --------------------------
(***************************************************************************)
(* The two tables whose slots are linked in shared memory.  The links of   *)
(* utmphead implement the chains and the ring of UtmpTable; the links of   *)
(* the accounts stay hash chains while accounts come and go.  What is said *)
(* of a list of linked slots (Linked) serves both.                         *)
(***************************************************************************)
EXTENDS UtmpLinks, UserTable, TLAPS, FiniteSetTheorems

(* The table the links stand for, with what is proved of it. *)
T == INSTANCE UtmpTable_proofs
       WITH info <- uinfo, ring <- RingOf, chain <- [h \in Buckets |-> ChainOf(h)]

LEMMA Least ==
  ASSUME NEW S \in SUBSET Nat, S # {}
  PROVE  \E x \in S : \A y \in S : x <= y
BY T!LeastNat, NAssumption, UsersAssumption, GarbageAssumption, HashAssumption DEF T!NoUser

-----------------------------------------------------------------------------
(* The slots met when links are followed, one after another.                 *)
Visits(link, from, at) ==
  at = [i \in Nat |-> IF i = 0 THEN from
                      ELSE LET s == at[i - 1] IN IF s = 0 THEN 0 ELSE link[s]]

LEMMA VisitsExist ==
  ASSUME NEW link, NEW from
  PROVE  \E at : Visits(link, from, at)
<1> DEFINE Upto(n, f) == \A i \in 0 .. n : f[i] = IF i = 0 THEN from
                             ELSE LET s == f[i - 1] IN IF s = 0 THEN 0 ELSE link[s]
<1>1. \A n \in Nat : \E f : Upto(n, f)
  <2> DEFINE S == {n \in Nat : ~ \E f : Upto(n, f)}
  <2>1. SUFFICES ASSUME S # {} PROVE FALSE
    OBVIOUS
  <2>2. PICK n \in S : \A m \in S : n <= m
    BY <2>1, Least
  <2>3. CASE n = 0
    <3>1. Upto(0, [i \in Nat |-> from])
      OBVIOUS
    <3> QED BY <3>1, <2>2, <2>3
  <2>4. CASE n # 0
    <3>1. n - 1 \in Nat /\ n - 1 \notin S
      <4>1. n \in Nat /\ \A m \in S : n <= m
        BY <2>2
      <4> HIDE DEF S
      <4>2. n - 1 \in Nat /\ ~(n <= n - 1)
        BY <4>1, <2>4
      <4> QED BY <4>1, <4>2
    <3>2. PICK f : Upto(n - 1, f)
      BY <3>1
    <3> DEFINE last == LET s == f[n - 1] IN IF s = 0 THEN 0 ELSE link[s]
    <3> DEFINE g == [i \in Nat |-> IF i = n THEN last ELSE f[i]]
    <3>3. \A i \in 0 .. n - 1 : g[i] = f[i]
      BY <2>2
    <3>4. g[n] = last
      BY <2>2
    <3> HIDE DEF g
    <3>5. Upto(n, g)
      <4> SUFFICES ASSUME NEW i \in 0 .. n
                   PROVE g[i] = IF i = 0 THEN from
                                ELSE LET s == g[i - 1] IN IF s = 0 THEN 0 ELSE link[s]
        OBVIOUS
      <4>1. CASE i = n
        <5>1. n - 1 \in 0 .. n - 1
          BY <3>1
        <5> QED BY <4>1, <2>4, <3>3, <3>4, <5>1
      <4>2. CASE i # n /\ i # 0
        <5>1. i \in 0 .. n - 1 /\ i - 1 \in 0 .. n - 1
          BY <4>2, <2>2
        <5> QED BY <4>2, <3>2, <3>3, <5>1
      <4>3. CASE i # n /\ i = 0
        BY <4>3, <3>1, <3>2, <3>3
      <4> QED BY <4>1, <4>2, <4>3
    <3> QED BY <3>5, <2>2
  <2> QED BY <2>3, <2>4
<1>2. \A n, m \in Nat : \A f, g : Upto(n, f) /\ Upto(m, g) /\ m <= n => f[m] = g[m]
  <2> DEFINE S == {m \in Nat : \E n \in Nat : \E f, g :
                     Upto(n, f) /\ Upto(m, g) /\ m <= n /\ f[m] # g[m]}
  <2>1. SUFFICES ASSUME S # {} PROVE FALSE
    OBVIOUS
  <2>2. PICK m \in S : \A k \in S : m <= k
    BY <2>1, Least
  <2>n. PICK n \in Nat :
          \E f, g : Upto(n, f) /\ Upto(m, g) /\ m <= n /\ f[m] # g[m]
    BY <2>2
  <2>3. PICK f, g : Upto(n, f) /\ Upto(m, g) /\ m <= n /\ f[m] # g[m]
    BY <2>n
  <2>4. CASE m = 0
    BY <2>3, <2>4
  <2>5. CASE m # 0
    <3>0. m \in Nat /\ m - 1 \in Nat /\ m - 1 <= n
      BY <2>2, <2>3, <2>5
    <3>1. m - 1 \notin S
      <4> HIDE DEF S
      <4> QED BY <3>0, <2>2
    <3>2. Upto(m - 1, g)
      BY <2>2, <2>3
    <3>3. f[m - 1] = g[m - 1]
      BY <3>0, <3>1, <3>2, <2>3
    <3>4. m \in 0 .. n /\ m \in 0 .. m
      BY <2>2, <2>3
    <3> QED BY <3>3, <3>4, <2>3, <2>5
  <2> QED BY <2>4, <2>5
<1> DEFINE at == [i \in Nat |-> (CHOOSE f : Upto(i, f))[i]]
<1>3. \A i \in Nat : Upto(i, CHOOSE f : Upto(i, f))
  BY <1>1
<1>4. ASSUME NEW i \in Nat
      PROVE  at[i] = IF i = 0 THEN from
                     ELSE LET s == at[i - 1] IN IF s = 0 THEN 0 ELSE link[s]
  <2> DEFINE f == CHOOSE f : Upto(i, f)
  <2>1. Upto(i, f) /\ at[i] = f[i]
    BY <1>3
  <2>2. CASE i = 0
    BY <2>1, <2>2
  <2>3. CASE i # 0
    <3> DEFINE g == CHOOSE g : Upto(i - 1, g)
    <3>1. i - 1 \in Nat /\ i - 1 <= i
      BY <2>3
    <3>2. Upto(i - 1, g) /\ at[i - 1] = g[i - 1]
      BY <3>1, <1>3
    <3> HIDE DEF f, g, at
    <3>3. f[i - 1] = g[i - 1]
      <4> HIDE DEF Upto
      <4> QED BY <1>2, <2>1, <3>1, <3>2
    <3> QED BY <2>1, <2>3, <3>2, <3>3
  <2> QED BY <2>2, <2>3
<1>5. at = [i \in Nat |-> IF i = 0 THEN from
                          ELSE LET s == at[i - 1] IN IF s = 0 THEN 0 ELSE link[s]]
  <2>1. at = [i \in Nat |-> at[i]]
    OBVIOUS
  <2> HIDE DEF at
  <2> QED BY <2>1, <1>4
<1> QED BY <1>5 DEF Visits

(* A list of slots without duplicates is no longer than there are slots. *)
LEMMA NoLongerThan ==
  ASSUME NEW n \in Nat \ {0}, NEW l \in Seq(1 .. n), T!IsInjective(l)
  PROVE  Len(l) \in 0 .. n
<1>1. Len(l) \in Nat /\ l \in [1 .. Len(l) -> 1 .. n] /\ DOMAIN l = 1 .. Len(l)
  OBVIOUS
<1>2. /\ IsFiniteSet(1 .. Len(l)) /\ Cardinality(1 .. Len(l)) = Len(l)
      /\ IsFiniteSet(1 .. n) /\ Cardinality(1 .. n) = n
  <2>1. \A k \in Nat : IsFiniteSet(1 .. k) /\ Cardinality(1 .. k) = k
    <3> TAKE k \in Nat
    <3>1. IsFiniteSet(1 .. k) /\ Cardinality(1 .. k) = IF 1 > k THEN 0 ELSE k - 1 + 1
      BY FS_Interval
    <3> QED BY <3>1
  <2> QED BY <1>1, <2>1
<1>3. ASSUME n < Len(l) PROVE FALSE
  <2>1. /\ IsFiniteSet(1 .. Len(l)) /\ IsFiniteSet(1 .. n)
        /\ Cardinality(1 .. n) < Cardinality(1 .. Len(l))
    BY <1>2, <1>3
  <2>2. l \in [1 .. Len(l) -> 1 .. n]
    BY <1>1
  <2>3. \E x, y \in 1 .. Len(l) : x # y /\ l[x] = l[y]
    BY ONLY <2>1, <2>2, FS_PigeonHole
  <2> QED BY <2>3, <1>1 DEF T!IsInjective
<1> QED BY <1>1, <1>3

(* Follow finds the list the links stand for. *)
Linked(S, link, from, stop, l) ==
  /\ l \in Seq(S) /\ T!IsInjective(l)
  /\ from = (IF l = <<>> THEN 0 ELSE l[1])
  /\ \A i \in 1 .. Len(l) : link[l[i]] = (IF i = Len(l) THEN stop ELSE l[i + 1])

LEMMA FollowFinds ==
  ASSUME NEW link, NEW from, NEW stop, NEW l, Linked(Slots, link, from, stop, l),
         stop = 0 \/ stop = from
  PROVE  Follow(link, from, stop) = l
<1> DEFINE D(at) == [i \in Nat |-> IF i = 0 THEN from
                                   ELSE LET s == at[i - 1] IN IF s = 0 THEN 0 ELSE link[s]]
           at == CHOOSE at : at = D(at)
<1>1. at = D(at)
  <2>1. \E f : Visits(link, from, f)
    BY VisitsExist
  <2>2. PICK f : Visits(link, from, f)
    BY <2>1
  <2>3. f = D(f)
    BY <2>2 DEF Visits
  <2> HIDE DEF D
  <2> QED BY <2>3
<1> DEFINE ends(n) == n = N \/ at[n] \in {0, stop}
           len == CHOOSE n \in 1 .. N : ends(n) /\ \A i \in 1 .. n - 1 : ~ends(i)
<1>2. Follow(link, from, stop) = [i \in 1 .. (IF from = 0 THEN 0 ELSE len) |-> at[i - 1]]
  BY DEF Follow
<1> HIDE DEF at
<1>3. at[0] = from /\ \A i \in Nat \ {0} : at[i] = IF at[i - 1] = 0 THEN 0 ELSE link[at[i - 1]]
  <2>1. \A i \in Nat :
          D(at)[i] = IF i = 0 THEN from ELSE IF at[i - 1] = 0 THEN 0 ELSE link[at[i - 1]]
    OBVIOUS
  <2> HIDE DEF D
  <2>2. \A i \in Nat :
          at[i] = IF i = 0 THEN from ELSE IF at[i - 1] = 0 THEN 0 ELSE link[at[i - 1]]
    BY <1>1, <2>1
  <2>3. at[0] = from
    BY <2>2
  <2> QED BY <2>2, <2>3
<1> HIDE DEF D
<1>4. Len(l) \in 0 .. N /\ l \in Seq(Slots) /\ T!IsInjective(l) /\ DOMAIN l = 1 .. Len(l)
  BY NoLongerThan, NAssumption DEF Linked, Slots
<1>5. CASE l = <<>>
  <2>1. from = 0
    BY <1>5 DEF Linked
  <2>2. \A i \in 1 .. 0 : FALSE
    OBVIOUS
  <2> QED BY <1>2, <1>5, <2>1, <2>2
<1>6. CASE l # <<>>
  <2>1. from = l[1] /\ from \in Slots /\ from # 0 /\ Len(l) \in 1 .. N /\ N \in Nat
    <3>1. Len(l) # 0 /\ N \in Nat
      BY <1>4, <1>6, NAssumption
    <3>2. Len(l) \in 1 .. N
      BY <1>4, <3>1
    <3>3. 1 \in 1 .. Len(l) /\ from = l[1]
      BY <1>6, <3>2 DEF Linked
    <3>4. from \in Slots
      BY <1>4, <3>3
    <3> QED BY <3>1, <3>2, <3>3, <3>4 DEF Slots
  <2>2. \A i \in 1 .. Len(l) : l[i] \in Slots /\ l[i] # 0
    <3>1. \A i \in 1 .. Len(l) : l[i] \in Slots
      BY <1>4
    <3>2. \A s \in Slots : s # 0
      BY DEF Slots
    <3> QED BY <3>1, <3>2
  <2>3. \A i \in Nat : i < Len(l) => at[i] = l[i + 1]
    <3> DEFINE S == {i \in Nat : i < Len(l) /\ at[i] # l[i + 1]}
    <3>1. SUFFICES ASSUME S # {} PROVE FALSE
      OBVIOUS
    <3>2. PICK m \in S : \A k \in S : m <= k
      BY <3>1, Least
    <3>3. m \in Nat /\ m < Len(l) /\ at[m] # l[m + 1]
      BY <3>2
    <3>4. m # 0
      BY <3>3, <1>3, <2>1
    <3>5. m - 1 \in Nat /\ m - 1 < Len(l) /\ m \in 1 .. Len(l) /\ m # Len(l)
      BY <3>3, <3>4, <2>1
    <3>6. at[m - 1] = l[m]
      <4>1. m - 1 \notin S
        <5> HIDE DEF S
        <5> QED BY <3>2, <3>3, <3>5
      <4> QED BY <4>1, <3>3, <3>5
    <3>7. at[m] = link[l[m]]
      BY <1>3, <2>2, <3>3, <3>4, <3>5, <3>6
    <3>8. link[l[m]] = l[m + 1]
      BY <3>5 DEF Linked
    <3> QED BY <3>3, <3>7, <3>8
  <2>4. at[Len(l)] = stop
    <3>1. Len(l) - 1 \in Nat /\ Len(l) - 1 < Len(l) /\ Len(l) \in Nat \ {0} /\ Len(l) \in 1 .. Len(l)
      BY <2>1
    <3>2. at[Len(l) - 1] = l[Len(l)]
      BY <2>3, <3>1
    <3>3. link[l[Len(l)]] = stop
      BY <3>1 DEF Linked
    <3> QED BY <1>3, <2>2, <3>1, <3>2, <3>3
  <2>5. ends(Len(l)) /\ \A i \in 1 .. Len(l) - 1 : ~ends(i)
    <3>1. ASSUME NEW i \in 1 .. Len(l) - 1 PROVE ~ends(i)
      <4>1. i \in Nat /\ i < Len(l) /\ i + 1 \in 1 .. Len(l) /\ 1 \in 1 .. Len(l) /\ i + 1 # 1 /\ i # N
        BY <2>1
      <4>2. at[i] = l[i + 1]
        BY <2>3, <4>1
      <4>3. l[i + 1] # 0 /\ l[i + 1] # l[1]
        BY <1>4, <2>2, <4>1 DEF T!IsInjective
      <4> QED BY <2>1, <4>1, <4>2, <4>3
    <3> QED BY <2>4, <3>1
  <2>6. len = Len(l)
    <3>1. \A n \in 1 .. N : ends(n) /\ (\A i \in 1 .. n - 1 : ~ends(i)) => n = Len(l)
      <4> SUFFICES ASSUME NEW n \in 1 .. N, ends(n), \A i \in 1 .. n - 1 : ~ends(i), n # Len(l)
                   PROVE FALSE
        OBVIOUS
      <4> HIDE DEF ends
      <4>1. n < Len(l) => n \in 1 .. Len(l) - 1
        BY <2>1
      <4>2. Len(l) < n => Len(l) \in 1 .. n - 1
        BY <2>1
      <4>3. n < Len(l) \/ Len(l) < n
        BY <2>1
      <4> QED BY <2>5, <4>1, <4>2, <4>3
    <3> HIDE DEF ends
    <3> QED BY <2>1, <2>5, <3>1
  <2> HIDE DEF len
  <2>7. Follow(link, from, stop) = [i \in 1 .. Len(l) |-> at[i - 1]]
    BY <1>2, <2>1, <2>6
  <2>8. \A i \in 1 .. Len(l) : at[i - 1] = l[i]
    <3>1. \A i \in 1 .. Len(l) : i - 1 \in Nat /\ i - 1 < Len(l) /\ (i - 1) + 1 = i
      BY <2>1
    <3> QED BY <2>3, <3>1
  <2>9. l = [i \in 1 .. Len(l) |-> l[i]]
    BY <1>4
  <2> QED BY <2>7, <2>8, <2>9
<1> QED BY <1>5, <1>6

-----------------------------------------------------------------------------
(* What the assignments to links do to the list they stand for.              *)
LEMMA LinkedSame ==
  ASSUME NEW S, NEW link, NEW from, NEW stop, NEW l, Linked(S, link, from, stop, l), NEW link2,
         \A s \in T!Range(l) : link2[s] = link[s]
  PROVE  Linked(S, link2, from, stop, l)
<1>1. \A i \in 1 .. Len(l) : l[i] \in T!Range(l)
  BY DEF Linked, T!Range
<1> QED BY <1>1 DEF Linked

LEMMA ListRange ==
  ASSUME NEW S, NEW l \in Seq(S)
  PROVE  T!Range(l) = {l[i] : i \in 1 .. Len(l)}
BY DEF T!Range

LEMMA LinkedPush ==
  ASSUME NEW S, NEW link, NEW from, NEW l, Linked(S, link, from, 0, l), NEW e \in S, e \notin T!Range(l),
         NEW link2, link2[e] = from, \A s \in T!Range(l) : link2[s] = link[s]
  PROVE  Linked(S, link2, e, 0, <<e>> \o l)
<1> DEFINE m == <<e>> \o l
<1>0. l \in Seq(S) /\ T!IsInjective(l) /\ Len(l) \in Nat
  BY DEF Linked
<1>1. m \in Seq(S) /\ T!IsInjective(m)
  BY <1>0, T!PushOnto, NAssumption, UsersAssumption, GarbageAssumption, HashAssumption DEF T!NoUser
<1>2. /\ Len(m) = Len(l) + 1 /\ m[1] = e /\ m # <<>>
      /\ \A i \in 1 .. Len(l) + 1 : i # 1 => i - 1 \in 1 .. Len(l) /\ m[i] = l[i - 1]
  BY <1>0
<1>3. \A i \in 1 .. Len(l) : l[i] \in T!Range(l)
  BY <1>0, ListRange
<1> HIDE DEF m
<1>4. ASSUME NEW i \in 1 .. Len(m) PROVE link2[m[i]] = (IF i = Len(m) THEN 0 ELSE m[i + 1])
  <2>1. CASE i = 1 /\ Len(l) = 0
    <3>1. l = <<>> /\ from = 0
      BY <1>0, <2>1 DEF Linked
    <3> QED BY <2>1, <3>1, <1>2
  <2>2. CASE i = 1 /\ Len(l) # 0
    <3>1. from = l[1] /\ 2 \in 1 .. Len(l) + 1
      BY <1>0, <2>2 DEF Linked
    <3> QED BY <1>0, <2>2, <3>1, <1>2
  <2>3. CASE i # 1
    <3>1. i - 1 \in 1 .. Len(l) /\ m[i] = l[i - 1] /\ i \in Nat
      BY <1>2, <2>3
    <3>2. link2[m[i]] = (IF i - 1 = Len(l) THEN 0 ELSE l[i])
      BY <1>3, <3>1 DEF Linked
    <3>3. i # Len(m) => i + 1 \in 1 .. Len(l) + 1 /\ i + 1 # 1 /\ (i + 1) - 1 = i
      BY <1>0, <1>2, <3>1
    <3> QED BY <1>0, <1>2, <3>1, <3>2, <3>3
  <2> QED BY <2>1, <2>2, <2>3
<1> QED BY <1>1, <1>2, <1>4 DEF Linked, m

LEMMA LinkedPop ==
  ASSUME NEW S, NEW link, NEW from, NEW l, Linked(S, link, from, 0, l), l # <<>>,
         NEW link2, \A s \in T!Range(l) \ {from} : link2[s] = link[s]
  PROVE  Linked(S, link2, link[from], 0, Tail(l)) /\ from = Head(l)
<1> DEFINE m == Tail(l)
<1>0. l \in Seq(S) /\ T!IsInjective(l) /\ Len(l) \in Nat \ {0} /\ from = l[1] /\ Head(l) = l[1]
      /\ DOMAIN l = 1 .. Len(l)
  BY DEF Linked
<1>1. m \in Seq(S) /\ T!IsInjective(m)
  BY <1>0, T!PopOff, NAssumption, UsersAssumption, GarbageAssumption, HashAssumption DEF T!NoUser
<1>2. /\ Len(m) = Len(l) - 1
      /\ \A i \in 1 .. Len(l) - 1 : i + 1 \in 1 .. Len(l) /\ m[i] = l[i + 1]
  BY <1>0
<1>3. \A i \in 1 .. Len(l) : l[i] \in T!Range(l)
  BY <1>0, ListRange
<1> HIDE DEF m
<1>n. Len(m) = Len(l) - 1 /\ Len(l) \in Nat \ {0}
  BY <1>0, <1>2
<1>4. ASSUME NEW i \in 1 .. Len(m) PROVE link2[m[i]] = (IF i = Len(m) THEN 0 ELSE m[i + 1])
  <2>1. i + 1 \in 1 .. Len(l) /\ m[i] = l[i + 1] /\ i + 1 # 1 /\ 1 \in 1 .. Len(l)
    BY <1>0, <1>2
  <2>2. l[i + 1] # from
    BY <1>0, <2>1 DEF T!IsInjective
  <2>3. link2[m[i]] = (IF i + 1 = Len(l) THEN 0 ELSE l[(i + 1) + 1])
    BY <1>3, <2>1, <2>2 DEF Linked
  <2>4. /\ i # Len(m) => i + 1 \in 1 .. Len(l) - 1
        /\ i = Len(m) <=> i + 1 = Len(l)
    BY <1>n
  <2> QED BY <1>2, <2>3, <2>4
<1>5. link[from] = (IF m = <<>> THEN 0 ELSE m[1])
  <2>1. 1 \in 1 .. Len(l) /\ link[from] = (IF 1 = Len(l) THEN 0 ELSE l[2])
    <3>1. 1 \in 1 .. Len(l)
      BY <1>n
    <3>2. link[l[1]] = (IF 1 = Len(l) THEN 0 ELSE l[1 + 1])
      BY <3>1 DEF Linked
    <3> QED BY <1>0, <3>1, <3>2
  <2>2. m = <<>> <=> Len(l) = 1
    BY <1>0, <1>1, <1>2
  <2>3. Len(l) # 1 => 1 \in 1 .. Len(l) - 1
    BY <1>0
  <2> QED BY <1>0, <1>2, <2>1, <2>2, <2>3
<1> QED BY <1>0, <1>1, <1>4, <1>5 DEF Linked, m

(* A slot that is not the first is taken out of a chain. *)
LEMMA LinkedCut ==
  ASSUME NEW S, NEW link, NEW from, NEW l, Linked(S, link, from, 0, l), NEW p \in 2 .. Len(l),
         NEW link2, link2[l[p - 1]] = link[l[p]],
         \A s \in T!Range(l) \ {l[p - 1], l[p]} : link2[s] = link[s]
  PROVE  Linked(S, link2, from, 0, T!RemoveFirst(l, l[p]))
<1> DEFINE m == T!RemoveFirst(l, l[p])
<1>0. l \in Seq(S) /\ T!IsInjective(l) /\ Len(l) \in Nat /\ DOMAIN l = 1 .. Len(l)
      /\ p \in 1 .. Len(l) /\ p - 1 \in 1 .. Len(l) /\ p \in Nat /\ p <= Len(l) /\ 2 <= p
  BY DEF Linked
<1>1. /\ m \in Seq(S) /\ Len(m) = Len(l) - 1
      /\ \A i \in 1 .. Len(l) - 1 : m[i] = IF i < p THEN l[i] ELSE l[i + 1]
  BY <1>0, T!MovedUp, NAssumption, UsersAssumption, GarbageAssumption, HashAssumption DEF T!NoUser
<1>2. T!IsInjective(m)
  BY <1>0, T!TakeOff, NAssumption, UsersAssumption, GarbageAssumption, HashAssumption DEF T!NoUser
<1>3. \A i \in 1 .. Len(l) : l[i] \in T!Range(l)
  BY <1>0, ListRange
<1>4. /\ \A i, j \in 1 .. Len(l) : l[i] = l[j] => i = j
      /\ \A i \in 1 .. Len(l) : link[l[i]] = (IF i = Len(l) THEN 0 ELSE l[i + 1])
  BY <1>0 DEF T!IsInjective, Linked
<1>5. \A i \in 1 .. Len(l) : i # p /\ i # p - 1 => link2[l[i]] = (IF i = Len(l) THEN 0 ELSE l[i + 1])
  <2> SUFFICES ASSUME NEW i \in 1 .. Len(l), i # p, i # p - 1
               PROVE  link2[l[i]] = (IF i = Len(l) THEN 0 ELSE l[i + 1])
    OBVIOUS
  <2>1. l[i] # l[p] /\ l[i] # l[p - 1]
    BY <1>0, <1>4
  <2>2. link2[l[i]] = link[l[i]]
    BY <1>3, <2>1
  <2> QED BY <1>4, <2>2
<1>6. link2[l[p - 1]] = (IF p = Len(l) THEN 0 ELSE l[p + 1])
  BY <1>0, <1>4
<1> HIDE DEF m
<1>n. Len(m) = Len(l) - 1 /\ Len(l) \in Nat /\ p \in Nat /\ p <= Len(l) /\ 2 <= p
  BY <1>0, <1>1
<1>7. ASSUME NEW i \in 1 .. Len(m) PROVE link2[m[i]] = (IF i = Len(m) THEN 0 ELSE m[i + 1])
  <2>0. i \in Nat /\ i \in 1 .. Len(l) - 1 /\ i + 1 \in 1 .. Len(l)
    BY <1>0, <1>1
  <2>1. CASE i = p - 1
    <3>1. m[i] = l[p - 1]
      BY <1>0, <1>1, <2>0, <2>1
    <3>2. i = Len(m) <=> p = Len(l)
      BY <1>0, <1>1, <2>0, <2>1
    <3>3. i # Len(m) => m[i + 1] = l[p + 1]
      <4> SUFFICES ASSUME i # Len(m) PROVE m[i + 1] = l[p + 1]
        OBVIOUS
      <4>1. i + 1 = p /\ p \in 1 .. Len(l) - 1 /\ ~(p < p)
        BY <1>n, <2>0, <2>1
      <4> QED BY <4>1, <1>1
    <3> QED BY <1>6, <3>1, <3>2, <3>3
  <2>2. CASE i < p - 1
    <3>1. m[i] = l[i] /\ i # p /\ i # p - 1 /\ i \in 1 .. Len(l) /\ i # Len(m) /\ i # Len(l)
      <4>1. i < p /\ i # p /\ i # p - 1 /\ i \in 1 .. Len(l) /\ i # Len(m) /\ i # Len(l)
        BY <1>n, <2>0, <2>2
      <4> QED BY <1>1, <2>0, <4>1
    <3>2. i + 1 \in 1 .. Len(l) - 1 /\ i + 1 < p
      BY <1>0, <2>0, <2>2
    <3>3. m[i + 1] = l[i + 1]
      BY <1>1, <3>2
    <3> QED BY <1>5, <3>1, <3>3
  <2>3. CASE i > p - 1
    <3>1. m[i] = l[i + 1] /\ i + 1 # p /\ i + 1 # p - 1
      BY <1>0, <1>1, <2>0, <2>3
    <3>2. i = Len(m) <=> i + 1 = Len(l)
      BY <1>0, <1>1, <2>0
    <3>3. i # Len(m) => m[i + 1] = l[(i + 1) + 1]
      <4> SUFFICES ASSUME i # Len(m) PROVE m[i + 1] = l[(i + 1) + 1]
        OBVIOUS
      <4>1. i + 1 \in 1 .. Len(l) - 1 /\ ~(i + 1 < p)
        BY <1>n, <2>0, <2>3
      <4> QED BY <4>1, <1>1
    <3> QED BY <1>5, <2>0, <3>1, <3>2, <3>3
  <2> QED BY <1>0, <2>0, <2>1, <2>2, <2>3
<1>8. from = (IF m = <<>> THEN 0 ELSE m[1])
  <2>1. 1 \in 1 .. Len(l) - 1 /\ 1 < p /\ l # <<>>
    BY <1>0
  <2>2. m[1] = l[1] /\ m # <<>>
    BY <1>0, <1>1, <2>1
  <2> QED BY <2>1, <2>2 DEF Linked
<1> QED BY <1>1, <1>2, <1>7, <1>8 DEF Linked, m

-----------------------------------------------------------------------------
(* The ring: linked both ways, the last slot to the first.                   *)
Ringed(nx, pv, first, l) ==
  /\ nx \in [Slots -> 0 .. N] /\ pv \in [Slots -> 0 .. N]
  /\ Linked(Slots, nx, first, first, l)
  /\ \A i \in 1 .. Len(l) : pv[l[i]] = (IF i = 1 THEN l[Len(l)] ELSE l[i - 1])

LEMMA RingedFacts ==
  ASSUME NEW nx, NEW pv, NEW first, NEW l, Ringed(nx, pv, first, l), l # <<>>
  PROVE  /\ l \in Seq(Slots) /\ Len(l) \in Nat \ {0} /\ first = l[1]
         /\ \A i \in 1 .. Len(l) : l[i] \in Slots
         /\ \A i, j \in 1 .. Len(l) : l[i] = l[j] => i = j
         /\ \A i \in 1 .. Len(l) : nx[l[i]] = (IF i = Len(l) THEN l[1] ELSE l[i + 1])
         /\ \A i \in 1 .. Len(l) : pv[l[i]] = (IF i = 1 THEN l[Len(l)] ELSE l[i - 1])
<1>1. l \in Seq(Slots) /\ T!IsInjective(l) /\ first = l[1] /\ DOMAIN l = 1 .. Len(l)
  BY DEF Ringed, Linked
<1>2. Len(l) \in Nat \ {0} /\ \A i \in 1 .. Len(l) : l[i] \in Slots
  BY <1>1
<1> QED BY <1>1, <1>2 DEF T!IsInjective, Ringed, Linked

(* The only slot. *)
LEMMA RingOne ==
  ASSUME NEW nx \in [Slots -> 0 .. N], NEW pv \in [Slots -> 0 .. N], NEW e \in Slots
  PROVE  Ringed([nx EXCEPT ![e] = e], [pv EXCEPT ![e] = e], e, <<e>>)
<1>1. <<e>> \in Seq(Slots) /\ Len(<<e>>) = 1 /\ <<e>>[1] = e /\ <<e>> # <<>> /\ e \in 0 .. N
  BY NAssumption DEF Slots
<1>2. T!IsInjective(<<e>>)
  BY DEF T!IsInjective
<1> QED BY <1>1, <1>2 DEF Ringed, Linked

(* A slot is put in before the one at place q, or behind the last. *)
LEMMA RingPut ==
  ASSUME NEW nx, NEW pv, NEW first, NEW l, Ringed(nx, pv, first, l), l # <<>>,
         NEW e \in Slots, e \notin T!Range(l), NEW q \in 1 .. Len(l) + 1,
         NEW i, i = (IF q = Len(l) + 1 THEN l[1] ELSE l[q])
  PROVE  Ringed([nx EXCEPT ![e] = i, ![pv[i]] = e], [pv EXCEPT ![e] = pv[i], ![i] = e],
                IF q = 1 THEN e ELSE first, T!InsertAt(l, q, e))
<1> DEFINE m == T!InsertAt(l, q, e)  n == Len(l)  p == pv[i]
           nx2 == [nx EXCEPT ![e] = i, ![p] = e]  pv2 == [pv EXCEPT ![e] = p, ![i] = e]
<1>0. /\ l \in Seq(Slots) /\ n \in Nat \ {0} /\ first = l[1]
      /\ \A j \in 1 .. n : l[j] \in Slots
      /\ \A j, k \in 1 .. n : l[j] = l[k] => j = k
      /\ \A j \in 1 .. n : nx[l[j]] = (IF j = n THEN l[1] ELSE l[j + 1])
      /\ \A j \in 1 .. n : pv[l[j]] = (IF j = 1 THEN l[n] ELSE l[j - 1])
  BY RingedFacts
<1>1. /\ m \in Seq(Slots) /\ Len(m) = n + 1 /\ m[q] = e
      /\ \A j \in 1 .. q - 1 : m[j] = l[j]
      /\ \A j \in q .. n : m[j + 1] = l[j]
  BY <1>0, T!PutIn, NAssumption, UsersAssumption, GarbageAssumption, HashAssumption DEF T!NoUser
<1>2. \A j \in 1 .. n : l[j] # e
  BY <1>0, ListRange
<1>3. nx \in [Slots -> 0 .. N] /\ pv \in [Slots -> 0 .. N]
  BY DEF Ringed
<1> HIDE DEF m
<1> DEFINE pi == IF q = n + 1 THEN 1 ELSE q
           pp == IF pi = 1 THEN n ELSE pi - 1
<1>4. n \in Nat /\ n >= 1 /\ q \in Nat /\ 1 <= q /\ q <= n + 1 /\ pi \in 1 .. n /\ pp \in 1 .. n
  BY <1>0
<1>5. i = l[pi] /\ p = l[pp]
  BY <1>0, <1>4
<1>6. i \in Slots /\ p \in Slots /\ i # e /\ p # e
  BY <1>0, <1>2, <1>4, <1>5
<1>7. /\ nx2[e] = i /\ nx2[p] = e /\ \A s \in Slots \ {e, p} : nx2[s] = nx[s]
      /\ pv2[e] = p /\ pv2[i] = e /\ \A s \in Slots \ {e, i} : pv2[s] = pv[s]
      /\ nx2 \in [Slots -> 0 .. N] /\ pv2 \in [Slots -> 0 .. N]
  <2>1. e \in 0 .. N /\ i \in 0 .. N /\ p \in 0 .. N
    BY <1>6, NAssumption DEF Slots
  <2> HIDE DEF p
  <2> QED BY <1>3, <1>6, <2>1
<1> HIDE DEF nx2, pv2, p
<1>8. /\ \A j \in 1 .. n : j # pp => nx2[l[j]] = (IF j = n THEN l[1] ELSE l[j + 1])
      /\ \A j \in 1 .. n : j # pi => pv2[l[j]] = (IF j = 1 THEN l[n] ELSE l[j - 1])
      /\ nx2[l[pp]] = e /\ pv2[l[pi]] = e
  <2>1. ASSUME NEW j \in 1 .. n, j # pp PROVE nx2[l[j]] = nx[l[j]]
    <3>1. l[j] # p /\ l[j] # e /\ l[j] \in Slots
      BY <1>0, <1>2, <1>4, <1>5, <2>1
    <3> QED BY <3>1, <1>7
  <2>2. ASSUME NEW j \in 1 .. n, j # pi PROVE pv2[l[j]] = pv[l[j]]
    <3>1. l[j] # i /\ l[j] # e /\ l[j] \in Slots
      BY <1>0, <1>2, <1>4, <1>5, <2>2
    <3> QED BY <3>1, <1>7
  <2> QED BY <1>0, <1>5, <1>7, <2>1, <2>2
<1>9. T!IsInjective(m)
  <2>1. DOMAIN m = 1 .. n + 1
    BY <1>1
  <2>2. SUFFICES ASSUME NEW a \in 1 .. n + 1, NEW b \in 1 .. n + 1, m[a] = m[b], a # b PROVE FALSE
    BY <2>1 DEF T!IsInjective
  <2>3. \A j \in 1 .. n + 1 : \/ j = q /\ m[j] = e
                              \/ j < q /\ j \in 1 .. n /\ m[j] = l[j]
                              \/ j > q /\ j - 1 \in 1 .. n /\ m[j] = l[j - 1]
    <3> TAKE j \in 1 .. n + 1
    <3>1. CASE j < q
      <4>1. j \in 1 .. q - 1 /\ j \in 1 .. n
        BY <3>1, <1>4
      <4> QED BY <1>1, <3>1, <4>1
    <3>2. CASE j > q
      <4>1. j - 1 \in q .. n /\ j - 1 \in 1 .. n /\ (j - 1) + 1 = j
        BY <3>2, <1>4
      <4> QED BY <1>1, <3>2, <4>1
    <3> QED BY <1>1, <1>4, <3>1, <3>2
  <2>4. a \in Nat /\ b \in Nat
    OBVIOUS
  <2>5. CASE a = q \/ b = q
    <3>1. \A j \in 1 .. n : l[j] # e
      BY <1>2
    <3>2. \A j \in 1 .. n + 1 : j # q => m[j] # e
      <4> TAKE j \in 1 .. n + 1
      <4>1. CASE j < q
        BY <2>3, <3>1, <4>1
      <4>2. CASE j > q
        BY <2>3, <3>1, <4>2
      <4> QED BY <1>4, <4>1, <4>2
    <3>3. m[q] = e /\ q \in 1 .. n + 1
      BY <1>4, <2>3
    <3> QED BY <2>2, <2>5, <3>2, <3>3
  <2>6. CASE (a < q /\ b < q) \/ (a > q /\ b > q)
    <3>1. CASE a < q /\ b < q
      BY <1>0, <2>2, <2>3, <3>1
    <3>2. CASE a > q /\ b > q
      <4>1. a - 1 = b - 1
        BY <1>0, <1>4, <2>2, <2>3, <2>4, <3>2
      <4> QED BY <2>2, <2>4, <4>1
    <3> QED BY <2>6, <3>1, <3>2
  <2>7. CASE a < q /\ b > q
    <3>1. a = b - 1
      BY <1>0, <1>4, <2>2, <2>3, <2>4, <2>7
    <3> QED BY <1>4, <2>4, <2>7, <3>1
  <2>8. CASE a > q /\ b < q
    <3>1. a - 1 = b
      BY <1>0, <1>4, <2>2, <2>3, <2>4, <2>8
    <3> QED BY <1>4, <2>4, <2>8, <3>1
  <2> QED BY <1>4, <2>4, <2>5, <2>6, <2>7, <2>8
<1>10. m[1] = (IF q = 1 THEN e ELSE l[1]) /\ m[n + 1] = (IF q = n + 1 THEN e ELSE l[n])
  <2>1. q # 1 => 1 \in 1 .. q - 1
    BY <1>4
  <2>2. q # n + 1 => n \in q .. n
    BY <1>4
  <2> QED BY <1>1, <2>1, <2>2
<1>11. ASSUME NEW j \in 1 .. n + 1
       PROVE  nx2[m[j]] = (IF j = n + 1 THEN m[1] ELSE m[j + 1])
  <2>0. j \in Nat /\ 1 <= j /\ j <= n + 1
    BY <1>4
  <2>1. CASE j = q
    <3>1. m[j] = e /\ nx2[e] = i
      BY <1>1, <1>7, <2>1
    <3>2. CASE q = n + 1
      BY <1>4, <1>10, <2>1, <3>1, <3>2
    <3>3. CASE q # n + 1
      <4>1. q \in q .. n
        BY <1>4, <3>3
      <4>2. m[q + 1] = l[q]
        BY <1>1, <4>1
      <4> QED BY <2>1, <3>1, <3>3, <4>2
    <3> QED BY <3>2, <3>3
  <2>2. CASE j < q
    <3>1. j \in 1 .. q - 1 /\ j \in 1 .. n /\ j # n + 1
      BY <1>4, <2>0, <2>2
    <3>2. m[j] = l[j]
      BY <1>1, <3>1
    <3>3. CASE j = q - 1
      <4>1. pp = j /\ j + 1 = q
        BY <1>4, <3>1, <3>3
      <4> QED BY <1>1, <1>8, <3>1, <3>2, <4>1
    <3>4. CASE j # q - 1
      <4>1. j # pp /\ j # n /\ j + 1 \in 1 .. q - 1
        BY <1>4, <2>2, <3>1, <3>4
      <4> QED BY <1>1, <1>8, <3>1, <3>2, <4>1
    <3> QED BY <3>3, <3>4
  <2>3. CASE j > q
    <3>1. j - 1 \in q .. n /\ j - 1 \in 1 .. n /\ (j - 1) + 1 = j /\ q # n + 1
      BY <1>4, <2>0, <2>3
    <3>2. m[j] = l[j - 1]
      BY <1>1, <3>1
    <3>3. CASE j = n + 1
      <4>1. CASE q = 1
        <5>1. pp = n
          BY <1>4, <3>1, <4>1
        <5> QED BY <1>8, <1>10, <3>2, <3>3, <4>1, <5>1, <1>4
      <4>2. CASE q # 1
        <5>1. pp # n /\ j - 1 = n
          BY <1>4, <3>1, <3>3, <4>2
        <5> QED BY <1>8, <1>10, <3>1, <3>2, <3>3, <4>2, <5>1
      <4> QED BY <4>1, <4>2
    <3>4. CASE j # n + 1
      <4>1. j - 1 # pp /\ j - 1 # n /\ j \in q .. n
        BY <1>4, <2>0, <2>3, <3>1, <3>4
      <4> QED BY <1>1, <1>8, <3>1, <3>2, <3>4, <4>1
    <3> QED BY <3>3, <3>4
  <2> QED BY <1>4, <2>0, <2>1, <2>2, <2>3
<1>12. ASSUME NEW j \in 1 .. n + 1
       PROVE  pv2[m[j]] = (IF j = 1 THEN m[n + 1] ELSE m[j - 1])
  <2>0. j \in Nat /\ 1 <= j /\ j <= n + 1
    BY <1>4
  <2>1. CASE j = q
    <3>1. m[j] = e /\ pv2[e] = l[pp]
      BY <1>1, <1>5, <1>7, <2>1
    <3>2. CASE q = 1
      <4>1. pp = n
        BY <1>4, <3>2
      <4> QED BY <1>4, <1>10, <2>1, <3>1, <3>2, <4>1
    <3>3. CASE q # 1
      <4>1. pp = q - 1 /\ q - 1 \in 1 .. q - 1
        BY <1>4, <3>3
      <4> QED BY <1>1, <2>1, <3>1, <3>3, <4>1
    <3> QED BY <3>2, <3>3
  <2>2. CASE j < q
    <3>1. j \in 1 .. q - 1 /\ j \in 1 .. n
      BY <1>4, <2>0, <2>2
    <3>2. m[j] = l[j]
      BY <1>1, <3>1
    <3>3. CASE j = 1 /\ q = n + 1
      <4>1. pi = 1
        BY <3>3
      <4> QED BY <1>8, <1>10, <3>2, <3>3, <4>1
    <3>4. CASE j = 1 /\ q # n + 1
      <4>1. pi # j
        BY <2>2, <3>4
      <4> QED BY <1>8, <1>10, <3>1, <3>2, <3>4, <4>1
    <3>5. CASE j # 1
      <4>1. pi # j /\ j - 1 \in 1 .. q - 1
        BY <1>4, <2>0, <2>2, <3>5
      <4> QED BY <1>1, <1>8, <3>1, <3>2, <3>5, <4>1
    <3> QED BY <3>3, <3>4, <3>5
  <2>3. CASE j > q
    <3>1. j - 1 \in q .. n /\ j - 1 \in 1 .. n /\ (j - 1) + 1 = j /\ q # n + 1 /\ j # 1 /\ pi = q
      BY <1>4, <2>0, <2>3
    <3>2. m[j] = l[j - 1]
      BY <1>1, <3>1
    <3>3. CASE j = q + 1
      <4>1. j - 1 = pi
        BY <3>1, <3>3
      <4> QED BY <1>1, <1>8, <3>1, <3>2, <4>1
    <3>4. CASE j # q + 1
      <4>1. j - 1 # pi /\ j - 1 # 1 /\ (j - 1) - 1 \in q .. n /\ ((j - 1) - 1) + 1 = j - 1
        BY <1>4, <2>0, <2>3, <3>1, <3>4
      <4>2. m[j - 1] = l[(j - 1) - 1]
        BY <1>1, <4>1
      <4>3. pv2[l[j - 1]] = l[(j - 1) - 1]
        BY <1>8, <3>1, <4>1
      <4> QED BY <3>1, <3>2, <4>2, <4>3
    <3> QED BY <3>3, <3>4
  <2> QED BY <1>4, <2>0, <2>1, <2>2, <2>3
<1>13. m # <<>> /\ Len(m) = n + 1 /\ m \in Seq(Slots)
  BY <1>1, <1>4
<1> HIDE DEF n
<1>14. (IF q = 1 THEN e ELSE first) = m[1]
  BY <1>0, <1>10
<1>15. Linked(Slots, nx2, IF q = 1 THEN e ELSE first, IF q = 1 THEN e ELSE first, m)
  BY <1>9, <1>11, <1>13, <1>14 DEF Linked
<1>16. \A j \in 1 .. Len(m) : pv2[m[j]] = (IF j = 1 THEN m[Len(m)] ELSE m[j - 1])
  BY <1>12, <1>13
<1>17. Ringed(nx2, pv2, IF q = 1 THEN e ELSE first, m)
  BY <1>7, <1>15, <1>16 DEF Ringed
<1> QED BY <1>17 DEF m, nx2, pv2, p

(* A slot is taken out of the ring. *)
LEMMA RingCut ==
  ASSUME NEW nx, NEW pv, NEW first, NEW l, Ringed(nx, pv, first, l), NEW k \in 1 .. Len(l),
         NEW s, s = l[k]
  PROVE  Ringed([nx EXCEPT ![pv[s]] = nx[s]], [pv EXCEPT ![nx[s]] = pv[s]],
                IF first # s THEN first ELSE IF nx[s] = s THEN 0 ELSE nx[s],
                T!RemoveFirst(l, s))
<1> DEFINE m == T!RemoveFirst(l, s)  n == Len(l)  p == pv[s]  q == nx[s]
           nx2 == [nx EXCEPT ![p] = q]  pv2 == [pv EXCEPT ![q] = p]
           first2 == IF first # s THEN first ELSE IF q = s THEN 0 ELSE q
<1>0. /\ l \in Seq(Slots) /\ n \in Nat \ {0} /\ first = l[1]
      /\ \A j \in 1 .. n : l[j] \in Slots
      /\ \A i, j \in 1 .. n : l[i] = l[j] => i = j
      /\ \A j \in 1 .. n : nx[l[j]] = (IF j = n THEN l[1] ELSE l[j + 1])
      /\ \A j \in 1 .. n : pv[l[j]] = (IF j = 1 THEN l[n] ELSE l[j - 1])
  <2>1. l # <<>>
    OBVIOUS
  <2> QED BY <2>1, RingedFacts
<1>1. /\ m \in Seq(Slots) /\ Len(m) = n - 1
      /\ \A j \in 1 .. n - 1 : m[j] = IF j < k THEN l[j] ELSE l[j + 1]
  <2>1. T!IsInjective(l) /\ l \in Seq(Slots) /\ k \in 1 .. Len(l)
    BY <1>0 DEF Ringed, Linked
  <2>2. LET r == T!RemoveFirst(l, l[k]) IN
        /\ r \in Seq(Slots) /\ Len(r) = Len(l) - 1
        /\ \A j \in 1 .. Len(l) - 1 : r[j] = IF j < k THEN l[j] ELSE l[j + 1]
    <3> HIDE DEF m, n
    <3> QED BY <2>1, T!MovedUp, NAssumption, UsersAssumption, GarbageAssumption, HashAssumption
            DEF T!NoUser
  <2>3. m = T!RemoveFirst(l, l[k]) /\ n = Len(l)
    OBVIOUS
  <2> QED BY <2>2, <2>3
<1>2. T!IsInjective(m)
  <2>1. T!IsInjective(l)
    BY DEF Ringed, Linked
  <2> QED BY <1>0, <2>1, T!TakeOff, NAssumption, UsersAssumption, GarbageAssumption, HashAssumption
          DEF T!NoUser
<1>3. nx \in [Slots -> 0 .. N] /\ pv \in [Slots -> 0 .. N]
  BY DEF Ringed
<1> HIDE DEF m
<1> DEFINE kp == IF k = 1 THEN n ELSE k - 1
           kn == IF k = n THEN 1 ELSE k + 1
<1>4. n \in Nat /\ n >= 1 /\ k \in Nat /\ 1 <= k /\ k <= n /\ kp \in 1 .. n /\ kn \in 1 .. n /\ k \in 1 .. n
  BY <1>0
<1>5. p = l[kp] /\ q = l[kn]
  BY <1>0, <1>4
<1>6. p \in Slots /\ q \in Slots /\ s \in Slots
  BY <1>0, <1>4, <1>5
<1>7. /\ nx2[p] = q /\ \A t \in Slots \ {p} : nx2[t] = nx[t]
      /\ pv2[q] = p /\ \A t \in Slots \ {q} : pv2[t] = pv[t]
      /\ nx2 \in [Slots -> 0 .. N] /\ pv2 \in [Slots -> 0 .. N]
  <2>1. p \in 0 .. N /\ q \in 0 .. N
    BY <1>6, NAssumption DEF Slots
  <2> HIDE DEF p, q
  <2> QED BY <1>3, <1>6, <2>1
<1> HIDE DEF nx2, pv2, p, q
<1>8. /\ \A j \in 1 .. n : j # kp => nx2[l[j]] = (IF j = n THEN l[1] ELSE l[j + 1])
      /\ \A j \in 1 .. n : j # kn => pv2[l[j]] = (IF j = 1 THEN l[n] ELSE l[j - 1])
      /\ nx2[l[kp]] = l[kn] /\ pv2[l[kn]] = l[kp]
  <2>1. ASSUME NEW j \in 1 .. n, j # kp PROVE nx2[l[j]] = nx[l[j]]
    <3>1. l[j] # p /\ l[j] \in Slots
      BY <1>0, <1>4, <1>5, <2>1
    <3> QED BY <3>1, <1>7
  <2>2. ASSUME NEW j \in 1 .. n, j # kn PROVE pv2[l[j]] = pv[l[j]]
    <3>1. l[j] # q /\ l[j] \in Slots
      BY <1>0, <1>4, <1>5, <2>2
    <3> QED BY <3>1, <1>7
  <2>3. ASSUME NEW j \in 1 .. n, j # kp PROVE nx2[l[j]] = (IF j = n THEN l[1] ELSE l[j + 1])
    <3>1. nx2[l[j]] = nx[l[j]]
      BY <2>1, <2>3
    <3> QED BY <3>1, <1>0
  <2>4. ASSUME NEW j \in 1 .. n, j # kn PROVE pv2[l[j]] = (IF j = 1 THEN l[n] ELSE l[j - 1])
    <3>1. pv2[l[j]] = pv[l[j]]
      BY <2>2, <2>4
    <3> QED BY <3>1, <1>0
  <2>5. nx2[l[kp]] = l[kn] /\ pv2[l[kn]] = l[kp]
    BY <1>5, <1>7
  <2> QED BY <2>3, <2>4, <2>5
<1>9. CASE n = 1
  <2>1. k = 1 /\ s = l[1] /\ q = s /\ first2 = 0
    BY <1>0, <1>4, <1>5, <1>9
  <2>2. m = <<>> /\ Len(m) = 0
    BY <1>1, <1>9
  <2>3. \A j \in 1 .. 0 : FALSE
    OBVIOUS
  <2> HIDE DEF first2, n
  <2>4. Linked(Slots, nx2, first2, first2, m)
    BY <1>1, <1>2, <2>1, <2>2, <2>3 DEF Linked
  <2>5. Ringed(nx2, pv2, first2, m)
    BY <1>7, <2>2, <2>3, <2>4 DEF Ringed
  <2> QED BY <2>5 DEF m, nx2, pv2, p, q, first2
<1>10. CASE n > 1
  <2>1. /\ \A j \in 1 .. n - 1 : j < k => m[j] = l[j]
        /\ \A j \in 1 .. n - 1 : ~(j < k) => m[j] = l[j + 1]
    BY <1>1
  <2>2. 1 \in 1 .. n - 1 /\ n - 1 \in 1 .. n - 1 /\ (n - 1) + 1 = n
    BY <1>4, <1>10
  <2>3. m[1] = (IF k = 1 THEN l[2] ELSE l[1]) /\ m[n - 1] = (IF k = n THEN l[n - 1] ELSE l[n])
    <3>1. 1 < k <=> k # 1
      BY <1>4
    <3>2. n - 1 < k <=> k = n
      BY <1>4
    <3>3. k = 1 => m[1] = l[1 + 1]
      BY <2>1, <2>2
    <3>4. k # n => m[n - 1] = l[(n - 1) + 1]
      BY <2>1, <2>2, <3>2
    <3>5. k # 1 => m[1] = l[1]
      BY <2>1, <2>2, <3>1
    <3>6. k = n => m[n - 1] = l[n - 1]
      BY <2>1, <2>2, <3>2
    <3>7. 1 + 1 = 2
      OBVIOUS
    <3> HIDE DEF n
    <3> QED BY <2>2, <3>3, <3>4, <3>5, <3>6, <3>7
  <2>4. ASSUME NEW j \in 1 .. n - 1
        PROVE  nx2[m[j]] = (IF j = n - 1 THEN m[1] ELSE m[j + 1])
    <3>0. j \in Nat /\ 1 <= j /\ j <= n - 1 /\ j \in 1 .. n /\ j + 1 \in 1 .. n
      BY <1>4
    <3>1. CASE j < k
      <4>1. m[j] = l[j] /\ j # n
        BY <1>4, <2>1, <3>0, <3>1
      <4>2. CASE j = k - 1 /\ j = n - 1
        <5>1. kp = j /\ kn = 1 /\ k # 1
          BY <1>4, <3>0, <4>2
        <5> QED BY <1>8, <2>3, <4>1, <4>2, <5>1
      <4>3. CASE j = k - 1 /\ j # n - 1
        <5>1. kp = j /\ kn = (j + 1) + 1 /\ j + 1 \in 1 .. n - 1 /\ ~(j + 1 < k)
          BY <1>4, <3>0, <4>3
        <5>2. m[j + 1] = l[(j + 1) + 1]
          BY <2>1, <5>1
        <5> QED BY <1>8, <4>1, <4>3, <5>1, <5>2
      <4>4. CASE j # k - 1
        <5>1. j # kp /\ j + 1 \in 1 .. n - 1 /\ j + 1 < k /\ j # n - 1
          BY <1>4, <3>0, <3>1, <4>1, <4>4
        <5>2. m[j + 1] = l[j + 1]
          BY <2>1, <5>1
        <5> QED BY <1>8, <3>0, <4>1, <5>1, <5>2
      <4> QED BY <4>2, <4>3, <4>4
    <3>2. CASE ~(j < k)
      <4>1. m[j] = l[j + 1]
        BY <2>1, <3>2
      <4>2. CASE k = 1 /\ j = n - 1
        <5>1. kp = j + 1 /\ kn = 2
          BY <1>4, <1>10, <4>2
        <5> QED BY <1>8, <2>3, <4>1, <4>2, <5>1
      <4>3. CASE k # 1 /\ j = n - 1
        <5>1. kp # j + 1 /\ j + 1 = n
          BY <1>4, <3>0, <3>2, <4>3
        <5>2. nx2[l[j + 1]] = l[1]
          BY <1>8, <3>0, <5>1
        <5> QED BY <2>3, <4>1, <4>3, <5>2
      <4>4. CASE j # n - 1
        <5>1. kp # j + 1 /\ j + 1 # n /\ j + 1 \in 1 .. n - 1 /\ ~(j + 1 < k)
          BY <1>4, <3>0, <3>2, <4>4
        <5>2. m[j + 1] = l[(j + 1) + 1]
          BY <2>1, <5>1
        <5>3. nx2[l[j + 1]] = l[(j + 1) + 1]
          BY <1>8, <3>0, <5>1
        <5> QED BY <4>1, <4>4, <5>2, <5>3
      <4> QED BY <4>2, <4>3, <4>4
    <3> QED BY <3>1, <3>2
  <2>5. ASSUME NEW j \in 1 .. n - 1
        PROVE  pv2[m[j]] = (IF j = 1 THEN m[n - 1] ELSE m[j - 1])
    <3>0. j \in Nat /\ 1 <= j /\ j <= n - 1 /\ j \in 1 .. n /\ j + 1 \in 1 .. n
      BY <1>4
    <3>1. CASE j < k
      <4>1. m[j] = l[j] /\ k # 1
        BY <1>4, <2>1, <3>0, <3>1
      <4>2. CASE j = 1 /\ k = n
        <5>1. kn = 1 /\ kp = n - 1
          BY <4>1, <4>2
        <5> QED BY <1>8, <2>3, <4>1, <4>2, <5>1
      <4>3. CASE j = 1 /\ k # n
        <5>1. kn # 1
          BY <1>4, <4>3
        <5> QED BY <1>8, <2>3, <3>0, <4>1, <4>3, <5>1
      <4>4. CASE j # 1
        <5>1. j # kn /\ j - 1 \in 1 .. n - 1 /\ j - 1 < k
          BY <1>4, <3>0, <3>1, <4>4
        <5>2. m[j - 1] = l[j - 1]
          BY <2>1, <5>1
        <5> QED BY <1>8, <3>0, <4>1, <4>4, <5>1, <5>2
      <4> QED BY <4>2, <4>3, <4>4
    <3>2. CASE ~(j < k)
      <4>1. m[j] = l[j + 1] /\ k # n
        BY <1>4, <2>1, <3>0, <3>2
      <4>2. CASE j = k /\ k = 1
        <5>1. kn = j + 1 /\ kp = n
          BY <4>1, <4>2
        <5> QED BY <1>8, <2>3, <4>1, <4>2, <5>1
      <4>3. CASE j = k /\ k # 1
        <5>1. kn = j + 1 /\ kp = j - 1 /\ j - 1 \in 1 .. n - 1 /\ j - 1 < k
          BY <1>4, <3>0, <4>1, <4>3
        <5>2. m[j - 1] = l[j - 1]
          BY <2>1, <5>1
        <5> QED BY <1>8, <4>1, <4>3, <5>1, <5>2
      <4>4. CASE j # k
        <5>1. kn # j + 1 /\ j # 1 /\ j - 1 \in 1 .. n - 1 /\ ~(j - 1 < k) /\ (j - 1) + 1 = j
              /\ j + 1 # 1 /\ (j + 1) - 1 = j
          BY <1>4, <3>0, <3>2, <4>1, <4>4
        <5>2. m[j - 1] = l[j]
          <6>1. m[j - 1] = l[(j - 1) + 1]
            BY <2>1, <5>1
          <6> QED BY <5>1, <6>1
        <5>3. pv2[l[j + 1]] = l[j]
          <6>1. pv2[l[j + 1]] = l[(j + 1) - 1]
            BY <1>8, <3>0, <5>1
          <6> QED BY <5>1, <6>1
        <5> QED BY <4>1, <5>1, <5>2, <5>3
      <4> QED BY <4>2, <4>3, <4>4
    <3> QED BY <3>1, <3>2
  <2>6. first2 = m[1] /\ m # <<>> /\ Len(m) = n - 1
    <3>1. first = s <=> k = 1
      BY <1>0, <1>4
    <3>2. k = 1 => q = l[2] /\ q # s
      <4> SUFFICES ASSUME k = 1 PROVE q = l[2] /\ q # s
        OBVIOUS
      <4>1. kn = 2 /\ 2 \in 1 .. n
        BY <1>4, <1>10
      <4> QED BY <1>0, <1>4, <1>5, <4>1
    <3> QED BY <1>0, <1>1, <1>4, <1>10, <2>3, <3>1, <3>2
  <2> HIDE DEF n, first2
  <2>7. Linked(Slots, nx2, first2, first2, m)
    BY <1>1, <1>2, <2>4, <2>6 DEF Linked
  <2>8. \A j \in 1 .. Len(m) : pv2[m[j]] = (IF j = 1 THEN m[Len(m)] ELSE m[j - 1])
    BY <2>5, <2>6
  <2>9. Ringed(nx2, pv2, first2, m)
    BY <1>7, <2>7, <2>8 DEF Ringed
  <2> QED BY <2>9 DEF m, nx2, pv2, p, q, first2
<1>11. n = 1 \/ n > 1
  BY <1>4
<1> HIDE DEF n
<1> QED BY <1>9, <1>10, <1>11

-----------------------------------------------------------------------------
(* The links stand for the lists that are read from them.                    *)
LinksInv ==
  /\ hashhead \in [Buckets -> 0 .. N] /\ next \in [Slots -> 0 .. N]
  /\ \A h \in Buckets : Linked(Slots, next, hashhead[h], 0, ChainOf(h))
  /\ Ringed(list_next, list_prev, listhead, RingOf)
  /\ T!TableInv

LEMMA SameNames ==
  /\ T!Slots = Slots /\ T!Buckets = Buckets /\ T!NoUser = 0
  /\ 0 \in Buckets /\ \A u \in Users : Hash[u] \in Buckets /\ Hash[u] # 0
BY HashAssumption DEF T!Slots, Slots, T!Buckets, Buckets, T!NoUser

(* Which slots are on which list. *)
LEMMA WhichList ==
  ASSUME LinksInv
  PROVE  /\ T!Online \subseteq Slots
         /\ T!Range(ChainOf(0)) = Slots \ T!Online
         /\ \A h \in Buckets \ {0} :
              T!Range(ChainOf(h)) = {s \in T!Online : Hash[uinfo[s].user] = h}
         /\ T!Range(RingOf) = T!Online
BY SameNames DEF LinksInv, T!TableInv, T!ChainsPartition, T!RingSorted, T!Online

LEMMA NewIsAlloc ==
  ASSUME LinksInv, NEW u \in Users, NEW p \in Pids, New(u, p)
  PROVE  /\ T!Alloc(u, p)
         /\ hashhead' \in [Buckets -> 0 .. N] /\ next' \in [Slots -> 0 .. N]
         /\ \A h \in Buckets : Linked(Slots, next', hashhead'[h], 0, ChainOf(h)')
         /\ Ringed(list_next', list_prev', listhead', RingOf')
<1> DEFINE pos == hashhead[0]  k == Hash[u]
<1>0. /\ pos # 0 /\ RingInsert(pos, u)
      /\ uinfo' = [uinfo EXCEPT ![pos] = [active |-> TRUE, user |-> u, pid |-> p]]
      /\ next' = [next EXCEPT ![pos] = hashhead[k]]
      /\ hashhead' = [hashhead EXCEPT ![0] = next[pos], ![k] = pos]
      /\ number' = number + 1
  BY DEF New
<1>1. /\ hashhead \in [Buckets -> 0 .. N] /\ next \in [Slots -> 0 .. N]
      /\ 0 \in Buckets /\ k \in Buckets /\ k # 0
      /\ \A h \in Buckets : Linked(Slots, next, hashhead[h], 0, ChainOf(h))
  BY SameNames DEF LinksInv
<1>2. ChainOf(0) # <<>> /\ pos = Head(ChainOf(0)) /\ pos \in T!Range(ChainOf(0))
  <2>1. Linked(Slots, next, pos, 0, ChainOf(0))
    BY <1>1
  <2>2. ChainOf(0) # <<>> /\ pos = ChainOf(0)[1] /\ ChainOf(0) \in Seq(Slots)
    BY <1>0, <2>1 DEF Linked
  <2>3. 1 \in 1 .. Len(ChainOf(0)) /\ ChainOf(0)[1] = Head(ChainOf(0))
    BY <2>2
  <2> QED BY <2>2, <2>3, ListRange
<1>3. /\ pos \in Slots /\ pos \notin T!Online
      /\ \A h \in Buckets \ {0} : pos \notin T!Range(ChainOf(h))
      /\ pos \notin T!Range(RingOf)
  BY <1>2, WhichList
<1>4. pos \in 0 .. N
  BY <1>3, NAssumption DEF Slots
<1> HIDE DEF pos
<1>5. hashhead' \in [Buckets -> 0 .. N] /\ next' \in [Slots -> 0 .. N]
  BY <1>0, <1>1, <1>3, <1>4
<1>6. /\ hashhead'[0] = next[pos] /\ hashhead'[k] = pos
      /\ \A h \in Buckets \ {0, k} : hashhead'[h] = hashhead[h]
      /\ next'[pos] = hashhead[k] /\ \A s \in Slots \ {pos} : next'[s] = next[s]
  BY <1>0, <1>1, <1>3
<1>7. ASSUME NEW h \in Buckets PROVE T!Range(ChainOf(h)) \subseteq Slots
  BY <1>3, WhichList, SameNames
<1>8. Linked(Slots, next', hashhead'[0], 0, Tail(ChainOf(0)))
  <2>1. Linked(Slots, next, pos, 0, ChainOf(0))
    BY <1>1 DEF pos
  <2>2. \A s \in T!Range(ChainOf(0)) \ {pos} : next'[s] = next[s]
    BY <1>1, <1>6, <1>7
  <2> QED BY <1>2, <1>6, <2>1, <2>2, LinkedPop
<1>9. Linked(Slots, next', hashhead'[k], 0, <<pos>> \o ChainOf(k))
  <2>1. Linked(Slots, next, hashhead[k], 0, ChainOf(k)) /\ pos \notin T!Range(ChainOf(k))
    BY <1>1, <1>3
  <2>2. \A s \in T!Range(ChainOf(k)) : next'[s] = next[s]
    BY <1>1, <1>6, <1>7, <2>1
  <2> QED BY <1>3, <1>6, <2>1, <2>2, LinkedPush
<1>10. ASSUME NEW h \in Buckets \ {0, k} PROVE Linked(Slots, next', hashhead'[h], 0, ChainOf(h))
  <2>1. \A s \in T!Range(ChainOf(h)) : next'[s] = next[s]
    BY <1>3, <1>6, <1>7
  <2> QED BY <1>1, <1>6, <2>1, LinkedSame
<1>11. /\ ChainOf(0)' = Tail(ChainOf(0)) /\ ChainOf(k)' = <<pos>> \o ChainOf(k)
       /\ \A h \in Buckets \ {0, k} : ChainOf(h)' = ChainOf(h)
  <2>1. \A h \in Buckets : \A l : Linked(Slots, next', hashhead'[h], 0, l) => ChainOf(h)' = l
    BY FollowFinds DEF ChainOf
  <2> QED BY <1>1, <1>8, <1>9, <1>10, <2>1
<1>12. \A h \in Buckets : Linked(Slots, next', hashhead'[h], 0, ChainOf(h)')
  BY <1>8, <1>9, <1>10, <1>11
<1> DEFINE r == RingOf  q == T!Place(u)  m == T!InsertAt(r, q, pos)
<1>13. /\ q \in 1 .. Len(r) + 1
       /\ \A i \in 1 .. q - 1 : ~(u <= uinfo[r[i]].user)
       /\ q \in DOMAIN r => u <= uinfo[r[q]].user
  BY T!PlaceType, NAssumption, UsersAssumption, GarbageAssumption, HashAssumption
     DEF T!NoUser, LinksInv, T!TableInv, T!TableTypes
<1>14. Ringed(list_next, list_prev, listhead, r)
  BY DEF LinksInv
<1>15. r \in Seq(Slots) /\ Len(r) \in Nat /\ DOMAIN r = 1 .. Len(r) /\ (listhead = 0 <=> r = <<>>)
  <2>1. r \in Seq(Slots) /\ listhead = (IF r = <<>> THEN 0 ELSE r[1])
    BY <1>14 DEF Ringed, Linked
  <2>2. r # <<>> => r[1] \in Slots
    BY <2>1
  <2> QED BY <2>1, <2>2 DEF Slots
<1>16. Ringed(list_next', list_prev', listhead', m)
  <2>1. CASE listhead = 0
    <3>1. /\ listhead' = pos /\ list_prev' = [list_prev EXCEPT ![pos] = pos]
          /\ list_next' = [list_next EXCEPT ![pos] = pos]
      BY <1>0, <2>1 DEF RingInsert
    <3>2. r = <<>> /\ Len(r) = 0 /\ q = 1
      BY <1>13, <1>15, <2>1
    <3>3. m = <<pos>>
      <4>0. ASSUME NEW l \in Seq(Slots), NEW j \in 1 .. Len(l) + 1
            PROVE  /\ T!InsertAt(l, j, pos) \in Seq(Slots)
                   /\ Len(T!InsertAt(l, j, pos)) = Len(l) + 1
                   /\ T!InsertAt(l, j, pos)[j] = pos
        BY <1>3, <4>0, T!PutIn, NAssumption, UsersAssumption, GarbageAssumption,
           HashAssumption DEF T!NoUser
      <4> HIDE DEF r, q
      <4>1. 1 \in 1 .. Len(r) + 1 /\ q = 1 /\ Len(r) + 1 = 1
        BY <3>2
      <4>2. m \in Seq(Slots) /\ Len(m) = 1 /\ m[1] = pos
        BY <1>15, <4>0, <4>1
      <4> HIDE DEF m
      <4> QED BY <4>2
    <3>4. list_next \in [Slots -> 0 .. N] /\ list_prev \in [Slots -> 0 .. N]
      BY <1>14 DEF Ringed
    <3> QED BY <1>3, <3>1, <3>3, <3>4, RingOne
  <2>2. CASE listhead # 0
    <3> DEFINE i == Before(u)
    <3>1. /\ list_prev' = [list_prev EXCEPT ![pos] = list_prev[i], ![i] = pos]
          /\ list_next' = [list_next EXCEPT ![pos] = i, ![list_prev[i]] = pos]
          /\ listhead' = IF u <= uinfo[listhead].user THEN pos ELSE listhead
      BY <1>0, <2>2 DEF RingInsert
    <3>2. r # <<>> /\ listhead = r[1] /\ Len(r) \in Nat \ {0} /\ 1 \in DOMAIN r
      <4> HIDE DEF r
      <4>1. r # <<>> /\ r \in Seq(Slots)
        BY <1>15, <2>2
      <4>2. listhead = r[1]
        BY <1>14, <4>1 DEF Ringed, Linked
      <4> QED BY <1>15, <4>1, <4>2
    <3> DEFINE notLess == {j \in DOMAIN r : u <= uinfo[r[j]].user}
    <3>3. i = (IF q = Len(r) + 1 THEN r[1] ELSE r[q])
      <4>1. CASE notLess = {}
        <5>1. i = listhead /\ q = Len(r) + 1
          BY <4>1 DEF Before, T!Place
        <5> QED BY <5>1, <3>2
      <4>2. CASE notLess # {}
        <5>1. i = r[q]
          BY <4>2 DEF Before, T!Place
        <5>2. q # Len(r) + 1
          <6>1. PICK j \in DOMAIN r : u <= uinfo[r[j]].user
            BY <4>2
          <6>2. q = Len(r) + 1 => j \in 1 .. q - 1
            BY <1>15
          <6> QED BY <6>1, <6>2, <1>13
        <5> QED BY <5>1, <5>2
      <4> QED BY <4>1, <4>2
    <3>4. u <= uinfo[listhead].user <=> q = 1
      <4>1. q # 1 => 1 \in 1 .. q - 1
        BY <1>13, <1>15
      <4> QED BY <4>1, <1>13, <3>2
    <3>5. listhead' = IF q = 1 THEN pos ELSE listhead
      BY <3>1, <3>4
    <3> HIDE DEF i, q, r
    <3>6. pos \notin T!Range(r)
      BY <1>3 DEF r
    <3>7. Ringed([list_next EXCEPT ![pos] = i, ![list_prev[i]] = pos],
                 [list_prev EXCEPT ![pos] = list_prev[i], ![i] = pos],
                 IF q = 1 THEN pos ELSE listhead, m)
      BY <1>3, <1>13, <1>14, <3>2, <3>3, <3>6, RingPut
    <3> QED BY <3>1, <3>5, <3>7
  <2> QED BY <2>1, <2>2
<1> HIDE DEF m
<1>17. RingOf' = m
  BY <1>16, FollowFinds DEF Ringed, RingOf
<1>18. T!Granted = pos /\ [h \in Buckets |-> ChainOf(h)][0] # <<>>
  BY <1>1, <1>2 DEF T!Granted
<1>19. [h \in Buckets |-> ChainOf(h)]' =
         [[h \in Buckets |-> ChainOf(h)] EXCEPT ![0] = Tail(@), ![k] = <<pos>> \o @]
  <2> DEFINE c == [h \in Buckets |-> ChainOf(h)]
             d == [c EXCEPT ![0] = Tail(@), ![k] = <<pos>> \o @]
             e == [h \in Buckets |-> ChainOf(h)']
  <2>1. DOMAIN c = Buckets /\ \A h \in Buckets : c[h] = ChainOf(h)
    OBVIOUS
  <2> HIDE DEF c
  <2>2. d = [h \in Buckets |-> IF h = k THEN <<pos>> \o ChainOf(h)
                               ELSE IF h = 0 THEN Tail(ChainOf(h)) ELSE ChainOf(h)]
    BY <1>1, <2>1
  <2>3. \A h \in Buckets : ChainOf(h)' = (IF h = k THEN <<pos>> \o ChainOf(h)
                               ELSE IF h = 0 THEN Tail(ChainOf(h)) ELSE ChainOf(h))
    BY <1>1, <1>11
  <2> HIDE DEF d
  <2>4. e = d
    BY <2>2, <2>3
  <2> QED BY <2>4 DEF c, d
<1>20. T!Alloc(u, p)
  BY <1>0, <1>17, <1>18, <1>19 DEF T!Alloc, m
<1> QED BY <1>5, <1>12, <1>16, <1>17, <1>20

LEMMA ClearIsFree ==
  ASSUME LinksInv, NEW s \in Slots, uinfo[s].active, Clear(s)
  PROVE  /\ T!Free(s)
         /\ hashhead' \in [Buckets -> 0 .. N] /\ next' \in [Slots -> 0 .. N]
         /\ \A h \in Buckets : Linked(Slots, next', hashhead'[h], 0, ChainOf(h)')
         /\ Ringed(list_next', list_prev', listhead', RingOf')
<1> DEFINE h == Hash[uinfo[s].user]  l == ChainOf(h)  m == T!RemoveFirst(l, s)
<1>0. /\ hashhead' = IF hashhead[h] = s THEN [hashhead EXCEPT ![h] = next[s], ![0] = s]
                                        ELSE [hashhead EXCEPT ![0] = s]
      /\ next' = IF hashhead[h] = s THEN [next EXCEPT ![s] = hashhead[0]]
                 ELSE [next EXCEPT ![Pred(s)] = next[s], ![s] = hashhead[0]]
      /\ listhead' = IF listhead # s THEN listhead
                     ELSE IF list_next[s] = s THEN 0 ELSE list_next[s]
      /\ list_next' = [list_next EXCEPT ![list_prev[s]] = list_next[s]]
      /\ list_prev' = [list_prev EXCEPT ![list_next[s]] = list_prev[s]]
      /\ number' = IF uinfo[s].active THEN number - 1 ELSE number
      /\ \E u \in Garbage :
           uinfo' = [uinfo EXCEPT ![s] = [active |-> FALSE, user |-> u, pid |-> 0]]
  BY DEF Clear
<1>1. s \in T!Online /\ uinfo[s].user \in Users
  BY SameNames DEF LinksInv, T!TableInv, T!TableTypes, T!Online, T!Active
<1>2. /\ hashhead \in [Buckets -> 0 .. N] /\ next \in [Slots -> 0 .. N]
      /\ 0 \in Buckets /\ h \in Buckets /\ h # 0
      /\ \A b \in Buckets : Linked(Slots, next, hashhead[b], 0, ChainOf(b))
  BY <1>1, SameNames DEF LinksInv
<1>3. /\ s \in T!Range(l) /\ s \notin T!Range(ChainOf(0))
      /\ \A b \in Buckets \ {h} : T!Range(l) \cap T!Range(ChainOf(b)) = {}
      /\ \A b \in Buckets : T!Range(ChainOf(b)) \subseteq Slots
  <2>1. T!Range(l) = {t \in T!Online : Hash[uinfo[t].user] = h} /\ T!Range(ChainOf(0)) = Slots \ T!Online
    BY <1>2, WhichList
  <2>2. \A b \in Buckets \ {0, h} : T!Range(ChainOf(b)) = {t \in T!Online : Hash[uinfo[t].user] = b}
    BY WhichList
  <2>3. s \in T!Range(l) /\ s \notin T!Range(ChainOf(0))
    BY <1>1, <2>1
  <2> HIDE DEF l, h
  <2>4. ASSUME NEW b \in Buckets \ {h} PROVE T!Range(l) \cap T!Range(ChainOf(b)) = {}
    <3>1. CASE b = 0
      BY <2>1, <3>1
    <3>2. CASE b # 0
      <4>1. T!Range(ChainOf(b)) = {t \in T!Online : Hash[uinfo[t].user] = b}
        BY <2>2, <3>2
      <4> QED BY <2>1, <4>1
    <3> QED BY <3>1, <3>2
  <2>5. ASSUME NEW b \in Buckets PROVE T!Range(ChainOf(b)) \subseteq Slots
    <3>1. T!Online \subseteq Slots
      BY WhichList
    <3>2. CASE b = h
      BY <2>1, <3>1, <3>2 DEF l
    <3>3. CASE b = 0
      BY <2>1, <3>3
    <3>4. CASE b \notin {0, h}
      BY <2>2, <3>1, <3>4
    <3> QED BY <3>2, <3>3, <3>4
  <2> QED BY <2>3, <2>4, <2>5
<1>4. l \in Seq(Slots) /\ T!IsInjective(l) /\ Len(l) \in Nat /\ DOMAIN l = 1 .. Len(l)
      /\ (\A i, j \in 1 .. Len(l) : l[i] = l[j] => i = j)
      /\ Linked(Slots, next, hashhead[h], 0, l) /\ (l # <<>> => hashhead[h] = l[1])
  <2>1. Linked(Slots, next, hashhead[h], 0, l)
    BY <1>2
  <2>2. l \in Seq(Slots) /\ T!IsInjective(l) /\ (l # <<>> => hashhead[h] = l[1])
    BY <2>1 DEF Linked
  <2> QED BY <2>1, <2>2 DEF T!IsInjective
<1>5. PICK k \in 1 .. Len(l) : l[k] = s
  BY <1>3, <1>4, ListRange
<1>6. l # <<>> /\ 1 \in 1 .. Len(l) /\ (hashhead[h] = s <=> k = 1)
  BY <1>4, <1>5
<1>7. s \in 0 .. N
  BY NAssumption DEF Slots
<1> HIDE DEF h, l, m
<1> DEFINE Moved == /\ hashhead' \in [Buckets -> 0 .. N] /\ next' \in [Slots -> 0 .. N]
                    /\ Linked(Slots, next', hashhead'[h], 0, m)
                    /\ Linked(Slots, next', hashhead'[0], 0, <<s>> \o ChainOf(0))
                    /\ \A b \in Buckets \ {0, h} : Linked(Slots, next', hashhead'[b], 0, ChainOf(b))
<1>8. ASSUME k = 1 PROVE Moved
  <2>1. /\ hashhead' = [hashhead EXCEPT ![h] = next[s], ![0] = s]
        /\ next' = [next EXCEPT ![s] = hashhead[0]]
    BY <1>0, <1>6, <1>8 DEF h
  <2>2. hashhead' \in [Buckets -> 0 .. N] /\ next' \in [Slots -> 0 .. N]
    BY <1>2, <1>7, <2>1
  <2>3. /\ hashhead'[0] = s /\ hashhead'[h] = next[s]
        /\ \A b \in Buckets \ {0, h} : hashhead'[b] = hashhead[b]
        /\ next'[s] = hashhead[0] /\ \A t \in Slots \ {s} : next'[t] = next[t]
    BY <1>2, <2>1
  <2>4. Linked(Slots, next', hashhead'[h], 0, Tail(l))
    <3>1. \A t \in T!Range(l) \ {s} : next'[t] = next[t]
      BY <1>2, <1>3, <2>3 DEF l
    <3> QED BY <1>4, <1>6, <1>8, <2>3, <3>1, LinkedPop
  <2>5. Tail(l) = m
    <3>1. /\ m \in Seq(Slots) /\ Len(m) = Len(l) - 1
          /\ \A i \in 1 .. Len(l) - 1 : m[i] = IF i < k THEN l[i] ELSE l[i + 1]
      <4> DEFINE c == T!RemoveFirst(l, l[k])
      <4>0. l \in Seq(Slots) /\ T!IsInjective(l) /\ k \in 1 .. Len(l)
        BY <1>4, <1>5
      <4>1. /\ c \in Seq(Slots) /\ Len(c) = Len(l) - 1
            /\ \A i \in 1 .. Len(l) - 1 : c[i] = IF i < k THEN l[i] ELSE l[i + 1]
        BY <4>0, T!MovedUp, NAssumption, UsersAssumption, GarbageAssumption, HashAssumption
           DEF T!NoUser
      <4>2. c = m
        BY <1>5 DEF m
      <4> QED BY <4>1, <4>2
    <3>2. \A i \in 1 .. Len(l) - 1 : ~(i < k)
      BY <1>4, <1>8
    <3>3. Tail(l) \in Seq(Slots) /\ Len(Tail(l)) = Len(l) - 1
          /\ \A i \in 1 .. Len(l) - 1 : Tail(l)[i] = l[i + 1]
      BY <1>4, <1>6
    <3> QED BY <1>4, <3>1, <3>2, <3>3
  <2>6. Linked(Slots, next', hashhead'[0], 0, <<s>> \o ChainOf(0))
    <3>1. \A t \in T!Range(ChainOf(0)) : next'[t] = next[t]
      BY <1>2, <1>3, <2>3
    <3> QED BY <1>2, <1>3, <2>3, <3>1, LinkedPush
  <2>7. ASSUME NEW b \in Buckets \ {0, h} PROVE Linked(Slots, next', hashhead'[b], 0, ChainOf(b))
    <3>1. \A t \in T!Range(ChainOf(b)) : next'[t] = next[t]
      BY <1>3, <2>3
    <3> QED BY <1>2, <2>3, <3>1, LinkedSame
  <2> QED BY <2>2, <2>4, <2>5, <2>6, <2>7
<1>9. ASSUME k # 1 PROVE Moved
  <2>1. k \in 2 .. Len(l) /\ k - 1 \in 1 .. Len(l) /\ k - 1 \in 1 .. Len(l) - 1 /\ (k - 1) + 1 = k
    BY <1>4, <1>9
  <2>2. Pred(s) = l[k - 1]
    <3>1. \A i \in 1 .. Len(l) - 1 : l[i + 1] = s <=> i = k - 1
      <4> TAKE i \in 1 .. Len(l) - 1
      <4>1. i + 1 \in 1 .. Len(l) /\ (i + 1 = k <=> i = k - 1)
        BY <1>4, <2>1
      <4> QED BY <1>4, <1>5, <4>1
    <3>2. (CHOOSE i \in 1 .. Len(l) - 1 : l[i + 1] = s) = k - 1
      BY <2>1, <3>1
    <3>3. Pred(s) = l[CHOOSE i \in 1 .. Len(l) - 1 : l[i + 1] = s]
      BY DEF Pred, l, h
    <3> QED BY <3>2, <3>3
  <2> DEFINE p == l[k - 1]
  <2>3. p \in T!Range(l) /\ p \in Slots /\ p # s
    BY <1>4, <1>5, <2>1, ListRange
  <2>4. /\ hashhead' = [hashhead EXCEPT ![0] = s]
        /\ next' = [next EXCEPT ![p] = next[s], ![s] = hashhead[0]]
    BY <1>0, <1>6, <1>9, <2>2 DEF h
  <2> HIDE DEF p
  <2>5. hashhead' \in [Buckets -> 0 .. N] /\ next' \in [Slots -> 0 .. N]
    BY <1>2, <1>7, <2>3, <2>4
  <2>6. /\ hashhead'[0] = s /\ \A b \in Buckets \ {0} : hashhead'[b] = hashhead[b]
        /\ next'[s] = hashhead[0] /\ next'[p] = next[s]
        /\ \A t \in Slots \ {s, p} : next'[t] = next[t]
    BY <1>2, <2>3, <2>4
  <2>7. Linked(Slots, next', hashhead'[h], 0, m)
    <3>1. \A t \in T!Range(l) \ {l[k - 1], l[k]} : next'[t] = next[t]
      BY <1>2, <1>3, <1>5, <2>6 DEF l, p
    <3>2. next'[l[k - 1]] = next[l[k]]
      BY <1>5, <2>6 DEF p
    <3>3. Linked(Slots, next', hashhead[h], 0, T!RemoveFirst(l, l[k]))
      BY <1>4, <2>1, <3>1, <3>2, LinkedCut
    <3> QED BY <1>2, <1>5, <2>6, <3>3 DEF m
  <2>8. Linked(Slots, next', hashhead'[0], 0, <<s>> \o ChainOf(0))
    <3>1. \A t \in T!Range(ChainOf(0)) : next'[t] = next[t]
      BY <1>2, <1>3, <2>3, <2>6
    <3> QED BY <1>2, <1>3, <2>6, <3>1, LinkedPush
  <2>9. ASSUME NEW b \in Buckets \ {0, h} PROVE Linked(Slots, next', hashhead'[b], 0, ChainOf(b))
    <3>1. \A t \in T!Range(ChainOf(b)) : next'[t] = next[t]
      BY <1>3, <2>3, <2>6
    <3> QED BY <1>2, <2>6, <3>1, LinkedSame
  <2> QED BY <2>5, <2>7, <2>8, <2>9
<1>10. Moved
  BY <1>8, <1>9
<1>11. /\ ChainOf(0)' = <<s>> \o ChainOf(0)
       /\ \A b \in Buckets \ {0, h} : ChainOf(b)' = ChainOf(b)
       /\ \A b \in Buckets : b = h => ChainOf(b)' = m
  <2>1. \A b \in Buckets : \A c : Linked(Slots, next', hashhead'[b], 0, c) => ChainOf(b)' = c
    BY FollowFinds DEF ChainOf
  <2> QED BY <1>2, <1>10, <2>1
<1>12. \A b \in Buckets : Linked(Slots, next', hashhead'[b], 0, ChainOf(b)')
  BY <1>10, <1>11
<1>13. Ringed(list_next', list_prev', listhead', T!RemoveFirst(RingOf, s))
  <2>1. Ringed(list_next, list_prev, listhead, RingOf)
    BY DEF LinksInv
  <2>2. RingOf \in Seq(Slots) /\ s \in T!Range(RingOf)
    BY <1>1, <2>1, WhichList DEF Ringed, Linked
  <2>3. PICK j \in 1 .. Len(RingOf) : RingOf[j] = s
    BY <2>2, ListRange
  <2>4. Ringed([list_next EXCEPT ![list_prev[s]] = list_next[s]],
               [list_prev EXCEPT ![list_next[s]] = list_prev[s]],
               IF listhead # s THEN listhead ELSE IF list_next[s] = s THEN 0 ELSE list_next[s],
               T!RemoveFirst(RingOf, s))
    BY <2>1, <2>3, RingCut
  <2> QED BY <1>0, <2>4
<1>14. RingOf' = T!RemoveFirst(RingOf, s)
  BY <1>13, FollowFinds DEF Ringed, RingOf
<1>15. [b \in Buckets |-> ChainOf(b)]' = [T!Unchained(s) EXCEPT ![0] = <<s>> \o @]
  <2> DEFINE c == [b \in Buckets |-> ChainOf(b)]
             d == [c EXCEPT ![h] = T!RemoveFirst(@, s)]
             e == [d EXCEPT ![0] = <<s>> \o @]
             f == [b \in Buckets |-> ChainOf(b)']
  <2>1. DOMAIN c = Buckets /\ \A b \in Buckets : c[b] = ChainOf(b)
    OBVIOUS
  <2>2. T!Unchained(s) = d
    BY <1>1 DEF T!Unchained, h
  <2> HIDE DEF c
  <2>3. e = [b \in Buckets |-> IF b = 0 THEN <<s>> \o ChainOf(b)
                               ELSE IF b = h THEN m ELSE ChainOf(b)]
    BY <1>2, <2>1 DEF m, l
  <2>4. \A b \in Buckets : ChainOf(b)' = (IF b = 0 THEN <<s>> \o ChainOf(b)
                               ELSE IF b = h THEN m ELSE ChainOf(b))
    BY <1>2, <1>11
  <2> HIDE DEF e
  <2>5. f = e
    BY <2>3, <2>4
  <2> QED BY <2>2, <2>5 DEF c, e
<1>16. T!Free(s)
  BY <1>0, <1>14, <1>15 DEF T!Free, T!Active
<1> QED BY <1>10, <1>12, <1>13, <1>14, <1>16

LEMMA LinksInit == Init => LinksInv /\ T!TableInit
<1> SUFFICES ASSUME Init PROVE LinksInv /\ T!TableInit
  OBVIOUS
<1> DEFINE free == [i \in 1 .. N |-> i]
<1>0. /\ N \in Nat /\ N >= 1 /\ free \in Seq(Slots) /\ Len(free) = N
      /\ \A i \in 1 .. N : free[i] = i
  BY NAssumption DEF Slots
<1>1. /\ uinfo = [s \in Slots |-> [active |-> FALSE, user |-> NoUser, pid |-> 0]]
      /\ hashhead = [h \in Buckets |-> IF h = 0 THEN 1 ELSE 0]
      /\ next = [s \in Slots |-> IF s = N THEN 0 ELSE s + 1]
      /\ listhead = 0 /\ list_next = [s \in Slots |-> 0] /\ list_prev = [s \in Slots |-> 0]
      /\ number = 0
  BY DEF Init, Zeroed
<1> HIDE DEF free
<1>2. Linked(Slots, next, 1, 0, free)
  <2>1. T!IsInjective(free)
    <3>1. DOMAIN free = 1 .. N
      BY <1>0
    <3> QED BY <1>0, <3>1 DEF T!IsInjective
  <2>2. free # <<>> /\ free[1] = 1
    BY <1>0
  <2>3. \A i \in 1 .. Len(free) : next[free[i]] = (IF i = Len(free) THEN 0 ELSE free[i + 1])
    <3> SUFFICES ASSUME NEW i \in 1 .. N
                 PROVE next[i] = (IF i = N THEN 0 ELSE free[i + 1])
      BY <1>0
    <3>1. i \in Slots /\ next[i] = (IF i = N THEN 0 ELSE i + 1)
      BY <1>1 DEF Slots
    <3>2. i # N => i + 1 \in 1 .. N
      BY <1>0
    <3> QED BY <1>0, <3>1, <3>2
  <2> QED BY <1>0, <2>1, <2>2, <2>3 DEF Linked
<1>3. Len(<<>>) = 0 /\ <<>> \in Seq(Slots) /\ T!IsInjective(<<>>) /\ \A i \in 1 .. 0 : FALSE
  BY DEF T!IsInjective
<1>4. \A link, stop : Linked(Slots, link, 0, stop, <<>>)
  BY <1>3 DEF Linked
<1>5. ChainOf(0) = free /\ \A h \in Buckets \ {0} : ChainOf(h) = <<>>
  <2>1. hashhead[0] = 1 /\ \A h \in Buckets \ {0} : hashhead[h] = 0
    BY <1>1, SameNames
  <2> QED BY <1>2, <1>4, <2>1, FollowFinds DEF ChainOf
<1>6. RingOf = <<>>
  BY <1>1, <1>4, FollowFinds DEF RingOf
<1>7. hashhead \in [Buckets -> 0 .. N] /\ next \in [Slots -> 0 .. N]
  <2>1. \A s \in Slots : next[s] \in 0 .. N
    BY <1>0, <1>1 DEF Slots
  <2> QED BY <1>0, <1>1, <2>1
<1>8. \A h \in Buckets : Linked(Slots, next, hashhead[h], 0, ChainOf(h))
  BY <1>1, <1>2, <1>4, <1>5
<1>9. Ringed(list_next, list_prev, listhead, RingOf)
  <2>1. list_next \in [Slots -> 0 .. N] /\ list_prev \in [Slots -> 0 .. N]
    BY <1>0, <1>1
  <2> QED BY <1>1, <1>3, <1>4, <1>6, <2>1 DEF Ringed
<1>10. T!TableInit
  <2>1. [h \in Buckets |-> ChainOf(h)] = [h \in Buckets |-> IF h = 0 THEN [i \in 1 .. N |-> i] ELSE <<>>]
    BY <1>5 DEF free
  <2> QED BY <1>1, <1>6, <2>1, SameNames DEF T!TableInit, NoUser
<1>11. T!TableInv
  BY <1>10, T!TableInvInit, NAssumption, UsersAssumption, GarbageAssumption, HashAssumption
     DEF T!NoUser
<1> QED BY <1>7, <1>8, <1>9, <1>10, <1>11 DEF LinksInv

LEMMA LinksStep ==
  ASSUME LinksInv, [Next]_vars
  PROVE  LinksInv' /\ [T!TableNext]_(T!tableVars)
<1>0. T!TableInv
  BY DEF LinksInv
<1> DEFINE Lists == /\ hashhead' \in [Buckets -> 0 .. N] /\ next' \in [Slots -> 0 .. N]
                    /\ \A h \in Buckets : Linked(Slots, next', hashhead'[h], 0, ChainOf(h)')
                    /\ Ringed(list_next', list_prev', listhead', RingOf')
<1>1. ASSUME NEW u \in Users, NEW p \in Pids, New(u, p)
      PROVE  Lists /\ T!TableNext
  BY <1>1, NewIsAlloc DEF T!TableNext
<1>2. ASSUME NEW s \in Slots, uinfo[s].active, Clear(s)
      PROVE  Lists /\ T!TableNext
  <2>1. s \in T!Online
    BY <1>2, SameNames DEF T!Online, T!Active
  <2> QED BY <1>2, <2>1, ClearIsFree DEF T!TableNext
<1>3. ASSUME UNCHANGED vars
      PROVE  LinksInv' /\ UNCHANGED T!tableVars
  <2>1. /\ uinfo' = uinfo /\ hashhead' = hashhead /\ next' = next /\ listhead' = listhead
        /\ list_next' = list_next /\ list_prev' = list_prev /\ number' = number
    BY <1>3 DEF vars
  <2>2. (\A h \in Buckets : ChainOf(h)' = ChainOf(h)) /\ RingOf' = RingOf
    BY <2>1 DEF ChainOf, RingOf
  <2>3. UNCHANGED T!tableVars
    BY <2>1, <2>2 DEF T!tableVars
  <2>4. T!TableInv'
    BY <1>0, <2>3, T!TableInvStep, NAssumption, UsersAssumption, GarbageAssumption, HashAssumption
       DEF T!NoUser
  <2>5. LinksInv'
    <3>1. /\ hashhead \in [Buckets -> 0 .. N] /\ next \in [Slots -> 0 .. N]
          /\ \A h \in Buckets : Linked(Slots, next, hashhead[h], 0, ChainOf(h))
          /\ Ringed(list_next, list_prev, listhead, RingOf)
      BY DEF LinksInv
    <3>2. /\ hashhead' \in [Buckets -> 0 .. N] /\ next' \in [Slots -> 0 .. N]
      BY <2>1, <3>1
    <3>3. \A h \in Buckets : Linked(Slots, next', hashhead'[h], 0, ChainOf(h)')
      BY <2>1, <2>2, <3>1
    <3>4. Ringed(list_next', list_prev', listhead', RingOf')
      BY <2>1, <2>2, <3>1
    <3> QED BY <2>4, <3>2, <3>3, <3>4 DEF LinksInv
  <2> QED BY <2>3, <2>5
<1>4. ASSUME Lists, T!TableNext PROVE LinksInv' /\ T!TableNext
  <2>1. T!TableInv'
    BY <1>0, <1>4, T!TableInvStep, NAssumption, UsersAssumption, GarbageAssumption, HashAssumption
       DEF T!NoUser
  <2> QED BY <1>4, <2>1 DEF LinksInv
<1> QED BY <1>1, <1>2, <1>3, <1>4 DEF Next

(* The slots of the ring are the sessions, so the links of each undo each    *)
(* other.                                                                    *)
LEMMA BothWays ==
  ASSUME LinksInv
  PROVE  RingTwoWay
<1> SUFFICES ASSUME NEW s \in Slots, uinfo[s].active
             PROVE  list_prev[list_next[s]] = s /\ list_next[list_prev[s]] = s
  BY DEF RingTwoWay
<1> DEFINE r == RingOf
<1>1. Ringed(list_next, list_prev, listhead, r) /\ r \in Seq(Slots)
  BY DEF LinksInv, Ringed, Linked
<1>2. s \in T!Range(r)
  BY WhichList, SameNames DEF T!Online, T!Active
<1> HIDE DEF r
<1>3. PICK k \in 1 .. Len(r) : r[k] = s
  BY <1>1, <1>2, ListRange
<1>4. r # <<>>
  BY <1>3
<1>5. /\ Len(r) \in Nat \ {0}
      /\ \A i \in 1 .. Len(r) : list_next[r[i]] = (IF i = Len(r) THEN r[1] ELSE r[i + 1])
      /\ \A i \in 1 .. Len(r) : list_prev[r[i]] = (IF i = 1 THEN r[Len(r)] ELSE r[i - 1])
  BY <1>1, <1>4, RingedFacts
<1>6. list_prev[list_next[s]] = s
  <2>1. CASE k = Len(r)
    <3>1. 1 \in 1 .. Len(r)
      BY <1>5
    <3> QED BY <1>3, <1>5, <2>1, <3>1
  <2>2. CASE k # Len(r)
    <3>1. k + 1 \in 1 .. Len(r) /\ k + 1 # 1 /\ (k + 1) - 1 = k
      BY <1>3, <1>5, <2>2
    <3>2. list_next[s] = r[k + 1]
      BY <1>3, <1>5, <2>2
    <3>3. list_prev[r[k + 1]] = r[(k + 1) - 1]
      BY <1>5, <3>1
    <3> QED BY <1>3, <3>1, <3>2, <3>3
  <2> QED BY <2>1, <2>2
<1>7. list_next[list_prev[s]] = s
  <2>1. CASE k = 1
    <3>1. Len(r) \in 1 .. Len(r)
      BY <1>5
    <3> QED BY <1>3, <1>5, <2>1, <3>1
  <2>2. CASE k # 1
    <3>1. k - 1 \in 1 .. Len(r) /\ k - 1 # Len(r) /\ (k - 1) + 1 = k
      BY <1>3, <1>5, <2>2
    <3>2. list_prev[s] = r[k - 1]
      BY <1>3, <1>5, <2>2
    <3>3. list_next[r[k - 1]] = r[(k - 1) + 1]
      BY <1>5, <3>1
    <3> QED BY <1>3, <3>1, <3>2, <3>3
  <2> QED BY <2>1, <2>2
<1> QED BY <1>6, <1>7

(* The definitions of the two instances of UtmpTable say the same.           *)
LEMMA OneTable ==
  /\ T!TableInit <=> Table!TableInit
  /\ [T!TableNext]_(T!tableVars) <=> [Table!TableNext]_(Table!tableVars)
  /\ T!ChainsPartition /\ T!RingSorted <=> TableConsistent
<1>1. T!TableInit <=> Table!TableInit
  BY DEF T!TableInit, Table!TableInit, T!Slots, Table!Slots, T!NoUser, Table!NoUser,
         T!Buckets, Table!Buckets
<1>2. T!tableVars = Table!tableVars
  BY DEF T!tableVars, Table!tableVars
<1>3. \A u, p : T!Alloc(u, p) <=> Table!Alloc(u, p)
  BY DEF T!Alloc, Table!Alloc, T!Granted, Table!Granted, T!Place, Table!Place, T!InsertAt, Table!InsertAt
<1>4. \A s : T!Free(s) <=> Table!Free(s)
  <2>1. \A l, e : T!RemoveFirst(l, e) = Table!RemoveFirst(l, e)
    BY DEF T!RemoveFirst, Table!RemoveFirst, T!SelectInSeq, Table!SelectInSeq, T!RemoveAt, Table!RemoveAt,
           T!Min, Table!Min
  <2>2. \A s : T!Unchained(s) = Table!Unchained(s)
    BY <2>1 DEF T!Unchained, Table!Unchained
  <2>3. \A s : T!Active(s) <=> Table!Active(s)
    BY DEF T!Active, Table!Active
  <2> QED BY <2>1, <2>2, <2>3 DEF T!Free, Table!Free
<1>5. T!Online = Table!Online /\ T!Slots = Table!Slots /\ T!Buckets = Table!Buckets
  BY DEF T!Online, Table!Online, T!Slots, Table!Slots, T!Active, Table!Active, T!Buckets, Table!Buckets
<1>6. T!TableNext <=> Table!TableNext
  BY <1>3, <1>4, <1>5 DEF T!TableNext, Table!TableNext
<1>7. T!ChainsPartition <=> Table!ChainsPartition
  BY <1>5 DEF T!ChainsPartition, Table!ChainsPartition, T!IsInjective, Table!IsInjective,
              T!Range, Table!Range
<1>8. T!RingSorted <=> Table!RingSorted
  <2>1. \A l : (T!IsInjective(l) <=> Table!IsInjective(l)) /\ T!Range(l) = Table!Range(l)
    BY DEF T!IsInjective, Table!IsInjective, T!Range, Table!Range
  <2>2. T!Cardinality(T!Online) = Table!Cardinality(Table!Online)
    BY <1>5 DEF T!Cardinality, Table!Cardinality
  <2> QED BY <1>5, <2>1, <2>2 DEF T!RingSorted, Table!RingSorted
<1>9. [T!TableNext]_(T!tableVars) <=> [Table!TableNext]_(Table!tableVars)
  BY <1>6 DEF T!tableVars, Table!tableVars
<1> QED BY <1>1, <1>7, <1>8, <1>9 DEF TableConsistent

LEMMA LinksAlways == Spec => []LinksInv
<1>1. Init => LinksInv
  BY LinksInit
<1>2. LinksInv /\ [Next]_vars => LinksInv'
  BY LinksStep
<1> QED BY <1>1, <1>2, PTL DEF Spec

(* Whatever sessions come and go, in whatever order, for every number of     *)
(* slots, users and hash chains: list_prev and list_next undo each other     *)
(* for every session (utmpcheck.c:147), each slot is on the one chain it     *)
(* belongs to and met once when next is followed, and the ring has all       *)
(* sessions in the order of user ids (getnewutmpent2 and clear_utmp2,        *)
(* libBBS/utmp.c:212-304, 606-684).                                          *)
THEOREM LinksConsistent == Spec => [](RingTwoWay /\ TableConsistent)
<1>1. LinksInv => RingTwoWay /\ TableConsistent
  BY BothWays, OneTable DEF LinksInv, T!TableInv
<1> QED BY <1>1, LinksAlways, PTL

(* getnewutmpent2 and clear_utmp2, which move links, do what UtmpTable says  *)
(* of sequences: a slot taken from the head of the free chain is pushed on   *)
(* its user's chain and put into the ring at its place, a slot cleared is    *)
(* taken off both and pushed on the free chain, and nothing else moves.      *)
THEOREM LinksImplement == Spec => ImplementsTable
<1>1. Init => Table!TableInit
  BY LinksInit, OneTable
<1>2. LinksInv /\ [Next]_vars => [Table!TableNext]_(Table!tableVars)
  BY LinksStep, OneTable
<1> QED BY <1>1, <1>2, LinksAlways, PTL DEF Spec, ImplementsTable, Table!TableSpec

-----------------------------------------------------------------------------
(* What a list has to do with its links. *)
LEMMA ListFacts ==
  ASSUME NEW link, NEW from, NEW l, Linked(Uids, link, from, 0, l)
  PROVE  /\ Len(l) \in 0 .. MaxUsers /\ l \in Seq(Uids) /\ DOMAIN l = 1 .. Len(l) /\ 0 \notin Uids
         /\ \A i \in 1 .. Len(l) : l[i] \in Uids /\ l[i] \in T!Range(l)
         /\ \A s \in T!Range(l) : s \in Uids /\ \E i \in 1 .. Len(l) : l[i] = s
         /\ from = 0 <=> l = <<>>
         /\ from # 0 => from \in T!Range(l) /\ from = l[1] /\ 1 \in 1 .. Len(l)
<1>1. l \in Seq(Uids) /\ T!IsInjective(l) /\ Len(l) \in 0 .. MaxUsers /\ MaxUsers \in Nat /\ DOMAIN l = 1 .. Len(l)
  BY NoLongerThan, MaxUsersAssumption DEF Linked, Uids
<1>2. 0 \notin Uids
  BY <1>1 DEF Uids
<1>3. \A i \in 1 .. Len(l) : l[i] \in Uids /\ l[i] \in T!Range(l)
  BY <1>1, ListRange
<1>4. \A s \in T!Range(l) : s \in Uids /\ \E i \in 1 .. Len(l) : l[i] = s
  BY <1>1, <1>3, ListRange
<1>5. l # <<>> => 1 \in 1 .. Len(l) /\ from = l[1]
  <2>1. l # <<>> => Len(l) \in Nat \ {0}
    BY <1>1
  <2>2. l # <<>> => from = l[1]
    BY DEF Linked
  <2> QED BY <2>1, <2>2
<1>6. l = <<>> => from = 0
  BY DEF Linked
<1> QED BY <1>1, <1>2, <1>3, <1>4, <1>5, <1>6

(* The slot after one of a list is of the list as well, and only its slot    *)
(* before it leads to it.                                                    *)
LEMMA ListNext ==
  ASSUME NEW link, NEW from, NEW l, Linked(Uids, link, from, 0, l), NEW b \in T!Range(l), link[b] # 0
  PROVE  \E p \in 2 .. Len(l) : b = l[p - 1] /\ link[b] = l[p] /\ l[p] \in T!Range(l)
<1>0. Len(l) \in Nat /\ \E i \in 1 .. Len(l) : l[i] = b
  BY ListFacts
<1>1. PICK i \in 1 .. Len(l) : l[i] = b
  BY <1>0
<1>2. i # Len(l) /\ link[b] = l[i + 1]
  BY <1>1 DEF Linked
<1>3. i + 1 \in 2 .. Len(l) /\ (i + 1) - 1 = i /\ i + 1 \in 1 .. Len(l)
  BY <1>0, <1>2
<1>4. l[i + 1] \in T!Range(l)
  BY <1>3, ListFacts
<1> QED BY <1>1, <1>2, <1>3, <1>4

LEMMA ListBefore ==
  ASSUME NEW link, NEW from, NEW l, Linked(Uids, link, from, 0, l), NEW s \in T!Range(l), s # from
  PROVE  \E b \in T!Range(l) : link[b] = s
<1>0. Len(l) \in Nat /\ \E i \in 1 .. Len(l) : l[i] = s
  BY ListFacts
<1>1. PICK i \in 1 .. Len(l) : l[i] = s
  BY <1>0
<1>2. i # 1
  <2>1. l # <<>>
    BY <1>0, <1>1
  <2> QED BY <2>1, <1>1 DEF Linked
<1>3. i - 1 \in 1 .. Len(l) /\ i - 1 # Len(l) /\ (i - 1) + 1 = i
  BY <1>0, <1>2
<1>4. link[l[i - 1]] = l[i]
  BY <1>3 DEF Linked
<1> QED BY <1>1, <1>3, <1>4, ListFacts

(* Path goes through the list of a chain and then stays at 0. *)
LEMMA PathFinds ==
  ASSUME NEW from, NEW l, Linked(Uids, unext, from, 0, l)
  PROVE  \A i \in Nat : Path(from)[i] = (IF i < Len(l) THEN l[i + 1] ELSE 0)
<1> DEFINE D(at) == [i \in Nat |-> IF i = 0 THEN from
                                   ELSE LET s == at[i - 1] IN IF s = 0 THEN 0 ELSE unext[s]]
           at == CHOOSE at : at = D(at)
<1>1. at = D(at)
  <2>1. \E f : Visits(unext, from, f)
    BY VisitsExist
  <2>2. PICK f : Visits(unext, from, f)
    BY <2>1
  <2>3. f = D(f)
    BY <2>2 DEF Visits
  <2> HIDE DEF D
  <2> QED BY <2>3
<1>2. Path(from) = at
  BY DEF Path
<1> HIDE DEF at
<1>3. at[0] = from /\ \A i \in Nat \ {0} : at[i] = IF at[i - 1] = 0 THEN 0 ELSE unext[at[i - 1]]
  <2>1. \A i \in Nat :
          D(at)[i] = IF i = 0 THEN from ELSE IF at[i - 1] = 0 THEN 0 ELSE unext[at[i - 1]]
    OBVIOUS
  <2> HIDE DEF D
  <2>2. \A i \in Nat :
          at[i] = IF i = 0 THEN from ELSE IF at[i - 1] = 0 THEN 0 ELSE unext[at[i - 1]]
    BY <1>1, <2>1
  <2>3. at[0] = from
    BY <2>2
  <2> QED BY <2>2, <2>3
<1> HIDE DEF D
<1>4. Len(l) \in Nat /\ (\A i \in 1 .. Len(l) : l[i] # 0)
  BY ListFacts
<1> DEFINE right(i) == at[i] = (IF i < Len(l) THEN l[i + 1] ELSE 0)
<1>5. ASSUME NEW m \in Nat, ~right(m), \A k \in Nat : ~right(k) => m <= k PROVE FALSE
  <2>1. CASE m = 0
    <3>1. l # <<>> <=> 0 < Len(l)
      BY <1>4, ListFacts
    <3> QED BY <2>1, <3>1, <1>3, <1>5 DEF Linked
  <2>2. CASE m # 0
    <3>1. m - 1 \in Nat /\ ~(m <= m - 1) /\ (m - 1) + 1 = m
      BY <2>2
    <3>2. right(m - 1)
      <4> HIDE DEF right
      <4> QED BY <3>1, <1>5
    <3>3. at[m] = IF at[m - 1] = 0 THEN 0 ELSE unext[at[m - 1]]
      BY <2>2, <1>3
    <3>4. CASE m - 1 < Len(l)
      <4>1. m \in 1 .. Len(l) /\ at[m - 1] = l[m] /\ (m = Len(l) <=> ~(m < Len(l)))
        BY <3>1, <3>2, <3>4, <1>4
      <4>2. unext[l[m]] = IF m = Len(l) THEN 0 ELSE l[m + 1]
        BY <4>1 DEF Linked
      <4>3. l[m] # 0
        BY <4>1, <1>4
      <4> QED BY <3>3, <4>1, <4>2, <4>3, <1>5
    <3>5. CASE ~(m - 1 < Len(l))
      BY <3>1, <3>2, <3>3, <3>5, <1>4, <1>5
    <3> QED BY <3>4, <3>5
  <2> QED BY <2>1, <2>2
<1>6. \A i \in Nat : right(i)
  <2> DEFINE S == {i \in Nat : ~right(i)}
  <2>1. SUFFICES ASSUME S # {} PROVE FALSE
    OBVIOUS
  <2>2. \E m \in S : \A k \in S : m <= k
    BY <2>1, Least
  <2> HIDE DEF right
  <2> QED BY <2>2, <1>5
<1> QED BY <1>2, <1>6

LEMMA ChainIs ==
  ASSUME NEW k, NEW l, Linked(Uids, unext, head[k], 0, l)
  PROVE  /\ InChain(k) = T!Range(l)
         /\ \A i, j \in 0 .. MaxUsers : i # j /\ Path(head[k])[i] = Path(head[k])[j] => Path(head[k])[i] = 0
<1> DEFINE c == Path(head[k])
<1>1. \A i \in Nat : c[i] = (IF i < Len(l) THEN l[i + 1] ELSE 0)
  BY PathFinds
<1> HIDE DEF c
<1>2. /\ Len(l) \in 0 .. MaxUsers /\ MaxUsers \in Nat /\ DOMAIN l = 1 .. Len(l)
      /\ \A i \in 1 .. Len(l) : l[i] \in Uids /\ l[i] \in T!Range(l) /\ l[i] # 0
      /\ \A s \in T!Range(l) : s \in Uids /\ \E i \in 1 .. Len(l) : l[i] = s
  BY ListFacts, MaxUsersAssumption
<1>3. InChain(k) = {c[i] : i \in 0 .. MaxUsers} \ {0}
  BY DEF InChain, c
<1>4. \A i \in 0 .. MaxUsers : c[i] # 0 => c[i] \in T!Range(l)
  <2> TAKE i \in 0 .. MaxUsers
  <2>1. i < Len(l) => i + 1 \in 1 .. Len(l)
    BY <1>2
  <2> QED BY <1>1, <1>2, <2>1
<1>5. \A s \in T!Range(l) : \E i \in 0 .. MaxUsers : c[i] = s /\ s # 0
  <2> TAKE s \in T!Range(l)
  <2>1. PICK i \in 1 .. Len(l) : l[i] = s
    BY <1>2
  <2>2. i - 1 \in 0 .. MaxUsers /\ i - 1 < Len(l) /\ (i - 1) + 1 = i
    BY <1>2
  <2> QED BY <1>1, <1>2, <2>1, <2>2
<1>6. \A i, j \in 0 .. MaxUsers : i # j /\ c[i] = c[j] => c[i] = 0
  <2> SUFFICES ASSUME NEW i \in 0 .. MaxUsers, NEW j \in 0 .. MaxUsers, i # j, c[i] = c[j], c[i] # 0 PROVE FALSE
    OBVIOUS
  <2>1. i < Len(l) /\ j < Len(l)
    BY <1>1
  <2>2. i + 1 \in 1 .. Len(l) /\ j + 1 \in 1 .. Len(l) /\ i + 1 # j + 1
    BY <2>1, <1>2
  <2>3. l[i + 1] = l[j + 1]
    BY <2>1, <1>1
  <2> QED BY <2>2, <2>3, <1>2 DEF Linked, T!IsInjective
<1> QED BY <1>3, <1>4, <1>5, <1>6 DEF c

-----------------------------------------------------------------------------
(* The chain a name stands on; names that id_invalid refuses are put on the  *)
(* free chain.                                                               *)
Place(n) == IF n \in Odd THEN 0 ELSE Chain(n)

(* The links stand for the lists L: name is the name of each slot, the slots *)
(* in out are on no chain.                                                   *)
Standing(link, first, name, out, L) ==
  /\ \A k \in 0 .. HashSize : Linked(Uids, link, first[k], 0, L[k])
  /\ \A k \in 0 .. HashSize : \A s \in T!Range(L[k]) : s \notin out /\ Place(name[s]) = k
  /\ \A s \in Uids \ out : name[s] \in Names \ Odd => s \in T!Range(L[NameHash[name[s]]])
AllFree(name, out, L) == \A s \in Uids \ out : name[s] = None => s \in T!Range(L[0])

LEMMA Places ==
  /\ HashSize \in Nat \ {0} /\ 0 \in 0 .. HashSize /\ HashSize \in 0 .. HashSize
  /\ \A n \in Ids : Chain(n) \in 0 .. HashSize /\ Place(n) \in 0 .. HashSize
  /\ \A n \in Names : Chain(n) = NameHash[n] /\ Chain(n) # 0
  /\ Chain(None) = 0 /\ Place(None) = 0 /\ None \notin Names /\ None \notin Odd
  /\ \A n \in Names \ Odd : Place(n) = NameHash[n]
  /\ \A n \in Odd : Place(n) = 0
  /\ Odd \subseteq Names
<1>1. /\ HashSize \in Nat \ {0} /\ NameHash \in [Names -> 1 .. HashSize] /\ Odd \subseteq Names
      /\ None \notin Names
  BY NameHashAssumption, NamesAssumption
<1>2. 0 \in 0 .. HashSize /\ HashSize \in 0 .. HashSize /\ \A k \in 1 .. HashSize : k \in 0 .. HashSize /\ k # 0
  BY <1>1
<1>3. \A n \in Names : Chain(n) = NameHash[n] /\ NameHash[n] \in 1 .. HashSize
  BY <1>1 DEF Chain
<1>4. Chain(None) = 0
  BY DEF Chain
<1> QED BY <1>1, <1>2, <1>3, <1>4 DEF Place, Ids

(* A slot is on one chain, so links of others do not matter to it.           *)
LEMMA OneChain ==
  ASSUME NEW link, NEW first, NEW name, NEW out, NEW L, Standing(link, first, name, out, L),
         NEW k \in 0 .. HashSize, NEW s \in T!Range(L[k])
  PROVE  \A j \in 0 .. HashSize : j # k => s \notin T!Range(L[j])
BY DEF Standing

(* What leads to the slot num, on whatever chain it is.                      *)
LEMMA WhoLeads ==
  ASSUME NEW link, NEW first, NEW name, NEW out, NEW L, Standing(link, first, name, out, L),
         NEW j \in 0 .. HashSize, NEW b, b \in T!Range(L[j]), link[b] # 0
  PROVE  link[b] \in T!Range(L[j]) /\ Place(name[link[b]]) = j
<1>1. Linked(Uids, link, first[j], 0, L[j])
  BY DEF Standing
<1>2. link[b] \in T!Range(L[j])
  BY <1>1, ListNext
<1> QED BY <1>2 DEF Standing

LEMMA WhoIsFirst ==
  ASSUME NEW link, NEW first, NEW name, NEW out, NEW L, Standing(link, first, name, out, L),
         NEW j \in 0 .. HashSize, first[j] # 0
  PROVE  first[j] \in T!Range(L[j]) /\ first[j] \in Uids /\ Place(name[first[j]]) = j /\ first[j] \notin out
<1>1. Linked(Uids, link, first[j], 0, L[j])
  BY DEF Standing
<1>2. first[j] \in T!Range(L[j]) /\ first[j] \in Uids
  BY <1>1, ListFacts
<1> QED BY <1>2 DEF Standing

(* Links and heads are the same for all chains but k. *)
Elsewhere(k, L, link, first, link2, first2) ==
  \A j \in 0 .. HashSize : j # k =>
    first2[j] = first[j] /\ \A s \in T!Range(L[j]) : link2[s] = link[s]

SameBut(S, f, g) == \A s \in Uids : s \notin S => g[s] = f[s]

(* The lists with another list for chain k. *)
Put(L, k, l) == [j \in 0 .. HashSize |-> IF j = k THEN l ELSE L[j]]

Renamed(name, num, n) == [name EXCEPT ![num] = n]

(* A slot has left its chain: the list without it.                           *)
LEMMA Without ==
  ASSUME NEW link, NEW first, NEW name \in [Uids -> Ids], NEW out, NEW L,
         Standing(link, first, name, out, L),
         NEW k \in 0 .. HashSize, NEW num \in T!Range(L[k]),
         NEW link2, NEW first2, NEW l,
         Elsewhere(k, L, link, first, link2, first2),
         Linked(Uids, link2, first2[k], 0, l), T!Range(l) = T!Range(L[k]) \ {num}
  PROVE  /\ Standing(link2, first2, name, out \cup {num}, Put(L, k, l))
         /\ AllFree(name, out, L) => AllFree(name, out \cup {num}, Put(L, k, l))
<1> DEFINE M == Put(L, k, l)
<1>0. M = [j \in 0 .. HashSize |-> IF j = k THEN l ELSE L[j]]
  BY DEF Put
<1> HIDE DEF M
<1>1. \A j \in 0 .. HashSize : T!Range(M[j]) = T!Range(L[j]) \ {num}
  <2> TAKE j \in 0 .. HashSize
  <2>1. j # k => num \notin T!Range(L[j])
    BY OneChain
  <2> QED BY <2>1, <1>0
<1>2. ASSUME NEW j \in 0 .. HashSize PROVE Linked(Uids, link2, first2[j], 0, M[j])
  <2>1. CASE j = k
    BY <2>1, <1>0
  <2>2. CASE j # k
    <3>1. Linked(Uids, link, first[j], 0, L[j])
      BY DEF Standing
    <3>2. Linked(Uids, link2, first[j], 0, L[j])
      BY <3>1, <2>2, LinkedSame DEF Elsewhere
    <3> QED BY <3>2, <2>2, <1>0 DEF Elsewhere
  <2> QED BY <2>1, <2>2
<1>3. \A s \in Uids \ (out \cup {num}) : name[s] \in Names \ Odd => s \in T!Range(M[NameHash[name[s]]])
  <2> SUFFICES ASSUME NEW s \in Uids \ (out \cup {num}), name[s] \in Names \ Odd
               PROVE  s \in T!Range(M[NameHash[name[s]]])
    OBVIOUS
  <2>1. s \in T!Range(L[NameHash[name[s]]]) /\ NameHash[name[s]] \in 0 .. HashSize
    BY Places DEF Standing
  <2> QED BY <2>1, <1>1
<1>4. \A j \in 0 .. HashSize : \A s \in T!Range(M[j]) : s \notin out \cup {num} /\ Place(name[s]) = j
  BY <1>1 DEF Standing
<1>5. AllFree(name, out, L) => AllFree(name, out \cup {num}, M)
  BY <1>1, Places DEF AllFree
<1>6. Standing(link2, first2, name, out \cup {num}, M)
  BY <1>2, <1>3, <1>4 DEF Standing
<1> QED BY <1>5, <1>6 DEF M

(* A slot that is on no chain is put before its chain and given the name.    *)
LEMMA With ==
  ASSUME NEW link, NEW first, NEW name \in [Uids -> Ids], NEW out, NEW num \in Uids, num \in out,
         NEW L, Standing(link, first, name, out, L),
         NEW n \in Ids \ Odd, link[num] = first[Chain(n)],
         NEW first2, first2[Chain(n)] = num, Elsewhere(Chain(n), L, link, first, link, first2),
         NEW name2, name2 = Renamed(name, num, n)
  PROVE  LET M == Put(L, Chain(n), <<num>> \o L[Chain(n)]) IN
         /\ Standing(link, first2, name2, out \ {num}, M)
         /\ AllFree(name, out, L) => AllFree(name2, out \ {num}, M)
<1> DEFINE k == Chain(n)
           M == Put(L, k, <<num>> \o L[k])
<1>m. M = [j \in 0 .. HashSize |-> IF j = k THEN <<num>> \o L[j] ELSE L[j]]
  BY DEF Put
<1> HIDE DEF M
<1>0. k \in 0 .. HashSize /\ Place(n) = k /\ \A j \in 0 .. HashSize : Linked(Uids, link, first[j], 0, L[j]) /\ num \notin T!Range(L[j])
  BY Places DEF Standing, Place
<1>1. Linked(Uids, link, num, 0, <<num>> \o L[k])
  BY <1>0, LinkedPush
<1>2. T!Range(<<num>> \o L[k]) = T!Range(L[k]) \cup {num}
  <2>1. L[k] \in Seq(Uids) /\ T!IsInjective(L[k])
    BY <1>0 DEF Linked
  <2> QED BY <1>0, <2>1, T!PushOnto, NAssumption, UsersAssumption, GarbageAssumption, HashAssumption DEF T!NoUser
<1>3. \A j \in 0 .. HashSize : T!Range(M[j]) = T!Range(L[j]) \cup (IF j = k THEN {num} ELSE {})
  BY <1>2, <1>m
<1>4. \A j \in 0 .. HashSize : Linked(Uids, link, first2[j], 0, M[j])
  BY <1>0, <1>1, <1>m DEF Elsewhere
<1>5. name2[num] = n /\ \A s \in Uids \ {num} : name2[s] = name[s]
  BY DEF Renamed
<1>6. ASSUME NEW j \in 0 .. HashSize, NEW s \in T!Range(M[j])
      PROVE  s \notin out \ {num} /\ Place(name2[s]) = j
  <2>1. CASE s = num
    <3>1. j = k
      BY <1>0, <1>3, <2>1
    <3> QED BY <2>1, <3>1, <1>0, <1>5
  <2>2. CASE s # num
    <3>1. s \in T!Range(L[j])
      BY <1>3, <2>2
    <3>2. s \in Uids
      BY <3>1, <1>0, ListFacts
    <3>3. s \notin out /\ Place(name[s]) = j
      BY <3>1 DEF Standing
    <3> QED BY <3>2, <3>3, <2>2, <1>5
  <2> QED BY <2>1, <2>2
<1>7. ASSUME NEW s \in Uids \ (out \ {num}), name2[s] \in Names \ Odd
      PROVE  s \in T!Range(M[NameHash[name2[s]]])
  <2>0. NameHash[name2[s]] \in 0 .. HashSize /\ Chain(name2[s]) = NameHash[name2[s]]
    BY <1>7, Places DEF Ids
  <2>1. CASE s = num
    BY <2>0, <2>1, <1>3, <1>5, <1>0
  <2>2. CASE s # num
    <3>1. s \in T!Range(L[NameHash[name2[s]]])
      BY <2>2, <1>5, <1>7 DEF Standing
    <3> QED BY <3>1, <2>0, <1>3
  <2> QED BY <2>1, <2>2
<1>8. ASSUME AllFree(name, out, L) PROVE AllFree(name2, out \ {num}, M)
  <2> SUFFICES ASSUME NEW s \in Uids \ (out \ {num}), name2[s] = None PROVE s \in T!Range(M[0])
    BY DEF AllFree
  <2>1. CASE s = num
    <3>1. k = 0
      BY <2>1, <1>5, Places
    <3> QED BY <3>1, <2>1, <1>3, <1>0
  <2>2. CASE s # num
    BY <2>2, <1>3, <1>5, <1>8, Places DEF AllFree
  <2> QED BY <2>1, <2>2
<1>9. Standing(link, first2, name2, out \ {num}, M)
  BY <1>4, <1>6, <1>7 DEF Standing
<1> QED BY <1>8, <1>9 DEF M

-----------------------------------------------------------------------------
(* A slot leaves its chain (setuserid_internal, ucache.c:401-424).  If its   *)
(* chain is empty the loop starts at next[-1], the head of the last chain,   *)
(* and finds nothing there, as what is on that chain belongs there.          *)
NameOf == [s \in Uids |-> pw[s].name]

LinkTypes == head \in [0 .. HashSize -> 0 .. MaxUsers] /\ unext \in [Uids -> 0 .. MaxUsers]

LEMMA UnlinkTakesOff ==
  ASSUME LinkTypes, NameOf \in [Uids -> Ids],
         NEW L, Standing(unext, head, NameOf, {}, L), NEW num \in Uids,
         head[Chain(pw[num].name)] = num \/ Preceding(num) # {},
         Unlink(num)
  PROVE  /\ LinkTypes'
         /\ \E M : /\ Standing(unext', head', NameOf, {num}, M)
                   /\ AllFree(NameOf, {}, L) => AllFree(NameOf, {num}, M)
<1> DEFINE k == Chain(pw[num].name)
<1>0. /\ k \in 0 .. HashSize /\ num # 0 /\ HashSize \in 0 .. HashSize /\ HashSize # 0 /\ 0 \notin Uids
      /\ \A j \in 0 .. HashSize : Linked(Uids, unext, head[j], 0, L[j]) /\ head[j] \in 0 .. MaxUsers
      /\ NameOf[num] = pw[num].name /\ NameOf[num] \in Ids
  <2>1. num # 0 /\ 0 \notin Uids
    BY MaxUsersAssumption DEF Uids
  <2>2. NameOf[num] = pw[num].name /\ NameOf[num] \in Ids
    BY DEF NameOf
  <2>3. k \in 0 .. HashSize /\ HashSize \in 0 .. HashSize /\ HashSize # 0
    BY <2>2, Places
  <2> QED BY <2>1, <2>2, <2>3 DEF Standing, LinkTypes
<1>1. CASE head[k] = num
  <2>1. head' = [head EXCEPT ![k] = unext[num]] /\ unext' = unext
    BY <1>1 DEF Unlink
  <2>2. L[k] # <<>> /\ num \in T!Range(L[k])
    BY <1>0, <1>1, ListFacts
  <2>3. Linked(Uids, unext, unext[num], 0, Tail(L[k])) /\ num = Head(L[k])
    BY <1>0, <1>1, <2>2, LinkedPop
  <2>4. T!Range(Tail(L[k])) = T!Range(L[k]) \ {num}
    <3>1. L[k] \in Seq(Uids) /\ T!IsInjective(L[k])
      BY <1>0 DEF Linked
    <3> QED BY <2>2, <2>3, <3>1, T!PopOff, NAssumption, UsersAssumption, GarbageAssumption, HashAssumption
            DEF T!NoUser
  <2>5. head'[k] = unext[num] /\ \A j \in 0 .. HashSize : j # k => head'[j] = head[j]
    BY <1>0, <2>1 DEF LinkTypes
  <2>6. LinkTypes'
    BY <1>0, <2>1 DEF LinkTypes
  <2> HIDE DEF k
  <2>7. \A j \in 0 .. HashSize : j # k => \A s \in T!Range(L[j]) : unext'[s] = unext[s]
    BY <2>1
  <2>8. Linked(Uids, unext', head'[k], 0, Tail(L[k]))
    <3>1. unext' = unext /\ head'[k] = unext[num]
      BY <2>1, <2>5
    <3> QED BY <3>1, <2>3
  <2> DEFINE M == Put(L, k, Tail(L[k]))
  <2>9. /\ Standing(unext', head', NameOf, {num}, M)
        /\ AllFree(NameOf, {}, L) => AllFree(NameOf, {num}, M)
    <3> DEFINE l == Tail(L[k])
    <3> HIDE DEF l
    <3>2. k \in 0 .. HashSize
      BY <1>0
    <3>3. num \in T!Range(L[k])
      BY <2>2
    <3>4. Elsewhere(k, L, unext, head, unext', head')
      BY <2>5, <2>7 DEF Elsewhere
    <3>5. Linked(Uids, unext', head'[k], 0, l) /\ T!Range(l) = T!Range(L[k]) \ {num}
      BY <2>4, <2>8 DEF l
    <3>6. /\ Standing(unext', head', NameOf, {} \cup {num}, Put(L, k, l))
          /\ AllFree(NameOf, {}, L) => AllFree(NameOf, {} \cup {num}, Put(L, k, l))
      BY <3>2, <3>3, <3>4, <3>5, Without
    <3>7. {} \cup {num} = {num}
      OBVIOUS
    <3> QED BY <3>6, <3>7 DEF l
  <2> QED BY <2>6, <2>9
<1>2. CASE head[k] # num
  <2>1. PICK b \in Preceding(num) : TRUE
    BY <1>2
  <2>2. /\ b \in IF head[k] = 0 THEN {0} \cup InChain(HashSize) ELSE InChain(k)
        /\ After(b) = num
    BY <2>1 DEF Preceding
  <2>3. InChain(HashSize) = T!Range(L[HashSize]) /\ InChain(k) = T!Range(L[k])
    BY <1>0, ChainIs
  <2>4. head[k] # 0
    <3> SUFFICES ASSUME head[k] = 0 PROVE FALSE
      OBVIOUS
    <3>1. L[k] = <<>> /\ T!Range(L[k]) = {}
      <4>1. L[k] = <<>>
        BY <1>0, ListFacts
      <4> QED BY <4>1 DEF T!Range
    <3>2. num \in T!Range(L[HashSize]) /\ Place(NameOf[num]) = HashSize
      <4>1. CASE b = 0
        <5>1. head[HashSize] = num
          BY <4>1, <2>2 DEF After
        <5> QED BY <5>1, <1>0, WhoIsFirst
      <4>2. CASE b # 0
        <5>1. b \in T!Range(L[HashSize]) /\ unext[b] = num
          BY <4>2, <2>2, <2>3 DEF After
        <5> QED BY <5>1, <1>0, WhoLeads
      <4> QED BY <4>1, <4>2
    <3>3. k = HashSize
      BY <3>2, <1>0 DEF Place
    <3> QED BY <3>1, <3>2, <3>3
  <2>5. b \in T!Range(L[k]) /\ b \in Uids /\ b # 0 /\ unext[b] = num
    <3>1. b \in T!Range(L[k])
      BY <2>2, <2>3, <2>4
    <3>2. b \in Uids
      BY <3>1, <1>0, ListFacts
    <3> QED BY <3>1, <3>2, <2>2, <1>0 DEF After
  <2>7. PICK p \in 2 .. Len(L[k]) : b = L[k][p - 1] /\ num = L[k][p] /\ num \in T!Range(L[k])
    <3>1. Linked(Uids, unext, head[k], 0, L[k]) /\ unext[b] # 0
      BY <2>5, <1>0
    <3>2. \E p \in 2 .. Len(L[k]) : b = L[k][p - 1] /\ unext[b] = L[k][p] /\ L[k][p] \in T!Range(L[k])
      BY <2>5, <3>1, ListNext
    <3> QED BY <3>2, <2>5
  <2>8. unext' = [unext EXCEPT ![b] = unext[num]] /\ head' = head
    <3>1. PICK c \in Preceding(num) :
            IF c = 0 THEN head' = [head EXCEPT ![HashSize] = unext[num]] /\ UNCHANGED unext
            ELSE unext' = [unext EXCEPT ![c] = unext[num]] /\ UNCHANGED head
      BY <1>2 DEF Unlink
    <3>2. c \in T!Range(L[k]) /\ c \in Uids /\ c # 0 /\ unext[c] = num
      <4>1. c \in T!Range(L[k]) /\ After(c) = num
        BY <2>3, <2>4 DEF Preceding
      <4>2. c \in Uids
        BY <4>1, <1>0, ListFacts
      <4> QED BY <4>1, <4>2, <1>0 DEF After
    <3>4. Linked(Uids, unext, head[k], 0, L[k])
      BY <1>0
    <3>3. PICK q \in 2 .. Len(L[k]) : c = L[k][q - 1] /\ num = L[k][q]
      <4>1. unext[c] # 0
        BY <3>2, <1>0
      <4>2. \E q \in 2 .. Len(L[k]) : c = L[k][q - 1] /\ unext[c] = L[k][q] /\ L[k][q] \in T!Range(L[k])
        BY <3>2, <3>4, <4>1, ListNext
      <4> QED BY <4>2, <3>2
    <3>n. Len(L[k]) \in Nat /\ DOMAIN L[k] = 1 .. Len(L[k]) /\ T!IsInjective(L[k])
      <4>1. Len(L[k]) \in Nat /\ DOMAIN L[k] = 1 .. Len(L[k])
        BY <3>4, ListFacts
      <4> QED BY <4>1, <3>4 DEF Linked
    <3>5. p = q
      <4>1. p \in 1 .. Len(L[k]) /\ q \in 1 .. Len(L[k])
        BY <3>n
      <4> QED BY <4>1, <2>7, <3>3, <3>n DEF T!IsInjective
    <3> QED BY <3>1, <3>2, <3>3, <3>5, <2>7
  <2> DEFINE l == T!RemoveFirst(L[k], num)
  <2>9. Linked(Uids, unext', head'[k], 0, l)
    <3>1. unext'[L[k][p - 1]] = unext[L[k][p]]
      BY <2>5, <2>7, <2>8 DEF LinkTypes
    <3>2. \A s \in T!Range(L[k]) \ {L[k][p - 1], L[k][p]} : unext'[s] = unext[s]
      <4>1. \A s \in T!Range(L[k]) : s \in Uids
        BY <1>0, ListFacts
      <4> QED BY <4>1, <2>7, <2>8 DEF LinkTypes
    <3> HIDE DEF k, l
    <3>3. Linked(Uids, unext', head[k], 0, T!RemoveFirst(L[k], L[k][p]))
      BY <3>1, <3>2, <1>0, LinkedCut
    <3> QED BY <3>3, <2>7, <2>8 DEF l
  <2>10. T!Range(l) = T!Range(L[k]) \ {num}
    <3>1. L[k] \in Seq(Uids) /\ T!IsInjective(L[k])
      BY <1>0 DEF Linked
    <3> QED BY <3>1, T!TakeOff, NAssumption, UsersAssumption, GarbageAssumption, HashAssumption DEF T!NoUser
  <2>11. LinkTypes'
    <3>1. unext[num] \in 0 .. MaxUsers
      BY DEF LinkTypes
    <3> QED BY <2>5, <2>8, <3>1 DEF LinkTypes
  <2> HIDE DEF k, l
  <2>12. \A j \in 0 .. HashSize : j # k => \A s \in T!Range(L[j]) : unext'[s] = unext[s]
    <3> SUFFICES ASSUME NEW j \in 0 .. HashSize, j # k, NEW s \in T!Range(L[j]) PROVE unext'[s] = unext[s]
      OBVIOUS
    <3>1. s \in Uids /\ s # b
      <4>1. s \in Uids
        BY <1>0, ListFacts
      <4>2. b \notin T!Range(L[j])
        BY <2>5, <1>0, OneChain
      <4> QED BY <4>1, <4>2
    <3> QED BY <3>1, <2>8 DEF LinkTypes
  <2>13. \A j \in 0 .. HashSize : j # k => head'[j] = head[j]
    BY <2>8
  <2> DEFINE M == Put(L, k, l)
  <2>14. /\ Standing(unext', head', NameOf, {num}, M)
         /\ AllFree(NameOf, {}, L) => AllFree(NameOf, {num}, M)
    <3>2. k \in 0 .. HashSize
      BY <1>0
    <3>3. num \in T!Range(L[k])
      BY <2>7
    <3>4. Elsewhere(k, L, unext, head, unext', head')
      BY <2>12, <2>13 DEF Elsewhere
    <3>6. /\ Standing(unext', head', NameOf, {} \cup {num}, M)
          /\ AllFree(NameOf, {}, L) => AllFree(NameOf, {} \cup {num}, M)
      BY <3>2, <3>3, <3>4, <2>9, <2>10, Without
    <3>7. {} \cup {num} = {num}
      OBVIOUS
    <3> QED BY <3>6, <3>7
  <2> QED BY <2>11, <2>14
<1> QED BY <1>1, <1>2


-----------------------------------------------------------------------------
(* load_ucache.                                                              *)

LEMMA LinkedAppend ==
  ASSUME NEW link, NEW from, NEW l, Linked(Uids, link, from, 0, l), l # <<>>,
         NEW e \in Uids, e \notin T!Range(l),
         NEW link2, link2[e] = 0, link2[l[Len(l)]] = e,
         \A s \in T!Range(l) \ {l[Len(l)]} : link2[s] = link[s]
  PROVE  Linked(Uids, link2, from, 0, Append(l, e)) /\ T!Range(Append(l, e)) = T!Range(l) \cup {e}
<1> DEFINE m == Append(l, e)
<1>0. /\ l \in Seq(Uids) /\ Len(l) \in Nat \ {0} /\ T!IsInjective(l) /\ DOMAIN l = 1 .. Len(l)
      /\ \A i \in 1 .. Len(l) : l[i] \in Uids /\ l[i] \in T!Range(l) /\ l[i] # e
      /\ from = l[1]
  <2>1. l \in Seq(Uids) /\ Len(l) \in Nat /\ DOMAIN l = 1 .. Len(l)
        /\ \A i \in 1 .. Len(l) : l[i] \in Uids /\ l[i] \in T!Range(l)
    BY ListFacts
  <2>2. Len(l) # 0
    BY <2>1
  <2> QED BY <2>1, <2>2 DEF Linked
<1>1. /\ m \in Seq(Uids) /\ Len(m) = Len(l) + 1 /\ DOMAIN m = 1 .. Len(l) + 1
      /\ m[Len(l) + 1] = e /\ \A i \in 1 .. Len(l) : m[i] = l[i]
  BY <1>0
<1> HIDE DEF m
<1>2. \A i \in 1 .. Len(l) + 1 : i = Len(l) + 1 \/ i \in 1 .. Len(l)
  BY <1>0
<1>3. T!IsInjective(m)
  <2> SUFFICES ASSUME NEW i \in 1 .. Len(l) + 1, NEW j \in 1 .. Len(l) + 1, m[i] = m[j], i # j PROVE FALSE
    BY <1>1 DEF T!IsInjective
  <2>1. CASE i \in 1 .. Len(l) /\ j \in 1 .. Len(l)
    BY <2>1, <1>0, <1>1 DEF T!IsInjective
  <2>2. CASE i = Len(l) + 1
    BY <2>2, <1>0, <1>1, <1>2
  <2>3. CASE j = Len(l) + 1
    BY <2>3, <1>0, <1>1, <1>2
  <2> QED BY <2>1, <2>2, <2>3, <1>2
<1>4. ASSUME NEW i \in 1 .. Len(m) PROVE link2[m[i]] = IF i = Len(m) THEN 0 ELSE m[i + 1]
  <2>1. CASE i = Len(l) + 1
    BY <2>1, <1>1
  <2>2. CASE i = Len(l)
    BY <2>2, <1>0, <1>1
  <2>3. CASE i \in 1 .. Len(l) /\ i # Len(l)
    <3>1. i + 1 \in 1 .. Len(l) /\ i # Len(m) /\ Len(l) \in 1 .. Len(l)
      <4>1. Len(l) \in Nat \ {0} /\ Len(m) = Len(l) + 1
        BY <1>0, <1>1
      <4> QED BY <2>3, <4>1
    <3>2. l[i] # l[Len(l)]
      BY <2>3, <3>1, <1>0 DEF T!IsInjective
    <3>3. link2[l[i]] = link[l[i]] /\ link[l[i]] = l[i + 1]
      BY <2>3, <3>2, <1>0 DEF Linked
    <3> QED BY <2>3, <3>1, <3>3, <1>1
  <2> QED BY <2>1, <2>2, <2>3, <1>1, <1>2
<1>5. from = m[1] /\ m # <<>>
  BY <1>0, <1>1
<1>6. T!Range(m) = T!Range(l) \cup {e}
  <2>1. T!Range(m) = {m[i] : i \in 1 .. Len(l) + 1} /\ T!Range(l) = {l[i] : i \in 1 .. Len(l)}
    BY <1>0, <1>1 DEF T!Range
  <2>2. \A i \in 1 .. Len(l) : i \in 1 .. Len(l) + 1
    BY <1>0
  <2>3. Len(l) + 1 \in 1 .. Len(l) + 1
    BY <1>0
  <2> QED BY <2>1, <2>2, <2>3, <1>1, <1>2
<1>7. Linked(Uids, link2, from, 0, m)
  BY <1>1, <1>3, <1>4, <1>5 DEF Linked
<1> QED BY <1>6, <1>7 DEF m

(* A slot becomes the whole free chain; what was on it is lost.              *)
LEMMA NewFree ==
  ASSUME NEW link, NEW first, NEW name \in [Uids -> Ids], NEW out, NEW num \in Uids, num \in out,
         NEW L, Standing(link, first, name, out, L),
         link[num] = 0, NEW n \in Ids, Place(n) = 0,
         NEW first2, first2[0] = num, Elsewhere(0, L, link, first, link, first2),
         NEW name2, name2 = Renamed(name, num, n)
  PROVE  LET M == Put(L, 0, <<num>>) IN
         /\ Standing(link, first2, name2, out \ {num}, M)
         /\ AllFree(name, out, L) /\ L[0] = <<>> => AllFree(name2, out \ {num}, M)
<1> DEFINE M == Put(L, 0, <<num>>)
<1>0. M = [j \in 0 .. HashSize |-> IF j = 0 THEN <<num>> ELSE L[j]]
  BY DEF Put
<1> HIDE DEF M
<1>1. Linked(Uids, link, num, 0, <<num>>) /\ T!Range(<<num>>) = {num}
  <2>1. <<num>> \in Seq(Uids) /\ Len(<<num>>) = 1 /\ <<num>> # <<>> /\ <<num>>[1] = num
    OBVIOUS
  <2>2. T!IsInjective(<<num>>)
    BY DEF T!IsInjective
  <2> QED BY <2>1, <2>2 DEF Linked, T!Range
<1>2. HashSize \in Nat \ {0} /\ 0 \in 0 .. HashSize /\ \A j \in 0 .. HashSize : j # 0 => j \in 1 .. HashSize
  BY Places
<1>3. \A j \in 0 .. HashSize : T!Range(M[j]) = IF j = 0 THEN {num} ELSE T!Range(L[j])
  BY <1>0, <1>1, <1>2
<1>4. \A j \in 0 .. HashSize : Linked(Uids, link, first2[j], 0, M[j])
  <2> TAKE j \in 0 .. HashSize
  <2>1. CASE j = 0
    BY <2>1, <1>0, <1>1
  <2>2. CASE j # 0
    <3>1. M[j] = L[j] /\ first2[j] = first[j]
      BY <2>2, <1>0, <1>2 DEF Elsewhere
    <3> QED BY <3>1 DEF Standing
  <2> QED BY <2>1, <2>2
<1>5. name2[num] = n /\ \A s \in Uids \ {num} : name2[s] = name[s]
  BY DEF Renamed
<1>6. ASSUME NEW j \in 0 .. HashSize, NEW s \in T!Range(M[j])
      PROVE  s \notin out \ {num} /\ Place(name2[s]) = j
  <2>1. CASE j = 0
    BY <2>1, <1>3, <1>5
  <2>2. CASE j # 0
    <3>1. s \in T!Range(L[j]) /\ s \notin out /\ Place(name[s]) = j
      BY <2>2, <1>3 DEF Standing
    <3>2. s \in Uids
      BY <3>1, ListFacts DEF Standing
    <3> QED BY <3>1, <3>2, <1>5
  <2> QED BY <2>1, <2>2
<1>7. ASSUME NEW s \in Uids \ (out \ {num}), name2[s] \in Names \ Odd
      PROVE  s \in T!Range(M[NameHash[name2[s]]])
  <2>0. NameHash[name2[s]] \in 0 .. HashSize /\ NameHash[name2[s]] # 0 /\ Place(name2[s]) = NameHash[name2[s]]
    <3>1. name2[s] \in Names /\ name2[s] \in Ids
      BY <1>7 DEF Ids
    <3> QED BY <3>1, <1>7, Places
  <2>1. s # num
    BY <2>0, <1>5
  <2>2. s \in T!Range(L[NameHash[name2[s]]])
    BY <2>1, <1>5, <1>7 DEF Standing
  <2> QED BY <2>0, <2>2, <1>3
<1>8. ASSUME AllFree(name, out, L), L[0] = <<>> PROVE AllFree(name2, out \ {num}, M)
  <2>1. T!Range(L[0]) = {}
    BY <1>8 DEF T!Range
  <2> QED BY <2>1, <1>8, <1>2, <1>3, <1>5 DEF AllFree
<1>9. Standing(link, first2, name2, out \ {num}, M)
  BY <1>4, <1>6, <1>7 DEF Standing
<1> QED BY <1>8, <1>9 DEF M

(* A slot goes to the end of the free chain.                                 *)
LEMMA FreeAppend ==
  ASSUME NEW link, NEW first, NEW name \in [Uids -> Ids], NEW out, NEW num \in Uids, num \in out,
         NEW L, Standing(link, first, name, out, L), L[0] # <<>>,
         NEW link2, link2[num] = 0, link2[L[0][Len(L[0])]] = num,
         SameBut({num, L[0][Len(L[0])]}, link, link2),
         NEW n \in Ids, Place(n) = 0,
         NEW name2, name2 = Renamed(name, num, n)
  PROVE  LET M == Put(L, 0, Append(L[0], num)) IN
         /\ Standing(link2, first, name2, out \ {num}, M)
         /\ AllFree(name, out, L) => AllFree(name2, out \ {num}, M)
<1> DEFINE M == Put(L, 0, Append(L[0], num))  last == L[0][Len(L[0])]
<1>0. M = [j \in 0 .. HashSize |-> IF j = 0 THEN Append(L[0], num) ELSE L[j]]
  BY DEF Put
<1> HIDE DEF M
<1>1. HashSize \in Nat \ {0} /\ 0 \in 0 .. HashSize
  BY Places
<1>2. \A j \in 0 .. HashSize : Linked(Uids, link, first[j], 0, L[j]) /\ T!Range(L[j]) \subseteq Uids /\ num \notin T!Range(L[j])
  BY ListFacts DEF Standing
<1>3. last \in T!Range(L[0])
  <2>1. Len(L[0]) \in Nat /\ Len(L[0]) # 0
    BY <1>1, <1>2, ListFacts
  <2>2. Len(L[0]) \in 1 .. Len(L[0])
    BY <2>1
  <2> QED BY <2>2, <1>1, <1>2, ListFacts
<1>4. Linked(Uids, link2, first[0], 0, Append(L[0], num)) /\ T!Range(Append(L[0], num)) = T!Range(L[0]) \cup {num}
  <2>1. \A s \in T!Range(L[0]) \ {last} : link2[s] = link[s]
    BY <1>1, <1>2 DEF SameBut
  <2> QED BY <2>1, <1>1, <1>2, LinkedAppend
<1>5. \A j \in 0 .. HashSize : T!Range(M[j]) = T!Range(L[j]) \cup (IF j = 0 THEN {num} ELSE {})
  BY <1>0, <1>4
<1>6. \A j \in 0 .. HashSize : Linked(Uids, link2, first[j], 0, M[j])
  <2> TAKE j \in 0 .. HashSize
  <2>1. CASE j = 0
    BY <2>1, <1>0, <1>4
  <2>2. CASE j # 0
    <3>1. M[j] = L[j] /\ last \notin T!Range(L[j])
      BY <2>2, <1>0, <1>1, <1>3, OneChain
    <3>2. \A s \in T!Range(L[j]) : link2[s] = link[s]
      BY <3>1, <1>2 DEF SameBut
    <3>3. Linked(Uids, link2, first[j], 0, L[j])
      BY <3>2, <1>2, LinkedSame
    <3> QED BY <3>1, <3>3
  <2> QED BY <2>1, <2>2
<1>7. name2[num] = n /\ \A s \in Uids \ {num} : name2[s] = name[s]
  BY DEF Renamed
<1> HIDE DEF last
<1>8. ASSUME NEW j \in 0 .. HashSize, NEW s \in T!Range(M[j])
      PROVE  s \notin out \ {num} /\ Place(name2[s]) = j
  <2>1. CASE s = num
    BY <2>1, <1>2, <1>5, <1>7
  <2>2. CASE s # num
    <3>1. s \in T!Range(L[j]) /\ s \in Uids
      <4>1. s \in T!Range(L[j])
        BY <2>2, <1>5
      <4> QED BY <4>1, <1>2
    <3> QED BY <3>1, <2>2, <1>7 DEF Standing
  <2> QED BY <2>1, <2>2
<1>9. ASSUME NEW s \in Uids \ (out \ {num}), name2[s] \in Names \ Odd
      PROVE  s \in T!Range(M[NameHash[name2[s]]])
  <2>0. NameHash[name2[s]] \in 0 .. HashSize /\ NameHash[name2[s]] # 0 /\ Place(name2[s]) = NameHash[name2[s]]
    <3>1. name2[s] \in Names /\ name2[s] \in Ids
      BY <1>9 DEF Ids
    <3> QED BY <3>1, <1>9, Places
  <2>1. s # num
    BY <2>0, <1>7
  <2>2. s \in T!Range(L[NameHash[name2[s]]])
    BY <2>1, <1>7, <1>9 DEF Standing
  <2> QED BY <2>0, <2>2, <1>5
<1>10. ASSUME AllFree(name, out, L) PROVE AllFree(name2, out \ {num}, M)
  BY <1>10, <1>1, <1>5, <1>7 DEF AllFree
<1>11. Standing(link2, first, name2, out \ {num}, M)
  BY <1>6, <1>8, <1>9 DEF Standing
<1> QED BY <1>10, <1>11 DEF M

-----------------------------------------------------------------------------
(* A table while it is filled: the records as far as slot n are on their     *)
(* chains.  prev is the last slot of the free chain, or one of a free chain  *)
(* that is lost; without a duplicate nothing is.                             *)
NamesIn(t) == [s \in Uids |-> t.pw[s].name]
Table0 == [pw : [Uids -> Record], prev : 0 .. MaxUsers, head : [0 .. HashSize -> 0 .. MaxUsers], next : [Uids -> 0 .. MaxUsers]]
NoTwins(records) == \A i, j \in Uids : i # j /\ records[i].name = records[j].name => records[i].name = None

IsLast(s, l) == l # <<>> /\ s = l[Len(l)]
Stood(records, t, n, L) ==
  /\ Standing(t.next, t.head, NamesIn(t), n + 1 .. MaxUsers, L)
  /\ IsLast(t.prev, L[0]) \/ \A k \in 0 .. HashSize : t.prev \notin T!Range(L[k])
  /\ NoTwins(records) =>
       /\ AllFree(NamesIn(t), n + 1 .. MaxUsers, L)
       /\ IF t.prev = 0 THEN L[0] = <<>> ELSE IsLast(t.prev, L[0])
Filled(records, t, n) ==
  /\ t \in Table0 /\ t.prev \in 0 .. n
  /\ \A s \in n + 1 .. MaxUsers : t.pw[s] = records[s] /\ t.next[s] = 0
  /\ \A s \in Uids : t.pw[s].name \in {records[s].name, None}
  /\ \E L : Stood(records, t, n, L)

LEMMA TableFacts ==
  ASSUME NEW t \in Table0, NEW s \in Uids
  PROVE  /\ NamesIn(t) \in [Uids -> Ids]
         /\ NamesIn(t)[s] = t.pw[s].name /\ t.pw[s].name \in Ids
         /\ s \in Nat /\ s - 1 \in Nat /\ (s - 1) + 1 = s /\ s \in s .. MaxUsers /\ s # 0
         /\ (s .. MaxUsers) \ {s} = s + 1 .. MaxUsers
         /\ \A i \in s + 1 .. MaxUsers : i \in s .. MaxUsers /\ i \in Uids /\ i # s
<1>1. t.pw \in [Uids -> Record]
  BY DEF Table0
<1>2. \A i \in Uids : t.pw[i].name \in Ids
  BY <1>1 DEF Record
<1>3. MaxUsers \in Nat /\ s \in 1 .. MaxUsers
  BY MaxUsersAssumption DEF Uids
<1>4. (s .. MaxUsers) \ {s} = s + 1 .. MaxUsers /\ \A i \in s + 1 .. MaxUsers : i \in s .. MaxUsers /\ i \in 1 .. MaxUsers /\ i # s
  BY <1>3
<1> QED BY <1>2, <1>3, <1>4 DEF NamesIn, Uids

LEMMA AddEmptyFills ==
  ASSUME NEW records, NEW s \in Uids, NEW t, Filled(records, t, s - 1)
  PROVE  Filled(records, AddEmpty(t, s), s)
<1> DEFINE n == IF t.pw[s].name \in Odd THEN t.pw[s].name ELSE None
           t2 == AddEmpty(t, s)
           name == NamesIn(t)
           name2 == Renamed(name, s, n)
           out == s .. MaxUsers
<1>0. t \in Table0 /\ t.prev \in 0 .. s - 1 /\ t.next[s] = 0
  BY TableFacts, Places DEF Filled
<1>1. /\ t.pw \in [Uids -> Record] /\ t.prev \in 0 .. MaxUsers /\ t.head \in [0 .. HashSize -> 0 .. MaxUsers]
      /\ t.next \in [Uids -> 0 .. MaxUsers] /\ s \in 0 .. MaxUsers /\ 0 \in 0 .. HashSize
      /\ s \in Nat /\ s - 1 \in Nat /\ (s - 1) + 1 = s /\ s # 0
      /\ t.prev \in Nat /\ (t.prev # 0 => t.prev \in Uids /\ t.prev # s)
  <2>1. s \in 0 .. MaxUsers /\ t.prev \in Nat /\ (t.prev # 0 => t.prev \in Uids /\ t.prev # s)
    BY <1>0, MaxUsersAssumption DEF Uids
  <2> QED BY <1>0, <2>1, TableFacts, Places DEF Table0
<1>2. /\ t2.pw = [t.pw EXCEPT ![s].name = n] /\ t2.prev = s
      /\ t2.head = [t.head EXCEPT ![0] = IF t.prev = 0 THEN s ELSE @]
      /\ t2.next = (IF t.prev = 0 THEN t.next ELSE [t.next EXCEPT ![t.prev] = s])
      /\ t2 \in Table0
  <2>1. n \in Ids
    BY <1>0, TableFacts DEF Ids
  <2>2. [t.pw EXCEPT ![s].name = n] \in [Uids -> Record]
    <3>1. t.pw[s] \in Record
      BY <1>1
    <3>2. [t.pw[s] EXCEPT !.name = n] \in Record
      BY <3>1, <2>1 DEF Record
    <3> QED BY <1>1, <3>2
  <2> DEFINE a == [t.pw EXCEPT ![s].name = n]
             b == [t.head EXCEPT ![0] = IF t.prev = 0 THEN s ELSE @]
             c == IF t.prev = 0 THEN t.next ELSE [t.next EXCEPT ![t.prev] = s]
  <2>3. b \in [0 .. HashSize -> 0 .. MaxUsers] /\ c \in [Uids -> 0 .. MaxUsers]
    BY <1>1
  <2>4. t2 = [pw |-> a, prev |-> s, head |-> b, next |-> c]
    <3>1. PICK P, Q, H, X : t = [pw |-> P, prev |-> Q, head |-> H, next |-> X]
      BY <1>0 DEF Table0
    <3>2. t2.pw = a
      BY <3>1, <1>1 DEF AddEmpty
    <3>3. t2.prev = s /\ t2.head = b /\ t2.next = c
      BY <3>1 DEF AddEmpty
    <3>4. t2 = [i \in {"pw", "prev", "head", "next"} |-> t2[i]]
      BY <3>1 DEF AddEmpty
    <3> HIDE DEF t2, a, b, c
    <3> QED BY <3>2, <3>3, <3>4
  <2> HIDE DEF a, b, c, t2, n
  <2> QED BY <2>2, <2>3, <2>4, <1>1 DEF Table0, a, b, c
<1> HIDE DEF t2
<1>3. n \in Ids /\ Place(n) = 0 /\ name \in [Uids -> Ids] /\ NamesIn(t2) = name2 /\ n \in {t.pw[s].name, None}
  <2>1. n \in Ids /\ Place(n) = 0 /\ name \in [Uids -> Ids] /\ n \in {t.pw[s].name, None}
    BY <1>0, TableFacts, Places DEF Ids
  <2>2. NamesIn(t2) = name2
    <3>1. \A i \in Uids : t2.pw[i].name = IF i = s THEN n ELSE t.pw[i].name
      <4>1. t.pw[s] \in Record
        BY <1>1
      <4>2. [t.pw[s] EXCEPT !.name = n].name = n
        BY <4>1 DEF Record
      <4> HIDE DEF n
      <4> QED BY <1>1, <1>2, <4>2
    <3> HIDE DEF n
    <3> QED BY <3>1 DEF NamesIn, Renamed
  <2> QED BY <2>1, <2>2
<1> HIDE DEF n
<1>4. PICK L : Stood(records, t, s - 1, L)
  BY DEF Filled
<1>5. /\ Standing(t.next, t.head, name, out, L) /\ s \in out /\ out \ {s} = s + 1 .. MaxUsers
      /\ NoTwins(records) => AllFree(name, out, L) /\ IF t.prev = 0 THEN L[0] = <<>> ELSE IsLast(t.prev, L[0])
  BY <1>0, <1>1, <1>4, TableFacts DEF Stood
<1> HIDE DEF name2, name, out
<1>6. ASSUME NEW M, Standing(t2.next, t2.head, name2, out \ {s}, M),
             IsLast(s, M[0]) \/ \A k \in 0 .. HashSize : s \notin T!Range(M[k]),
             NoTwins(records) => AllFree(name2, out \ {s}, M) /\ IsLast(s, M[0])
      PROVE  \E m : Stood(records, t2, s, m)
  BY <1>1, <1>2, <1>3, <1>5, <1>6 DEF Stood
<1>6a. ASSUME t.prev # 0
      PROVE  /\ t2.head = t.head /\ t2.next = [t.next EXCEPT ![t.prev] = s]
             /\ \A i \in Uids : i # t.prev => t2.next[i] = t.next[i]
  <2>1. [t.head EXCEPT ![0] = t.head[0]] = t.head
    BY <1>1
  <2>2. t2.head = [t.head EXCEPT ![0] = t.head[0]] /\ t2.next = [t.next EXCEPT ![t.prev] = s]
    BY <1>2, <1>6a
  <2> QED BY <2>1, <2>2, <1>1
<1>7. \E m : Stood(records, t2, s, m)
  <2>1. CASE t.prev = 0
    <3> DEFINE M == Put(L, 0, <<s>>)
    <3>0. t2.head[0] = s /\ t2.next = t.next
      BY <2>1, <1>1, <1>2
    <3>1. Elsewhere(0, L, t.next, t.head, t.next, t2.head)
      BY <1>1, <1>2 DEF Elsewhere
    <3>2. /\ Standing(t.next, t2.head, name2, out \ {s}, M)
          /\ AllFree(name, out, L) /\ L[0] = <<>> => AllFree(name2, out \ {s}, M)
      BY <3>0, <3>1, <1>0, <1>3, <1>5, NewFree DEF name2
    <3>3. M[0] = <<s>> /\ Len(<<s>>) = 1 /\ <<s>> # <<>> /\ <<s>>[1] = s
      BY <1>1 DEF Put
    <3>4. IsLast(s, M[0])
      BY <3>3 DEF IsLast
    <3> HIDE DEF M
    <3> QED BY <2>1, <3>0, <3>2, <3>4, <1>5, <1>6
  <2>2. CASE t.prev # 0 /\ IsLast(t.prev, L[0])
    <3> DEFINE M == Put(L, 0, Append(L[0], s))
    <3>1. /\ t2.head = t.head /\ t2.next[s] = 0 /\ t2.next[t.prev] = s
          /\ SameBut({s, t.prev}, t.next, t2.next)
      <4>1. t2.head = t.head /\ SameBut({s, t.prev}, t.next, t2.next)
        BY <2>2, <1>6a DEF SameBut
      <4>2. t2.next = [t.next EXCEPT ![t.prev] = s] /\ t.prev \in Uids /\ t.prev # s
        BY <2>2, <1>1, <1>6a
      <4> QED BY <4>1, <4>2, <1>0, <1>1
    <3>2. t.prev = L[0][Len(L[0])] /\ L[0] # <<>>
      BY <2>2 DEF IsLast
    <3>3. /\ Standing(t2.next, t.head, name2, out \ {s}, M)
          /\ AllFree(name, out, L) => AllFree(name2, out \ {s}, M)
      BY <3>1, <3>2, <1>0, <1>3, <1>5, FreeAppend DEF name2
    <3>4. IsLast(s, M[0])
      <4>1. M[0] = Append(L[0], s) /\ L[0] \in Seq(Uids)
        BY <1>1, <1>5 DEF Put, Standing, Linked
      <4> HIDE DEF M
      <4>2. Len(M[0]) = Len(L[0]) + 1 /\ M[0][Len(L[0]) + 1] = s /\ M[0] # <<>>
        BY <4>1
      <4> QED BY <4>2 DEF IsLast
    <3> HIDE DEF M
    <3> QED BY <3>1, <3>3, <3>4, <1>5, <1>6
  <2>3. CASE t.prev # 0 /\ ~IsLast(t.prev, L[0])
    <3>1. \A k \in 0 .. HashSize : t.prev \notin T!Range(L[k])
      BY <2>3, <1>4 DEF Stood
    <3>2. ~NoTwins(records)
      BY <2>3, <1>5
    <3>3. t2.head = t.head /\ \A i \in Uids : i # t.prev => t2.next[i] = t.next[i]
      BY <2>3, <1>6a
    <3>4. \A k \in 0 .. HashSize : Linked(Uids, t2.next, t2.head[k], 0, L[k])
      <4> TAKE k \in 0 .. HashSize
      <4>1. Linked(Uids, t.next, t.head[k], 0, L[k])
        BY <1>5 DEF Standing
      <4>2. \A i \in T!Range(L[k]) : t2.next[i] = t.next[i]
        BY <4>1, <3>1, <3>3, ListFacts
      <4>3. Linked(Uids, t2.next, t.head[k], 0, L[k])
        BY <4>1, <4>2, LinkedSame
      <4> QED BY <4>3, <3>3
    <3>5. name2[s] = n /\ \A i \in Uids : i # s => name2[i] = name[i]
      BY <1>3 DEF name2, Renamed
    <3>6. \A k \in 0 .. HashSize : \A i \in T!Range(L[k]) : i # s /\ i \notin out \ {s} /\ Place(name2[i]) = k
      <4> TAKE k \in 0 .. HashSize
      <4>1. \A i \in T!Range(L[k]) : i \notin out /\ Place(name[i]) = k
        BY <1>5 DEF Standing
      <4>2. \A i \in T!Range(L[k]) : i \in Uids
        BY <1>5, ListFacts DEF Standing
      <4> QED BY <4>1, <4>2, <3>5, <1>5
    <3>7. \A i \in Uids \ (out \ {s}) : name2[i] \in Names \ Odd => i \in T!Range(L[NameHash[name2[i]]])
      <4> SUFFICES ASSUME NEW i \in Uids \ (out \ {s}), name2[i] \in Names \ Odd
                   PROVE  i \in T!Range(L[NameHash[name2[i]]])
        OBVIOUS
      <4>1. i # s
        <5>1. Place(name2[i]) # 0
          <6>1. name2[i] \in Names /\ Place(name2[i]) = NameHash[name2[i]] /\ Chain(name2[i]) = NameHash[name2[i]]
            BY Places
          <6> QED BY <6>1, Places
        <5> QED BY <5>1, <3>5, <1>3
      <4> QED BY <4>1, <3>5, <1>5 DEF Standing
    <3>8. Standing(t2.next, t2.head, name2, out \ {s}, L)
      BY <3>4, <3>6, <3>7 DEF Standing
    <3> QED BY <3>2, <3>6, <3>8, <1>6
  <2> QED BY <2>1, <2>2, <2>3
<1>8. t2.prev \in 0 .. s
  BY <1>1, <1>2
<1>9. \A i \in s + 1 .. MaxUsers : t2.pw[i] = records[i] /\ t2.next[i] = 0
  <2> TAKE i \in s + 1 .. MaxUsers
  <2>1. i \in (s - 1) + 1 .. MaxUsers /\ i \in Uids /\ i # s /\ i # t.prev
    <3>1. i \in s .. MaxUsers /\ i \in Uids /\ i # s
      BY <1>0, TableFacts
    <3> QED BY <3>1, <1>0, <1>1
  <2>2. t.pw[i] = records[i] /\ t.next[i] = 0
    BY <2>1 DEF Filled
  <2> QED BY <2>1, <2>2, <1>1, <1>2
<1>10. \A i \in Uids : t2.pw[i].name \in {records[i].name, None}
  <2> TAKE i \in Uids
  <2>1. t.pw[i].name \in {records[i].name, None}
    BY DEF Filled
  <2>2. t2.pw[i].name = NamesIn(t2)[i] /\ name[i] = t.pw[i].name
    BY DEF NamesIn, name
  <2>3. name2[i] = IF i = s THEN n ELSE name[i]
    BY <1>3 DEF name2, Renamed
  <2> QED BY <2>1, <2>2, <2>3, <1>3
<1> QED BY <1>2, <1>7, <1>8, <1>9, <1>10 DEF Filled, t2

(* A slot is put on the chain of its name. *)
LEMMA AddNamedFills ==
  ASSUME NEW records, NEW s \in Uids, NEW t, Filled(records, t, s - 1),
         t.pw[s].name \in Names \ Odd
  PROVE  Filled(records, AddNamed(t, s), s)
<1> DEFINE n == t.pw[s].name
           k == Chain(n)
           t2 == AddNamed(t, s)
           name == NamesIn(t)
           out == s .. MaxUsers
<1>0. t \in Table0 /\ t.prev \in 0 .. s - 1 /\ t.next[s] = 0
  BY TableFacts, Places DEF Filled
<1>1. /\ t.pw \in [Uids -> Record] /\ t.prev \in 0 .. MaxUsers /\ t.head \in [0 .. HashSize -> 0 .. MaxUsers]
      /\ t.next \in [Uids -> 0 .. MaxUsers] /\ s \in 0 .. MaxUsers /\ k \in 1 .. HashSize /\ k \in 0 .. HashSize /\ 0 \in 0 .. HashSize
      /\ s \in Nat /\ s - 1 \in Nat /\ (s - 1) + 1 = s /\ s # 0 /\ t.prev # s /\ k # 0
  <2>1. s \in 0 .. MaxUsers /\ t.prev # s
    BY <1>0, MaxUsersAssumption DEF Uids
  <2>2. n \in Ids
    BY DEF Ids
  <2>3. k \in 0 .. HashSize /\ k # 0
    BY <2>2, Places
  <2> HIDE DEF k
  <2>4. k \in 1 .. HashSize
    BY <2>3, Places
  <2> QED BY <1>0, <2>1, <2>3, <2>4, TableFacts, Places DEF Table0
<1>2. /\ t2.pw = t.pw /\ t2.prev = t.prev
      /\ t2.head = [t.head EXCEPT ![k] = s]
      /\ t2.next = [t.next EXCEPT ![s] = t.head[k]]
      /\ t2 \in Table0
  <2> DEFINE b == [t.head EXCEPT ![k] = s]
             c == [t.next EXCEPT ![s] = t.head[k]]
  <2>1. b \in [0 .. HashSize -> 0 .. MaxUsers] /\ c \in [Uids -> 0 .. MaxUsers]
    BY <1>1
  <2>2. PICK P, Q, H, X : t = [pw |-> P, prev |-> Q, head |-> H, next |-> X]
    BY <1>0 DEF Table0
  <2>3. t2.pw = t.pw /\ t2.prev = t.prev /\ t2.head = b /\ t2.next = c
    BY <2>2 DEF AddNamed
  <2>4. t2 = [i \in {"pw", "prev", "head", "next"} |-> t2[i]]
    BY <2>2 DEF AddNamed
  <2> HIDE DEF t2, b, c
  <2>5. t2 = [pw |-> t.pw, prev |-> t.prev, head |-> b, next |-> c]
    BY <2>3, <2>4
  <2>6. t2 \in Table0
    BY <1>1, <2>1, <2>5 DEF Table0
  <2> QED BY <2>3, <2>6 DEF b, c
<1> HIDE DEF t2
<1>3. /\ n \in Ids \ Odd /\ name \in [Uids -> Ids] /\ NamesIn(t2) = name /\ name = Renamed(name, s, n)
  <2>1. n \in Ids \ Odd /\ name \in [Uids -> Ids] /\ name[s] = n
    BY <1>0, TableFacts DEF Ids
  <2>2. NamesIn(t2) = name
    BY <1>2 DEF NamesIn
  <2> HIDE DEF name, n
  <2> QED BY <2>1, <2>2 DEF Renamed
<1>4. PICK L : Stood(records, t, s - 1, L)
  BY DEF Filled
<1>5. /\ Standing(t.next, t.head, name, out, L) /\ s \in out /\ out \ {s} = s + 1 .. MaxUsers
      /\ NoTwins(records) => AllFree(name, out, L) /\ IF t.prev = 0 THEN L[0] = <<>> ELSE IsLast(t.prev, L[0])
      /\ IsLast(t.prev, L[0]) \/ \A j \in 0 .. HashSize : t.prev \notin T!Range(L[j])
  BY <1>0, <1>1, <1>4, TableFacts DEF Stood
<1> HIDE DEF name, out, n
<1>6. Standing(t2.next, t.head, name, out, L)
  <2>1. ASSUME NEW j \in 0 .. HashSize PROVE Linked(Uids, t2.next, t.head[j], 0, L[j])
    <3>1. Linked(Uids, t.next, t.head[j], 0, L[j]) /\ s \notin T!Range(L[j])
      BY <1>5 DEF Standing
    <3>2. \A i \in T!Range(L[j]) : t2.next[i] = t.next[i]
      BY <3>1, <1>1, <1>2, ListFacts
    <3> QED BY <3>1, <3>2, LinkedSame
  <2> QED BY <2>1, <1>5 DEF Standing
<1> DEFINE M == Put(L, k, <<s>> \o L[k])
<1>7. /\ Standing(t2.next, t2.head, name, out \ {s}, M)
      /\ AllFree(name, out, L) => AllFree(name, out \ {s}, M)
  <2>1. t2.next[s] = t.head[k] /\ t2.head[k] = s /\ Elsewhere(k, L, t2.next, t.head, t2.next, t2.head)
    BY <1>1, <1>2 DEF Elsewhere
  <2> QED BY <2>1, <1>3, <1>5, <1>6, With
<1>8. M[0] = L[0] /\ \A j \in 0 .. HashSize : M[j] = IF j = k THEN <<s>> \o L[j] ELSE L[j]
  BY <1>1 DEF Put
<1> HIDE DEF M
<1>9. IsLast(t.prev, M[0]) \/ \A j \in 0 .. HashSize : t.prev \notin T!Range(M[j])
  <2>1. ASSUME NEW j \in 0 .. HashSize, t.prev \notin T!Range(L[j]) PROVE t.prev \notin T!Range(M[j])
    <3>1. L[k] \in Seq(Uids) /\ T!IsInjective(L[k]) /\ s \notin T!Range(L[k])
      BY <1>1, <1>5 DEF Standing, Linked
    <3>2. T!Range(<<s>> \o L[k]) = T!Range(L[k]) \cup {s}
      BY <3>1, T!PushOnto, NAssumption, UsersAssumption, GarbageAssumption, HashAssumption DEF T!NoUser
    <3> QED BY <2>1, <3>2, <1>1, <1>8
  <2> QED BY <2>1, <1>5, <1>8
<1>10. Stood(records, t2, s, M)
  BY <1>1, <1>2, <1>3, <1>5, <1>7, <1>8, <1>9 DEF Stood
<1>11. \A i \in s + 1 .. MaxUsers : t2.pw[i] = records[i] /\ t2.next[i] = 0
  <2> TAKE i \in s + 1 .. MaxUsers
  <2>1. i \in (s - 1) + 1 .. MaxUsers /\ i \in Uids /\ i # s
    <3>1. i \in s .. MaxUsers /\ i \in Uids /\ i # s
      BY <1>0, TableFacts
    <3> QED BY <3>1, <1>0, <1>1
  <2>2. t.pw[i] = records[i] /\ t.next[i] = 0
    BY <2>1 DEF Filled
  <2> QED BY <2>1, <2>2, <1>1, <1>2
<1>12. /\ t2.prev \in 0 .. s
       /\ \A i \in Uids : t2.pw[i].name \in {records[i].name, None}
  <2>1. t2.prev \in 0 .. s
    BY <1>0, <1>1, <1>2
  <2> QED BY <2>1, <1>2 DEF Filled
<1> QED BY <1>2, <1>10, <1>11, <1>12 DEF Filled, t2

(* A slot is taken off a list, wherever it stands.                           *)
Skips(S, o, f, g) == \A b \in S : b # o => g[b] = IF f[b] = o THEN f[o] ELSE f[b]

LEMMA TakenOut ==
  ASSUME NEW link, NEW from, NEW l, Linked(Uids, link, from, 0, l), NEW o \in T!Range(l),
         NEW link2, Skips(T!Range(l), o, link, link2),
         NEW from2, from2 = IF from = o THEN link[o] ELSE from
  PROVE  \E m : Linked(Uids, link2, from2, 0, m) /\ T!Range(m) = T!Range(l) \ {o}
<1>0. /\ l \in Seq(Uids) /\ T!IsInjective(l) /\ Len(l) \in Nat /\ DOMAIN l = 1 .. Len(l) /\ o # 0
      /\ \A i \in 1 .. Len(l) : l[i] \in T!Range(l)
      /\ \A i, j \in 1 .. Len(l) : l[i] = l[j] => i = j
      /\ l # <<>> /\ from = l[1]
  <2>1. l \in Seq(Uids) /\ T!IsInjective(l) /\ DOMAIN l = 1 .. Len(l) /\ Len(l) \in Nat
    BY ListFacts DEF Linked
  <2>2. o # 0 /\ \A i \in 1 .. Len(l) : l[i] \in T!Range(l)
    BY ListFacts
  <2>3. \E i \in 1 .. Len(l) : l[i] = o
    BY ListFacts
  <2>4. l # <<>>
    BY <2>1, <2>3
  <2>5. \A i, j \in 1 .. Len(l) : l[i] = l[j] => i = j
    BY <2>1 DEF T!IsInjective
  <2> QED BY <2>1, <2>2, <2>4, <2>5 DEF Linked
<1>1. \A b \in T!Range(l) : link[b] = o => \E p \in 2 .. Len(l) : b = l[p - 1] /\ o = l[p]
  <2> TAKE b \in T!Range(l)
  <2>1. link[b] # 0 => \E p \in 2 .. Len(l) : b = l[p - 1] /\ link[b] = l[p]
    BY ListNext
  <2> QED BY <2>1, <1>0
<1>2. CASE from = o
  <2>1. \A b \in T!Range(l) \ {from} : link2[b] = link[b]
    <3> SUFFICES ASSUME NEW b \in T!Range(l), b # o, link[b] = o PROVE FALSE
      BY <1>2 DEF Skips
    <3>1. PICK p \in 2 .. Len(l) : o = l[p]
      BY <1>1
    <3>2. p \in 1 .. Len(l) /\ 1 \in 1 .. Len(l) /\ p # 1
      BY <1>0
    <3> QED BY <3>1, <3>2, <1>0, <1>2
  <2>2. Linked(Uids, link2, link[from], 0, Tail(l)) /\ from = Head(l)
    BY <2>1, <1>0, LinkedPop
  <2>3. T!Range(Tail(l)) = T!Range(l) \ {o}
    BY <2>2, <1>0, <1>2, T!PopOff, NAssumption, UsersAssumption, GarbageAssumption, HashAssumption DEF T!NoUser
  <2> QED BY <2>2, <2>3, <1>2
<1>3. CASE from # o
  <2>1. PICK a \in T!Range(l) : link[a] = o
    BY <1>3, ListBefore
  <2>2. PICK p \in 2 .. Len(l) : a = l[p - 1] /\ o = l[p]
    BY <2>1, <1>1
  <2>3. p \in 1 .. Len(l) /\ p - 1 \in 1 .. Len(l) /\ p # p - 1
    BY <1>0
  <2>4. link2[l[p - 1]] = link[l[p]]
    <3>1. a # o
      BY <2>2, <2>3, <1>0
    <3> QED BY <3>1, <2>1, <2>2 DEF Skips
  <2>5. \A b \in T!Range(l) \ {l[p - 1], l[p]} : link2[b] = link[b]
    <3> SUFFICES ASSUME NEW b \in T!Range(l), b # a, b # o, link[b] = o PROVE FALSE
      BY <2>2 DEF Skips
    <3>1. PICK q \in 2 .. Len(l) : b = l[q - 1] /\ o = l[q]
      BY <1>1
    <3>2. q \in 1 .. Len(l)
      BY <1>0
    <3>3. q = p
      BY <3>1, <3>2, <2>2, <2>3, <1>0
    <3> QED BY <3>1, <3>3, <2>2
  <2>6. Linked(Uids, link2, from, 0, T!RemoveFirst(l, o))
    <3>1. Linked(Uids, link2, from, 0, T!RemoveFirst(l, l[p]))
      BY <2>4, <2>5, LinkedCut
    <3> QED BY <3>1, <2>2
  <2>7. T!Range(T!RemoveFirst(l, o)) = T!Range(l) \ {o}
    BY <1>0, T!TakeOff, NAssumption, UsersAssumption, GarbageAssumption, HashAssumption DEF T!NoUser
  <2> QED BY <2>6, <2>7, <1>3
<1> QED BY <1>2, <1>3

(* Of two records of a name the earlier one goes.                            *)
LEMMA EvictFills ==
  ASSUME NEW records, NEW s \in Uids, NEW t, Filled(records, t, s - 1),
         NEW o \in 1 .. s - 1, t.pw[o].name = t.pw[s].name, t.pw[s].name \in Names \ Odd
  PROVE  Filled(records, Evict(t, o), s - 1) /\ Evict(t, o).pw[s] = t.pw[s]
<1> DEFINE n == t.pw[o].name
           k == Chain(n)
           t2 == Evict(t, o)
           name == NamesIn(t)
           out == s .. MaxUsers
           firstless == [t.head EXCEPT ![k] = IF @ = o THEN t.next[o] ELSE @]
<1>0. t \in Table0 /\ t.prev \in 0 .. s - 1
  BY TableFacts, Places DEF Filled
<1>1. /\ t.pw \in [Uids -> Record] /\ t.prev \in 0 .. MaxUsers /\ t.head \in [0 .. HashSize -> 0 .. MaxUsers]
      /\ t.next \in [Uids -> 0 .. MaxUsers] /\ k \in 0 .. HashSize /\ k # 0 /\ 0 \in 0 .. HashSize
      /\ s \in Nat /\ s - 1 \in Nat /\ (s - 1) + 1 = s /\ o \in Uids /\ o # s /\ o \notin out /\ o # 0 /\ o \in 0 .. MaxUsers
  <2>1. o \in Uids /\ o # s /\ o \notin out /\ o # 0 /\ o \in 0 .. MaxUsers /\ s \in Nat
    BY MaxUsersAssumption DEF Uids
  <2>2. n \in Ids
    BY DEF Ids
  <2>3. k \in 0 .. HashSize /\ k # 0
    BY <2>2, Places
  <2> QED BY <1>0, <2>1, <2>3, TableFacts, Places DEF Table0
<1>2. /\ t2.pw = [t.pw EXCEPT ![o].name = None] /\ t2.prev = t.prev
      /\ t2.head = [firstless EXCEPT ![0] = o]
      /\ t2.next = [b \in Uids |-> IF b = o THEN 0 ELSE IF t.next[b] = o THEN t.next[o] ELSE t.next[b]]
      /\ t2 \in Table0
  <2> DEFINE a == [t.pw EXCEPT ![o].name = None]
             b == [t.head EXCEPT ![k] = IF @ = o THEN t.next[o] ELSE @, ![0] = o]
             c == [i \in Uids |-> IF i = o THEN 0 ELSE IF t.next[i] = o THEN t.next[o] ELSE t.next[i]]
  <2>1. a \in [Uids -> Record]
    <3>1. t.pw[o] \in Record
      BY <1>1
    <3>2. [t.pw[o] EXCEPT !.name = None] \in Record
      BY <3>1 DEF Record, Ids
    <3> QED BY <1>1, <3>2
  <2>2. t.next[o] \in 0 .. MaxUsers /\ 0 \in 0 .. MaxUsers
    BY <1>1, MaxUsersAssumption
  <2>3. b \in [0 .. HashSize -> 0 .. MaxUsers] /\ c \in [Uids -> 0 .. MaxUsers]
    BY <1>1, <2>2
  <2>4. PICK P, Q, H, X : t = [pw |-> P, prev |-> Q, head |-> H, next |-> X]
    BY <1>0 DEF Table0
  <2>5. t2.pw = a /\ t2.prev = t.prev
    BY <2>4 DEF Evict
  <2>6. t2.head = b
    <3>1. t2.head = [H EXCEPT ![Chain(P[o].name)] = IF @ = o THEN X[o] ELSE @, ![0] = o]
      BY <2>4 DEF Evict
    <3>2. t.head = H /\ t.pw = P /\ t.next = X
      BY <2>4
    <3> QED BY <3>1, <3>2
  <2>7. t2.next = c
    BY <2>4, <1>0 DEF Evict
  <2>8. t2 = [i \in {"pw", "prev", "head", "next"} |-> t2[i]]
    BY <2>4 DEF Evict
  <2>9. b = [firstless EXCEPT ![0] = o]
    OBVIOUS
  <2> HIDE DEF t2, a, b, c, firstless
  <2>10. t2 = [pw |-> a, prev |-> t.prev, head |-> b, next |-> c]
    BY <2>5, <2>6, <2>7, <2>8
  <2>11. t2 \in Table0
    BY <1>1, <2>1, <2>3, <2>10 DEF Table0
  <2> QED BY <2>5, <2>6, <2>7, <2>9, <2>11 DEF a, c
<1> HIDE DEF t2
<1>3. name \in [Uids -> Ids] /\ NamesIn(t2) = Renamed(name, o, None) /\ None \in Ids /\ Place(None) = 0
  <2>1. name \in [Uids -> Ids] /\ None \in Ids /\ Place(None) = 0
    BY <1>0, TableFacts, Places DEF Ids
  <2>2. \A i \in Uids : t2.pw[i].name = IF i = o THEN None ELSE t.pw[i].name
    <3>1. t.pw[o] \in Record
      BY <1>1
    <3>2. [t.pw[o] EXCEPT !.name = None].name = None
      BY <3>1 DEF Record
    <3> QED BY <1>1, <1>2, <3>2
  <2>3. NamesIn(t2) = Renamed(name, o, None)
    BY <2>2 DEF NamesIn, Renamed
  <2> QED BY <2>1, <2>3
<1>4. PICK L : Stood(records, t, s - 1, L)
  BY DEF Filled
<1>5. /\ Standing(t.next, t.head, name, out, L)
      /\ IsLast(t.prev, L[0]) \/ \A j \in 0 .. HashSize : t.prev \notin T!Range(L[j])
      /\ \A j \in 0 .. HashSize : Linked(Uids, t.next, t.head[j], 0, L[j])
  <2>1. /\ Standing(t.next, t.head, name, out, L)
        /\ IsLast(t.prev, L[0]) \/ \A j \in 0 .. HashSize : t.prev \notin T!Range(L[j])
    BY <1>0, <1>1, <1>4 DEF Stood
  <2> QED BY <2>1 DEF Standing
<1>6. o \in T!Range(L[k])
  <2>1. name[o] = n /\ n \in Names \ Odd
    BY <1>1 DEF NamesIn
  <2>2. k = NameHash[n]
    BY <2>1, Places
  <2> QED BY <2>1, <2>2, <1>1, <1>5 DEF Standing
<1>7. ~NoTwins(records)
  <2>1. t.pw[s] = records[s] /\ t.pw[o].name \in {records[o].name, None} /\ None \notin Names
    <3>1. s \in (s - 1) + 1 .. MaxUsers
      BY <1>0, <1>1, TableFacts
    <3> QED BY <3>1, <1>1, Places DEF Filled
  <2> QED BY <2>1, <1>1 DEF NoTwins
<1>8. \A b \in Uids : b # o => t2.next[b] = IF t.next[b] = o THEN t.next[o] ELSE t.next[b]
  BY <1>1, <1>2
<1> HIDE DEF name, out
<1>9. PICK l : Linked(Uids, t2.next, firstless[k], 0, l) /\ T!Range(l) = T!Range(L[k]) \ {o}
  <2>1. Skips(T!Range(L[k]), o, t.next, t2.next)
    <3>1. T!Range(L[k]) \subseteq Uids
      BY <1>1, <1>5, ListFacts
    <3> QED BY <3>1, <1>8 DEF Skips
  <2>2. firstless[k] = IF t.head[k] = o THEN t.next[o] ELSE t.head[k]
    BY <1>1
  <2>3. Linked(Uids, t.next, t.head[k], 0, L[k])
    BY <1>1, <1>5
  <2> HIDE DEF firstless, k
  <2> QED BY <2>1, <2>2, <2>3, <1>6, TakenOut
<1>10. Elsewhere(k, L, t.next, t.head, t2.next, firstless)
  <2> SUFFICES ASSUME NEW j \in 0 .. HashSize, j # k, NEW b \in T!Range(L[j]) PROVE t2.next[b] = t.next[b]
    BY <1>1 DEF Elsewhere
  <2>1. b \in Uids /\ b # o
    <3>1. o \notin T!Range(L[j])
      BY <1>1, <1>5, <1>6, OneChain
    <3> QED BY <3>1, <1>5, ListFacts
  <2>2. t.next[b] # o
    <3> SUFFICES ASSUME t.next[b] = o PROVE FALSE
      OBVIOUS
    <3>1. o \in T!Range(L[j])
      BY <1>1, <1>5, WhoLeads
    <3> QED BY <3>1, <1>1, <1>5, <1>6, OneChain
  <2> QED BY <2>1, <2>2, <1>8
<1> DEFINE A == Put(L, k, l)  M == Put(A, 0, <<o>>)
<1>11. Standing(t2.next, firstless, name, out \cup {o}, A)
  <2> HIDE DEF firstless, k
  <2> QED BY <1>1, <1>3, <1>5, <1>6, <1>9, <1>10, Without
<1>12. /\ \A j \in 0 .. HashSize : A[j] = IF j = k THEN l ELSE L[j]
       /\ \A j \in 0 .. HashSize : M[j] = IF j = 0 THEN <<o>> ELSE A[j]
  BY DEF Put
<1> HIDE DEF A, M
<1>13. Standing(t2.next, t2.head, NamesIn(t2), (out \cup {o}) \ {o}, M)
  <2>1. t2.head[0] = o /\ Elsewhere(0, A, t2.next, firstless, t2.next, t2.head)
    BY <1>1, <1>2 DEF Elsewhere
  <2>2. t2.next[o] = 0
    BY <1>1, <1>2
  <2> HIDE DEF firstless, k
  <2> QED BY <2>1, <2>2, <1>1, <1>3, <1>11, NewFree DEF M
<1>14. (out \cup {o}) \ {o} = s .. MaxUsers
  BY <1>1 DEF out
<1>15. \A j \in 0 .. HashSize : t2.prev \notin T!Range(M[j])
  <2> SUFFICES ASSUME NEW j \in 0 .. HashSize, t.prev \in T!Range(M[j]) PROVE FALSE
    BY <1>2
  <2>1. T!Range(<<o>>) = {o}
    BY DEF T!Range
  <2>2. CASE IsLast(t.prev, L[0])
    <3>1. t.prev \in T!Range(L[0])
      <4>1. L[0] # <<>> /\ t.prev = L[0][Len(L[0])] /\ L[0] \in Seq(Uids)
        BY <2>2, <1>1, <1>5 DEF IsLast, Linked
      <4>2. Len(L[0]) \in 1 .. Len(L[0])
        BY <4>1
      <4> QED BY <4>1, <4>2, ListRange
    <3>2. \A i \in 0 .. HashSize : i # 0 => t.prev \notin T!Range(L[i])
      BY <3>1, <1>1, <1>5, OneChain
    <3>3. t.prev # o
      BY <3>2, <1>1, <1>6
    <3> QED BY <3>2, <3>3, <2>1, <1>1, <1>9, <1>12
  <2>3. CASE \A i \in 0 .. HashSize : t.prev \notin T!Range(L[i])
    BY <2>1, <2>3, <1>1, <1>6, <1>9, <1>12
  <2> QED BY <2>2, <2>3, <1>5
<1>16. Stood(records, t2, s - 1, M)
  BY <1>1, <1>7, <1>13, <1>14, <1>15 DEF Stood
<1>17. \A i \in (s - 1) + 1 .. MaxUsers : t2.pw[i] = records[i] /\ t2.next[i] = 0
  <2> TAKE i \in (s - 1) + 1 .. MaxUsers
  <2>1. i \in Uids /\ i # o
    BY <1>1 DEF Uids
  <2>2. t.pw[i] = records[i] /\ t.next[i] = 0
    BY DEF Filled
  <2>3. t2.pw[i] = t.pw[i]
    BY <2>1, <1>1, <1>2
  <2> QED BY <2>1, <2>2, <2>3, <1>1, <1>8
<1>18. \A i \in Uids : t2.pw[i].name \in {records[i].name, None}
  <2> TAKE i \in Uids
  <2>1. t.pw[i].name \in {records[i].name, None}
    BY DEF Filled
  <2>2. t2.pw[i].name = NamesIn(t2)[i] /\ name[i] = t.pw[i].name
    BY DEF NamesIn, name
  <2>3. NamesIn(t2)[i] = IF i = o THEN None ELSE name[i]
    BY <1>3 DEF Renamed
  <2> QED BY <2>1, <2>2, <2>3
<1>19. t2.pw[s] = t.pw[s] /\ t2.prev \in 0 .. s - 1
  BY <1>0, <1>1, <1>2
<1> QED BY <1>2, <1>16, <1>17, <1>18, <1>19 DEF Filled, t2

LEMMA FillFills ==
  ASSUME NEW records, NEW s \in Uids, NEW t, Filled(records, t, s - 1)
  PROVE  Filled(records, FillUcache(t, s), s)
<1> DEFINE r == t.pw[s]
           twin == {o \in 1 .. s - 1 : t.pw[o].name = r.name}
           o == CHOOSE x \in twin : TRUE
<1>1. CASE r.name \in Odd \cup {None}
  <2>1. FillUcache(t, s) = AddEmpty(t, s)
    BY <1>1 DEF FillUcache
  <2> QED BY <2>1, AddEmptyFills
<1>2. CASE r.name \notin Odd \cup {None}
  <2>1. r.name \in Names \ Odd
    <3>1. r.name \in Ids
      BY TableFacts DEF Filled
    <3> QED BY <3>1, <1>2 DEF Ids
  <2>2. CASE twin = {}
    <3>1. FillUcache(t, s) = AddNamed(t, s)
      BY <1>2, <2>2 DEF FillUcache
    <3> QED BY <3>1, <2>1, AddNamedFills
  <2>3. CASE twin # {} /\ r.logins > t.pw[o].logins
    <3>1. FillUcache(t, s) = AddNamed(Evict(t, o), s)
      BY <1>2, <2>3 DEF FillUcache
    <3>2. o \in 1 .. s - 1 /\ t.pw[o].name = r.name
      BY <2>3
    <3> HIDE DEF o, twin
    <3>3. Filled(records, Evict(t, o), s - 1) /\ Evict(t, o).pw[s] = t.pw[s]
      BY <3>2, <2>1, EvictFills
    <3> QED BY <3>1, <3>3, <2>1, AddNamedFills
  <2>4. CASE twin # {} /\ ~(r.logins > t.pw[o].logins)
    <3>1. FillUcache(t, s) = AddEmpty(t, s)
      BY <1>2, <2>4 DEF FillUcache
    <3> QED BY <3>1, AddEmptyFills
  <2> QED BY <2>2, <2>3, <2>4
<1> QED BY <1>1, <1>2

(* What becomes of the records: each keeps its password and level, names     *)
(* are unique as far as the chains are built, and who is alone keeps his.    *)
Alone(records, i) == \A j \in Uids : records[j].name = records[i].name => j = i
Loaded(records, t, n) ==
  /\ \A i \in Uids : t.pw[i].who = records[i].who /\ t.pw[i].level = records[i].level
  /\ \A i, j \in 1 .. n : t.pw[i].name \in Names \ Odd /\ t.pw[j].name = t.pw[i].name => i = j
  /\ \A i \in Uids : Alone(records, i) => t.pw[i].name = records[i].name

LEMMA NameWritten ==
  ASSUME NEW f \in [Uids -> Record], NEW s \in Uids, NEW n, NEW g, g = [f EXCEPT ![s].name = n]
  PROVE  \A i \in Uids : /\ g[i].who = f[i].who /\ g[i].level = f[i].level
                         /\ g[i].name = IF i = s THEN n ELSE f[i].name
<1> TAKE i \in Uids
<1>1. f[s] \in Record
  OBVIOUS
<1>2. CASE i = s
  <2>1. g[i] = [f[s] EXCEPT !.name = n]
    BY <1>2
  <2> QED BY <1>1, <1>2, <2>1 DEF Record
<1>3. CASE i # s
  BY <1>3
<1> QED BY <1>2, <1>3

LEMMA FillLoads ==
  ASSUME NEW records, NEW s \in Uids, NEW t, Filled(records, t, s - 1), Loaded(records, t, s - 1)
  PROVE  Loaded(records, FillUcache(t, s), s)
<1> DEFINE r == t.pw[s]
           twin == {o \in 1 .. s - 1 : t.pw[o].name = r.name}
           o == CHOOSE x \in twin : TRUE
<1>1. /\ t \in Table0 /\ t.pw \in [Uids -> Record] /\ r = records[s] /\ r.name \in Ids
      /\ \A i \in Uids : t.pw[i].name \in {records[i].name, None}
      /\ 1 .. s = (1 .. s - 1) \cup {s} /\ s \notin 1 .. s - 1 /\ 1 .. s - 1 \subseteq Uids
  <2>1. s \in (s - 1) + 1 .. MaxUsers /\ 1 .. s = (1 .. s - 1) \cup {s} /\ s \notin 1 .. s - 1 /\ 1 .. s - 1 \subseteq Uids
    BY MaxUsersAssumption DEF Uids
  <2> QED BY <2>1, TableFacts DEF Filled, Table0
<1>2. /\ \A i \in Uids : t.pw[i].who = records[i].who /\ t.pw[i].level = records[i].level
      /\ \A i, j \in 1 .. s - 1 : t.pw[i].name \in Names \ Odd /\ t.pw[j].name = t.pw[i].name => i = j
      /\ \A i \in Uids : Alone(records, i) => t.pw[i].name = records[i].name
  BY DEF Loaded
<1>3. \A i \in 1 .. s - 1 : t.pw[i].name = r.name /\ r.name # None => ~Alone(records, s) /\ ~Alone(records, i)
  <2> SUFFICES ASSUME NEW i \in 1 .. s - 1, t.pw[i].name = r.name, r.name # None
               PROVE  ~Alone(records, s) /\ ~Alone(records, i)
    OBVIOUS
  <2>1. i \in Uids /\ i # s
    BY <1>1
  <2>2. records[i].name = records[s].name
    BY <1>1, <2>1
  <2> QED BY <2>1, <2>2 DEF Alone
<1>4. ASSUME NEW n, FillUcache(t, s) = AddEmpty(t, s), n = IF r.name \in Odd THEN r.name ELSE None,
             r.name \in Odd \cup {None} \/ twin # {}
      PROVE  Loaded(records, FillUcache(t, s), s)
  <2> DEFINE t2 == AddEmpty(t, s)
  <2>1. t2.pw = [t.pw EXCEPT ![s].name = n]
    <3>1. PICK P, Q, H, X : t = [pw |-> P, prev |-> Q, head |-> H, next |-> X]
      BY <1>1 DEF Table0
    <3> QED BY <3>1, <1>1, <1>4 DEF AddEmpty
  <2> HIDE DEF t2
  <2>2. \A i \in Uids : t2.pw[i].who = t.pw[i].who /\ t2.pw[i].level = t.pw[i].level /\ t2.pw[i].name = IF i = s THEN n ELSE t.pw[i].name
    BY <1>1, <2>1, NameWritten
  <2>3. n \notin Names \ Odd
    BY <1>4, Places
  <2>4. \A i, j \in 1 .. s : t2.pw[i].name \in Names \ Odd /\ t2.pw[j].name = t2.pw[i].name => i = j
    BY <1>1, <1>2, <2>2, <2>3
  <2>5. Alone(records, s) => n = records[s].name
    <3>1. CASE r.name \in Odd \cup {None}
      BY <1>1, <1>4, <3>1
    <3>2. CASE r.name \notin Odd \cup {None}
      BY <1>3, <1>4, <3>2
    <3> QED BY <3>1, <3>2
  <2> HIDE DEF r, twin
  <2>6. \A i \in Uids : Alone(records, i) => t2.pw[i].name = records[i].name
    BY <1>2, <2>2, <2>5
  <2> QED BY <1>2, <1>4, <2>2, <2>4, <2>6 DEF Loaded, t2
<1>5. \A u : AddNamed(u, s).pw = u.pw \/ u \notin Table0
  <2> SUFFICES ASSUME NEW u \in Table0 PROVE AddNamed(u, s).pw = u.pw
    OBVIOUS
  <2>1. PICK P, Q, H, X : u = [pw |-> P, prev |-> Q, head |-> H, next |-> X]
    BY DEF Table0
  <2> QED BY <2>1 DEF AddNamed
<1>6. CASE r.name \in Odd \cup {None}
  <2>1. FillUcache(t, s) = AddEmpty(t, s)
    BY <1>6 DEF FillUcache
  <2> QED BY <1>4, <1>6, <2>1
<1>7. CASE r.name \notin Odd \cup {None} /\ twin = {}
  <2>1. FillUcache(t, s) = AddNamed(t, s)
    BY <1>7 DEF FillUcache
  <2>2. FillUcache(t, s).pw = t.pw
    BY <1>1, <1>5, <2>1
  <2>3. \A i \in 1 .. s - 1 : t.pw[i].name # r.name
    BY <1>7
  <2>4. \A i, j \in 1 .. s : t.pw[i].name \in Names \ Odd /\ t.pw[j].name = t.pw[i].name => i = j
    BY <1>1, <1>2, <2>3
  <2> QED BY <1>2, <2>2, <2>4 DEF Loaded
<1>8. CASE r.name \notin Odd \cup {None} /\ twin # {} /\ r.logins > t.pw[o].logins
  <2>1. FillUcache(t, s) = AddNamed(Evict(t, o), s)
    BY <1>8 DEF FillUcache
  <2>2. o \in 1 .. s - 1 /\ t.pw[o].name = r.name /\ r.name \in Names \ Odd
    BY <1>1, <1>8 DEF Ids
  <2> HIDE DEF o, twin
  <2> DEFINE t2 == Evict(t, o)
  <2>3. t2 \in Table0
    BY <2>2, EvictFills DEF Filled
  <2>4. t2.pw = [t.pw EXCEPT ![o].name = None]
    <3>1. PICK P, Q, H, X : t = [pw |-> P, prev |-> Q, head |-> H, next |-> X]
      BY <1>1 DEF Table0
    <3> QED BY <3>1 DEF Evict
  <2> HIDE DEF t2
  <2>5. /\ o \in Uids /\ o # s
        /\ \A i \in Uids : t2.pw[i].who = t.pw[i].who /\ t2.pw[i].level = t.pw[i].level /\ t2.pw[i].name = IF i = o THEN None ELSE t.pw[i].name
    BY <1>1, <2>2, <2>4, NameWritten
  <2>6. \A i \in 1 .. s - 1 : i # o => t.pw[i].name # r.name
    BY <1>2, <2>2
  <2> HIDE DEF r
  <2>7. ASSUME NEW i \in 1 .. s, NEW j \in 1 .. s, t2.pw[i].name \in Names \ Odd, t2.pw[j].name = t2.pw[i].name PROVE i = j
    <3>1. i # o /\ j # o
      BY <1>1, <2>5, <2>7, Places
    <3>2. t.pw[i].name \in Names \ Odd /\ t.pw[j].name = t.pw[i].name
      BY <1>1, <2>5, <2>7, <3>1
    <3> QED BY <1>1, <1>2, <2>6, <3>1, <3>2 DEF r
  <2>8. \A i \in Uids : Alone(records, i) => t2.pw[i].name = records[i].name
    BY <1>2, <1>3, <2>2, <2>5, Places
  <2>9. FillUcache(t, s).pw = t2.pw
    BY <1>5, <2>1, <2>3 DEF t2
  <2> QED BY <1>2, <2>5, <2>7, <2>8, <2>9 DEF Loaded
<1>9. CASE r.name \notin Odd \cup {None} /\ twin # {} /\ ~(r.logins > t.pw[o].logins)
  <2>1. FillUcache(t, s) = AddEmpty(t, s)
    BY <1>9 DEF FillUcache
  <2> QED BY <1>4, <1>9, <2>1
<1> QED BY <1>6, <1>7, <1>8, <1>9

(* The records are taken one after another. *)
LEMMA LoadExists ==
  ASSUME NEW t0
  PROVE  \E f : f = [i \in Nat |-> IF i = 0 THEN t0 ELSE FillUcache(f[i - 1], i)]
<1> DEFINE Upto(n, f) == \A i \in 0 .. n : f[i] = IF i = 0 THEN t0 ELSE FillUcache(f[i - 1], i)
<1>1. \A n \in Nat : \E f : Upto(n, f)
  <2> DEFINE S == {n \in Nat : ~ \E f : Upto(n, f)}
  <2>1. SUFFICES ASSUME S # {} PROVE FALSE
    OBVIOUS
  <2>2. PICK n \in S : \A m \in S : n <= m
    BY <2>1, Least
  <2>3. CASE n = 0
    <3>1. Upto(0, [i \in Nat |-> t0])
      OBVIOUS
    <3> QED BY <3>1, <2>2, <2>3
  <2>4. CASE n # 0
    <3>1. n - 1 \in Nat /\ n - 1 \notin S
      <4>1. n \in Nat /\ \A m \in S : n <= m
        BY <2>2
      <4> HIDE DEF S
      <4>2. n - 1 \in Nat /\ ~(n <= n - 1)
        BY <4>1, <2>4
      <4> QED BY <4>1, <4>2
    <3>2. PICK f : Upto(n - 1, f)
      BY <3>1
    <3> DEFINE last == FillUcache(f[n - 1], n)
    <3> DEFINE g == [i \in Nat |-> IF i = n THEN last ELSE f[i]]
    <3>3. \A i \in 0 .. n - 1 : g[i] = f[i]
      BY <2>2
    <3>4. g[n] = last
      BY <2>2
    <3> HIDE DEF g
    <3>5. Upto(n, g)
      <4> SUFFICES ASSUME NEW i \in 0 .. n PROVE g[i] = IF i = 0 THEN t0 ELSE FillUcache(g[i - 1], i)
        OBVIOUS
      <4>1. CASE i = n
        <5>1. n - 1 \in 0 .. n - 1
          BY <3>1
        <5>2. g[n - 1] = f[n - 1]
          BY <3>3, <5>1
        <5> QED BY <4>1, <2>4, <3>4, <5>2
      <4>2. CASE i # n /\ i # 0
        <5>1. i \in 0 .. n - 1 /\ i - 1 \in 0 .. n - 1
          BY <4>2, <2>2
        <5>2. g[i - 1] = f[i - 1] /\ g[i] = f[i] /\ f[i] = FillUcache(f[i - 1], i)
          BY <4>2, <5>1, <3>2, <3>3
        <5> QED BY <4>2, <5>2
      <4>3. CASE i # n /\ i = 0
        BY <4>3, <3>1, <3>2, <3>3
      <4> QED BY <4>1, <4>2, <4>3
    <3> QED BY <3>5, <2>2
  <2> QED BY <2>3, <2>4
<1>2. \A n, m \in Nat : \A f, g : Upto(n, f) /\ Upto(m, g) /\ m <= n => f[m] = g[m]
  <2> DEFINE S == {m \in Nat : \E n \in Nat : \E f, g :
                     Upto(n, f) /\ Upto(m, g) /\ m <= n /\ f[m] # g[m]}
  <2>1. SUFFICES ASSUME S # {} PROVE FALSE
    OBVIOUS
  <2>2. PICK m \in S : \A k \in S : m <= k
    BY <2>1, Least
  <2>n. PICK n \in Nat :
          \E f, g : Upto(n, f) /\ Upto(m, g) /\ m <= n /\ f[m] # g[m]
    BY <2>2
  <2>3. PICK f, g : Upto(n, f) /\ Upto(m, g) /\ m <= n /\ f[m] # g[m]
    BY <2>n
  <2>4. CASE m = 0
    BY <2>3, <2>4
  <2>5. CASE m # 0
    <3>0. m \in Nat /\ m - 1 \in Nat /\ m - 1 <= n
      BY <2>2, <2>3, <2>5
    <3>1. m - 1 \notin S
      <4> HIDE DEF S
      <4> QED BY <3>0, <2>2
    <3>2. Upto(m - 1, g)
      BY <2>2, <2>3
    <3>3. f[m - 1] = g[m - 1]
      BY <3>0, <3>1, <3>2, <2>3
    <3>4. m \in 0 .. n /\ m \in 0 .. m
      BY <2>2, <2>3
    <3>5. f[m] = FillUcache(f[m - 1], m) /\ g[m] = FillUcache(g[m - 1], m)
      BY <3>4, <2>3, <2>5
    <3> QED BY <3>3, <3>5, <2>3
  <2> QED BY <2>4, <2>5
<1> DEFINE at == [i \in Nat |-> (CHOOSE f : Upto(i, f))[i]]
<1>3. \A i \in Nat : Upto(i, CHOOSE f : Upto(i, f))
  BY <1>1
<1>4. ASSUME NEW i \in Nat PROVE at[i] = IF i = 0 THEN t0 ELSE FillUcache(at[i - 1], i)
  <2> DEFINE f == CHOOSE f : Upto(i, f)
  <2>1. Upto(i, f) /\ at[i] = f[i]
    BY <1>3
  <2>2. CASE i = 0
    BY <2>1, <2>2
  <2>3. CASE i # 0
    <3> DEFINE g == CHOOSE g : Upto(i - 1, g)
    <3>1. i - 1 \in Nat /\ i - 1 <= i /\ i \in 0 .. i
      BY <2>3
    <3>2. Upto(i - 1, g) /\ at[i - 1] = g[i - 1]
      BY <3>1, <1>3
    <3> HIDE DEF f, g, at
    <3>3. f[i - 1] = g[i - 1]
      <4> HIDE DEF Upto
      <4> QED BY <1>2, <2>1, <3>1, <3>2
    <3>4. f[i] = FillUcache(f[i - 1], i)
      BY <2>1, <2>3, <3>1
    <3> QED BY <2>1, <2>3, <3>2, <3>3, <3>4
  <2> QED BY <2>2, <2>3
<1>5. at = [i \in Nat |-> IF i = 0 THEN t0 ELSE FillUcache(at[i - 1], i)]
  <2>1. at = [i \in Nat |-> at[i]]
    OBVIOUS
  <2> HIDE DEF at
  <2> QED BY <2>1, <1>4
<1> HIDE DEF at
<1> QED BY <1>5

LEMMA LoadFills ==
  ASSUME NEW records \in [Uids -> Record]
  PROVE  Filled(records, LoadUcache(records), MaxUsers) /\ Loaded(records, LoadUcache(records), MaxUsers)
<1> DEFINE t0 == [pw |-> records, prev |-> 0, head |-> [k \in 0 .. HashSize |-> 0], next |-> [i \in Uids |-> 0]]
           D(f) == [i \in Nat |-> IF i = 0 THEN t0 ELSE FillUcache(f[i - 1], i)]
           table == CHOOSE f : f = D(f)
<1>1. table = D(table)
  <2>1. \E f : f = D(f)
    <3> HIDE DEF t0
    <3> QED BY LoadExists
  <2> HIDE DEF D
  <2> QED BY <2>1
<1>2. LoadUcache(records) = table[MaxUsers]
  BY DEF LoadUcache
<1> HIDE DEF table
<1>3. table[0] = t0 /\ \A i \in Nat \ {0} : table[i] = FillUcache(table[i - 1], i)
  <2> HIDE DEF t0
  <2>1. \A i \in Nat : D(table)[i] = IF i = 0 THEN t0 ELSE FillUcache(table[i - 1], i)
    OBVIOUS
  <2> HIDE DEF D
  <2>2. \A i \in Nat : table[i] = IF i = 0 THEN t0 ELSE FillUcache(table[i - 1], i)
    BY <1>1, <2>1
  <2>3. table[0] = t0
    BY <2>2
  <2> QED BY <2>2, <2>3
<1> HIDE DEF D
<1>4. Filled(records, t0, 0)
  <2> DEFINE L == [k \in 0 .. HashSize |-> <<>>]
  <2>1. /\ t0 \in Table0 /\ t0.prev = 0 /\ t0.pw = records /\ 0 + 1 .. MaxUsers = Uids
        /\ \A s \in Uids : t0.next[s] = 0
        /\ \A k \in 0 .. HashSize : t0.head[k] = 0
    <3>1. 0 \in 0 .. MaxUsers /\ 0 + 1 .. MaxUsers = Uids
      BY MaxUsersAssumption DEF Uids
    <3> QED BY <3>1 DEF Table0
  <2> HIDE DEF t0
  <2>2. \A k \in 0 .. HashSize : L[k] = <<>> /\ T!Range(L[k]) = {} /\ Linked(Uids, t0.next, t0.head[k], 0, L[k])
    <3>1. T!Range(<<>>) = {} /\ T!IsInjective(<<>>)
      BY DEF T!Range, T!IsInjective
    <3> QED BY <3>1, <2>1 DEF Linked
  <2> HIDE DEF L
  <2>3. Standing(t0.next, t0.head, NamesIn(t0), 0 + 1 .. MaxUsers, L)
    BY <2>1, <2>2 DEF Standing
  <2>4. AllFree(NamesIn(t0), 0 + 1 .. MaxUsers, L)
    BY <2>1 DEF AllFree
  <2>5. 0 \in 0 .. HashSize
    BY Places
  <2>6. Stood(records, t0, 0, L)
    BY <2>1, <2>2, <2>3, <2>4, <2>5 DEF Stood
  <2>7. t0.prev \in 0 .. 0 /\ \A s \in Uids : t0.pw[s].name \in {records[s].name, None}
    BY <2>1
  <2> QED BY <2>1, <2>6, <2>7 DEF Filled
<1>5. Loaded(records, t0, 0)
  <2>1. t0.pw = records /\ 1 .. 0 = {}
    OBVIOUS
  <2> HIDE DEF t0
  <2> QED BY <2>1 DEF Loaded
<1> HIDE DEF t0
<1>6. \A i \in Nat : i <= MaxUsers => Filled(records, table[i], i) /\ Loaded(records, table[i], i)
  <2> DEFINE S == {i \in Nat : ~(i <= MaxUsers => Filled(records, table[i], i) /\ Loaded(records, table[i], i))}
  <2>1. SUFFICES ASSUME S # {} PROVE FALSE
    OBVIOUS
  <2>2. PICK m \in S : \A k \in S : m <= k
    BY <2>1, Least
  <2>3. m \in Nat /\ m <= MaxUsers /\ ~(Filled(records, table[m], m) /\ Loaded(records, table[m], m))
    BY <2>2
  <2>4. m # 0
    BY <2>3, <1>3, <1>4, <1>5
  <2>5. m - 1 \in Nat /\ ~(m <= m - 1) /\ m - 1 <= MaxUsers /\ m \in Uids /\ m \in Nat \ {0}
    BY <2>3, <2>4, MaxUsersAssumption DEF Uids
  <2>6. m - 1 \notin S
    <3> HIDE DEF S
    <3> QED BY <2>2, <2>5
  <2>7. Filled(records, table[m - 1], m - 1) /\ Loaded(records, table[m - 1], m - 1)
    BY <2>5, <2>6
  <2>8. Filled(records, FillUcache(table[m - 1], m), m) /\ Loaded(records, FillUcache(table[m - 1], m), m)
    BY <2>5, <2>7, FillFills, FillLoads
  <2> QED BY <2>3, <2>5, <2>8, <1>3
<1> QED BY <1>2, <1>6, MaxUsersAssumption

(* What the table is like after a start, with the invariant of its chains.   *)
LEMMA LoadStands ==
  ASSUME NEW records \in [Uids -> Record], NEW t, t = LoadUcache(records)
  PROVE  /\ t.pw \in [Uids -> Record] /\ t.head \in [0 .. HashSize -> 0 .. MaxUsers] /\ t.next \in [Uids -> 0 .. MaxUsers]
         /\ \E L : /\ Standing(t.next, t.head, NamesIn(t), {}, L)
                   /\ NoTwins(records) => AllFree(NamesIn(t), {}, L)
         /\ \A s \in Uids : t.pw[s].name \in {records[s].name, None}
<1>1. Filled(records, t, MaxUsers)
  BY LoadFills
<1>2. MaxUsers + 1 .. MaxUsers = {}
  BY MaxUsersAssumption
<1>3. PICK L : Stood(records, t, MaxUsers, L)
  BY <1>1 DEF Filled
<1>4. Standing(t.next, t.head, NamesIn(t), {}, L) /\ (NoTwins(records) => AllFree(NamesIn(t), {}, L))
  BY <1>2, <1>3 DEF Stood
<1>5. t \in Table0 /\ \A s \in Uids : t.pw[s].name \in {records[s].name, None}
  BY <1>1 DEF Filled
<1> QED BY <1>4, <1>5 DEF Table0

LEMMA WhoAreTwins ==
  ASSUME file \in [Uids -> Record], None \notin Twins
  PROVE  NoTwins(file)
<1> SUFFICES ASSUME NEW i \in Uids, NEW j \in Uids, i # j, file[i].name = file[j].name, file[i].name # None
             PROVE  FALSE
  BY DEF NoTwins
<1> DEFINE twin == file[i].name
<1>0. twin \in Names
  <2>1. file[i] \in Record
    OBVIOUS
  <2>2. twin \in Ids
    BY <2>1 DEF Record
  <2> QED BY <2>2, Places DEF Ids
<1>1. i \in Copies(twin) /\ j \in Copies(twin)
  BY <1>0 DEF Copies
<1> HIDE DEF twin
<1>2. None \in Twins
  BY <1>0, <1>1 DEF Twins, Ids
<1> QED BY <1>2

-----------------------------------------------------------------------------
(* The processes.  A search without the lock ends where it was begun for.    *)
At(p)    == IF pc[p] = "walk" THEN loc[p].then ELSE pc[p]
Setting  == {"set_next", "set_head", "set_name", "set_done"}
Newcomer == {"r_home", "r_rm", "r_send", "w_send", "wait_new", "r_write", "r_enter"}
ClientAt == Newcomer \cup {"idle", "over", "in", "d_files", "d_send", "wait_del", "l_in"}
Thens    == {"r_home", "r_send", "w_send", "r_enter", "d_files", "l_in"}
Local    == [name : Ids, uid : 0 .. MaxUsers, at : 0 .. MaxUsers, slot : 0 .. MaxUsers, then : Points, seen : People]
Request  == [op : {"NEW", "DEL"}, from : Clients \cup {Nobody}, num : 0 .. MaxUsers, name : Ids \ Odd]

RestTypes ==
  /\ tasks \in Mixes /\ pw \in [Uids -> Record] /\ file \in [Uids -> Record]
  /\ LinkTypes /\ ans \in [Clients -> 0 .. MaxUsers + 2]
  /\ badname \subseteq Names /\ home \in [Names -> People] /\ holder \in [Names -> People]
  /\ harmed \subseteq Ids
UserTypes == RestTypes /\ loc \in [Procs -> Local] /\ pc \in [Procs -> Points]

ClientInv(c) ==
  /\ At(c) \in ClientAt /\ (pc[c] = "walk" => loc[c].then \in Thens)
  /\ At(c) \in Newcomer => loc[c].name \in Names \ Odd
  /\ pc[c] \in {"r_write", "d_send", "wait_del"} => loc[c].uid \in Uids
KilldInv ==
  /\ At("killd") \in Setting \cup {"idle", "k_copy", "k_rm", "k_set", "k_level"}
  /\ pc["killd"] = "walk" => loc["killd"].then = "k_rm"
  /\ At("killd") # "idle" => loc["killd"].slot \in Uids
  /\ At("killd") = "k_rm" => loc["killd"].name \in Names
  /\ pc["killd"] \in Setting \cup {"k_set"} => loc["killd"].uid \in Uids
  /\ pc["killd"] \in Setting => loc["killd"].name = None
UserdInv ==
  /\ pc["userd"] \in Setting \cup {"idle"}
  /\ pc["userd"] \in Setting =>
       queue # <<>> /\ loc["userd"].uid \in Uids /\ loc["userd"].name = Head(queue).name
  /\ pc["userd"] = "set_done" => pw[loc["userd"].uid].name = loc["userd"].name
FlushdInv ==
  /\ pc["flushd"] \in {"idle", "flush", "flushed", "over"}
  /\ pc["flushd"] \in {"idle", "flush"} => loc["flushd"].slot # MaxUsers
PowerInv == pc["power"] \in {"idle", "over"}
LockInv  == lock \in {"userd", "killd", Nobody} /\ \A p \in {"userd", "killd"} : pc[p] \in Setting <=> lock = p

(* Requests, and who waits for them; who waits no longer has left them.      *)
QueueInv ==
  /\ queue \in Seq(Request)
  /\ \A i \in 1 .. Len(queue) : IF queue[i].op = "NEW" THEN queue[i].name \in Names
                                ELSE queue[i].num \in Uids /\ queue[i].name = None
WaitInv ==
  \A i \in 1 .. Len(queue) : queue[i].from \in Clients =>
    LET c == queue[i].from IN
    IF queue[i].op = "NEW" THEN pc[c] = "wait_new" /\ queue[i].name = loc[c].name ELSE pc[c] = "wait_del"

(* The chains stand at every step of setuserid_internal: the slot it moves   *)
(* is on none, and once it is at the head of its new chain it counts with    *)
(* the new name.                                                             *)
Now    == IF lock # Nobody /\ pc[lock] = "set_name" THEN Renamed(NameOf, loc[lock].uid, loc[lock].name) ELSE NameOf
Moving == IF lock # Nobody /\ pc[lock] \in {"set_next", "set_head"} THEN {loc[lock].uid} ELSE {}
ChainInv ==
  /\ \E L : /\ Standing(unext, head, Now, Moving, L)
            /\ "torn" \in Windows => None \in harmed \/ AllFree(Now, Moving, L)
  /\ lock # Nobody /\ pc[lock] = "set_head" => unext[loc[lock].uid] = head[Chain(loc[lock].name)]

(* Names that id_invalid refuses come from the file only.                    *)
CleanTables == \A t \in Tables : \A s \in Uids : t[s].name \notin Odd
CleanInv    == CleanTables => \A s \in Uids : pw[s].name \notin Odd /\ file[s].name \notin Odd

UserInv == /\ UserTypes /\ (\A c \in Clients : ClientInv(c)) /\ KilldInv /\ UserdInv /\ FlushdInv /\ PowerInv
           /\ LockInv /\ QueueInv /\ WaitInv /\ ChainInv /\ CleanInv

LEMMA UserProcs ==
  /\ Procs = Clients \cup {"userd", "killd", "flushd", "power"}
  /\ "userd" \notin Clients /\ "killd" \notin Clients /\ "flushd" \notin Clients /\ "power" \notin Clients
  /\ Nobody \notin Procs /\ Nobody \notin Clients
  /\ Nobody # "userd" /\ Nobody # "killd" /\ Nobody # "flushd" /\ Nobody # "power"
  /\ Start \in Local /\ Start.slot = 0 /\ Start.uid = 0
  /\ Clients \subseteq People /\ Nobody \in People /\ Earlier \in People
  /\ MaxUsers \in Nat \ {0} /\ 0 \in 0 .. MaxUsers /\ Uids \subseteq 0 .. MaxUsers /\ 0 \notin Uids
  /\ \A s \in 0 .. MaxUsers : s # 0 => s \in Uids
  /\ None \in Ids /\ None \notin Odd /\ Names \subseteq Ids /\ Odd \subseteq Names
<1>1. /\ Procs = Clients \cup {"userd", "killd", "flushd", "power"} /\ Nobody \notin Procs
      /\ Clients \cap {"userd", "killd", "flushd", "power"} = {}
  BY NamesAssumption DEF Procs, Daemons
<1>2. /\ "userd" \notin Clients /\ "killd" \notin Clients /\ "flushd" \notin Clients /\ "power" \notin Clients
      /\ Nobody \notin Clients /\ Nobody # "userd" /\ Nobody # "killd" /\ Nobody # "flushd" /\ Nobody # "power"
  BY <1>1
<1>3. MaxUsers \in Nat \ {0} /\ 0 \in 0 .. MaxUsers /\ Uids \subseteq 0 .. MaxUsers /\ 0 \notin Uids /\ \A s \in 0 .. MaxUsers : s # 0 => s \in Uids
  BY MaxUsersAssumption DEF Uids
<1>4. Clients \subseteq People /\ Nobody \in People /\ Earlier \in People
  BY DEF People
<1>5. Start \in Local /\ Start.slot = 0 /\ Start.uid = 0
  <2>1. None \in Ids /\ "idle" \in Points
    BY DEF Ids, Points
  <2> QED BY <2>1, <1>3, <1>4 DEF Start, Local
<1> QED BY <1>1, <1>2, <1>3, <1>4, <1>5, Places DEF Ids

-----------------------------------------------------------------------------
(* Frames: what a step of p that leaves the chains alone has to show.        *)
Others(p) == \A q \in Procs : q # p => pc'[q] = pc[q] /\ loc'[q] = loc[q]
ChainsSame ==
  /\ head' = head /\ unext' = unext /\ lock' = lock /\ harmed \subseteq harmed'
  /\ \A s \in Uids : pw'[s].name = pw[s].name
FileClean == \A s \in Uids : file'[s].name \in {file[s].name, pw[s].name}
OwnInv(p) ==
  /\ p \in Clients => ClientInv(p)
  /\ p = "killd"   => KilldInv /\ pc["killd"] \notin Setting
  /\ p = "flushd"  => FlushdInv
  /\ p = "power"   => PowerInv
HeadStays == queue # <<>> => queue' # <<>> /\ Head(queue').name = Head(queue).name

LEMMA ChainsStay ==
  ASSUME UserInv, NEW p \in Procs, p # lock, Others(p), ChainsSame
  PROVE  ChainInv'
<1>1. lock # Nobody => pc'[lock] = pc[lock] /\ loc'[lock] = loc[lock]
  BY UserProcs DEF UserInv, LockInv, Others
<1>2. NameOf' = NameOf
  BY DEF NameOf, ChainsSame
<1>3. Now' = Now /\ Moving' = Moving
  BY <1>1, <1>2 DEF Now, Moving, ChainsSame
<1>4. PICK L : /\ Standing(unext, head, Now, Moving, L)
               /\ "torn" \in Windows => None \in harmed \/ AllFree(Now, Moving, L)
  BY DEF UserInv, ChainInv
<1>5. /\ Standing(unext', head', Now', Moving', L)
      /\ "torn" \in Windows => None \in harmed' \/ AllFree(Now', Moving', L)
  BY <1>3, <1>4 DEF ChainsSame
<1>6. lock' # Nobody /\ pc'[lock'] = "set_head" => unext'[loc'[lock'].uid] = head'[Chain(loc'[lock'].name)]
  <2>1. lock # Nobody /\ pc[lock] = "set_head" => unext[loc[lock].uid] = head[Chain(loc[lock].name)]
    BY DEF UserInv, ChainInv
  <2> QED BY <2>1, <1>1 DEF ChainsSame
<1> QED BY <1>5, <1>6 DEF ChainInv

LEMMA OneMoves ==
  ASSUME UserInv, NEW p \in Procs, p # "userd", p # lock, Others(p), UserTypes', ChainsSame,
         OwnInv(p)', QueueInv', WaitInv', HeadStays, FileClean
  PROVE  UserInv'
<1>1. \A c \in Clients : ClientInv(c)'
  <2> SUFFICES ASSUME NEW c \in Clients PROVE ClientInv(c)'
    OBVIOUS
  <2>1. CASE c = p
    BY <2>1 DEF OwnInv
  <2>2. CASE c # p
    BY <2>2, UserProcs DEF UserInv, ClientInv, At, Others
  <2> QED BY <2>1, <2>2
<1>2. KilldInv' /\ (p = "killd" => pc'["killd"] \notin Setting)
  <2>1. CASE p = "killd"
    BY <2>1 DEF OwnInv
  <2>2. CASE p # "killd"
    BY <2>2, UserProcs DEF UserInv, KilldInv, At, Others
  <2> QED BY <2>1, <2>2
<1>3. UserdInv'
  <2>1. pc'["userd"] = pc["userd"] /\ loc'["userd"] = loc["userd"]
    BY UserProcs DEF Others
  <2> QED BY <2>1 DEF UserInv, UserdInv, ChainsSame, HeadStays, Setting
<1>4. FlushdInv'
  <2>1. CASE p = "flushd"
    BY <2>1 DEF OwnInv
  <2>2. CASE p # "flushd"
    BY <2>2, UserProcs DEF UserInv, FlushdInv, Others
  <2> QED BY <2>1, <2>2
<1>5. PowerInv'
  <2>1. CASE p = "power"
    BY <2>1 DEF OwnInv
  <2>2. CASE p # "power"
    BY <2>2, UserProcs DEF UserInv, PowerInv, Others
  <2> QED BY <2>1, <2>2
<1>6. LockInv'
  <2>1. pc'["userd"] = pc["userd"] /\ (p # "killd" => pc'["killd"] = pc["killd"])
    BY UserProcs DEF Others
  <2> QED BY <2>1, <1>2 DEF UserInv, LockInv, ChainsSame
<1>7. ChainInv'
  BY ChainsStay
<1>8. CleanInv'
  BY DEF UserInv, CleanInv, CleanTables, ChainsSame, FileClean
<1> QED BY <1>1, <1>2, <1>3, <1>4, <1>5, <1>6, <1>7, <1>8 DEF UserInv

LEMMA QueueStays ==
  ASSUME UserInv, NEW p \in Procs, Others(p), queue' = queue,
         p \in Clients => pc[p] \notin {"wait_new", "wait_del"}
  PROVE  QueueInv' /\ WaitInv' /\ HeadStays
<1>1. QueueInv' /\ HeadStays
  BY DEF UserInv, QueueInv, HeadStays
<1>2. WaitInv'
  <2> SUFFICES ASSUME NEW i \in 1 .. Len(queue), queue[i].from \in Clients
               PROVE  IF queue[i].op = "NEW" THEN pc'[queue[i].from] = "wait_new" /\ queue[i].name = loc'[queue[i].from].name
                      ELSE pc'[queue[i].from] = "wait_del"
    BY DEF WaitInv
  <2>1. IF queue[i].op = "NEW" THEN pc[queue[i].from] = "wait_new" /\ queue[i].name = loc[queue[i].from].name
        ELSE pc[queue[i].from] = "wait_del"
    BY DEF UserInv, WaitInv
  <2>2. queue[i].from # p /\ queue[i].from \in Procs
    BY <2>1, UserProcs
  <2> QED BY <2>1, <2>2 DEF Others
<1> QED BY <1>1, <1>2

LEMMA LookUpSets ==
  ASSUME UserTypes, NEW p \in Procs, NEW n \in Names, NEW there \in Points, LookUp(p, n, there)
  PROVE  /\ loc' \in [Procs -> Local] /\ pc' \in [Procs -> Points] /\ Others(p)
         /\ pc'[p] = "walk" /\ loc'[p].name = n /\ loc'[p].then = there
         /\ loc'[p].slot = loc[p].slot /\ loc'[p].uid = loc[p].uid
<1>1. /\ loc \in [Procs -> Local] /\ pc \in [Procs -> Points] /\ holder[n] \in People
      /\ head[Chain(n)] \in 0 .. MaxUsers /\ n \in Ids
  <2>1. n \in Ids /\ Chain(n) \in 0 .. HashSize
    BY Places DEF Ids
  <2> QED BY <2>1 DEF UserTypes, RestTypes, LinkTypes
<1>2. pc' = [pc EXCEPT ![p] = "walk"]
  BY DEF LookUp, Goto
<1>3. PICK a, b, c, d, e, f : loc[p] = [name |-> a, uid |-> b, at |-> c, slot |-> d, then |-> e, seen |-> f]
                              /\ b \in 0 .. MaxUsers /\ d \in 0 .. MaxUsers
  BY <1>1 DEF Local
<1> DEFINE r == [name |-> n, uid |-> b, at |-> head[Chain(n)], slot |-> d, then |-> there, seen |-> holder[n]]
<1>4. loc'[p] = r /\ loc' = [q \in Procs |-> loc'[q]] /\ \A q \in Procs : q # p => loc'[q] = loc[q]
  <2>1. loc' = [loc EXCEPT ![p].name = n, ![p].at = head[Chain(n)], ![p].then = there, ![p].seen = holder[n]]
    BY DEF LookUp
  <2>2. loc' = [q \in Procs |-> loc'[q]] /\ \A q \in Procs : q # p => loc'[q] = loc[q]
    BY <2>1, <1>1
  <2>3. loc'[p] = [loc[p] EXCEPT !.name = n, !.at = head[Chain(n)], !.then = there, !.seen = holder[n]]
    BY <2>1, <1>1
  <2>4. loc'[p] = r
    <3> DEFINE x == head[Chain(n)]  y == holder[n]
    <3> HIDE DEF x, y
    <3>1. loc'[p] = [loc[p] EXCEPT !.name = n, !.at = x, !.then = there, !.seen = y]
      BY <2>3 DEF x, y
    <3>2. /\ loc'[p].name = n /\ loc'[p].at = x /\ loc'[p].then = there /\ loc'[p].seen = y
          /\ loc'[p].uid = b /\ loc'[p].slot = d
      BY <3>1, <1>3
    <3>3. loc'[p] = [i \in {"name", "uid", "at", "slot", "then", "seen"} |-> loc'[p][i]]
      BY <3>1, <1>3
    <3>4. loc'[p] = [name |-> n, uid |-> b, at |-> x, slot |-> d, then |-> there, seen |-> y]
      BY <3>2, <3>3
    <3> QED BY <3>4 DEF x, y
  <2> QED BY <2>2, <2>4
<1>5. r \in Local
  BY <1>1, <1>3 DEF Local
<1>6. r.name = n /\ r.then = there /\ r.slot = loc[p].slot /\ r.uid = loc[p].uid
  BY <1>3
<1> HIDE DEF r
<1>7. loc' \in [Procs -> Local]
  <2>1. \A q \in Procs : loc'[q] \in Local
    BY <1>1, <1>4, <1>5
  <2> QED BY <2>1, <1>4
<1>8. pc' \in [Procs -> Points] /\ pc'[p] = "walk" /\ \A q \in Procs : q # p => pc'[q] = pc[q]
  BY <1>1, <1>2 DEF Points
<1> QED BY <1>4, <1>6, <1>7, <1>8 DEF Others

LEMMA StopSets ==
  ASSUME UserTypes, NEW p \in Procs, Stop(p)
  PROVE  /\ loc' \in [Procs -> Local] /\ pc' \in [Procs -> Points] /\ Others(p)
         /\ loc'[p] = Start /\ pc'[p] = (IF p \in Clients THEN "over" ELSE "idle")
<1>1. pc' = [pc EXCEPT ![p] = IF p \in Clients THEN "over" ELSE "idle"] /\ loc' = [loc EXCEPT ![p] = Start]
  BY DEF Stop, Goto
<1>2. loc \in [Procs -> Local] /\ pc \in [Procs -> Points] /\ Start \in Local
  BY UserProcs DEF UserTypes
<1>3. (IF p \in Clients THEN "over" ELSE "idle") \in Points
  BY DEF Points
<1> QED BY <1>1, <1>2, <1>3 DEF Others

LEMMA GotoSets ==
  ASSUME UserTypes, NEW p \in Procs, NEW there \in Points, Goto(p, there)
  PROVE  /\ pc' \in [Procs -> Points] /\ pc'[p] = there /\ \A q \in Procs : q # p => pc'[q] = pc[q]
         /\ loc' = loc => Others(p)
BY UserProcs DEF Goto, UserTypes, Others

LEMMA HarmGrows ==
  ASSUME UserTypes, NEW w, NEW S \in SUBSET Ids, Harm(w, S)
  PROVE  harmed \subseteq harmed' /\ harmed' \subseteq Ids
BY DEF Harm, UserTypes, RestTypes

(* What a client does, as far as the others and the chains are concerned.    *)
LEMMA ClientMoves ==
  ASSUME UserInv, NEW c \in Clients, Others(c), UserTypes', ChainsSame,
         ClientInv(c)', QueueInv', WaitInv', HeadStays, file' = file
  PROVE  UserInv'
<1>1. c \in Procs /\ c # "userd" /\ c # "killd" /\ c # "flushd" /\ c # "power" /\ c # lock
  BY UserProcs DEF UserInv, LockInv
<1>2. OwnInv(c)' /\ FileClean
  BY <1>1 DEF OwnInv, FileClean
<1> QED BY <1>1, <1>2, OneMoves

LEMMA ClientSearches ==
  ASSUME UserInv, NEW c \in Clients, NEW n \in Names, NEW there \in Thens,
         there \in Newcomer => n \notin Odd, LookUp(c, n, there), pc[c] \notin {"wait_new", "wait_del"},
         RestTypes', ChainsSame, queue' = queue, file' = file
  PROVE  UserInv'
<1>1. c \in Procs /\ there \in Points
  BY UserProcs DEF Thens, Points
<1>2. /\ loc' \in [Procs -> Local] /\ pc' \in [Procs -> Points] /\ Others(c)
      /\ pc'[c] = "walk" /\ loc'[c].name = n /\ loc'[c].then = there
  BY <1>1, LookUpSets DEF UserInv
<1>3. UserTypes'
  BY <1>2 DEF UserTypes
<1>4. ClientInv(c)'
  BY <1>2 DEF ClientInv, At, Thens, ClientAt, Newcomer
<1>5. QueueInv' /\ WaitInv' /\ HeadStays
  BY <1>1, <1>2, QueueStays
<1> QED BY <1>2, <1>3, <1>4, <1>5, ClientMoves

LEMMA ClientStops ==
  ASSUME UserInv, NEW c \in Clients, Stop(c),
         RestTypes', ChainsSame, QueueInv', WaitInv', HeadStays, file' = file
  PROVE  UserInv'
<1>1. c \in Procs
  BY UserProcs
<1>2. loc' \in [Procs -> Local] /\ pc' \in [Procs -> Points] /\ Others(c) /\ pc'[c] = "over"
  BY <1>1, StopSets DEF UserInv
<1>3. UserTypes'
  BY <1>2 DEF UserTypes
<1>4. ClientInv(c)'
  BY <1>2 DEF ClientInv, At, ClientAt, Newcomer
<1> QED BY <1>2, <1>3, <1>4, ClientMoves

LEMMA ClientGoes ==
  ASSUME UserInv, NEW c \in Clients, NEW there \in ClientAt, Goto(c, there), loc' = loc,
         there \in Newcomer => loc[c].name \in Names \ Odd,
         there \in {"r_write", "d_send", "wait_del"} => loc[c].uid \in Uids,
         RestTypes', ChainsSame, QueueInv', WaitInv', HeadStays, file' = file
  PROVE  UserInv'
<1>1. c \in Procs /\ there \in Points /\ there # "walk"
  BY UserProcs DEF ClientAt, Newcomer, Points
<1>2. pc' \in [Procs -> Points] /\ Others(c) /\ pc'[c] = there
  BY <1>1, GotoSets DEF UserInv
<1>3. UserTypes'
  BY <1>2 DEF UserInv, UserTypes
<1>4. ClientInv(c)'
  BY <1>1, <1>2 DEF ClientInv, At
<1> QED BY <1>2, <1>3, <1>4, ClientMoves

(* A request is put at the end of the queue; who waits no longer leaves his. *)
LEMMA SendQueues ==
  ASSUME UserInv, NEW c \in Clients, NEW op \in {"NEW", "DEL"}, Send(c, op), loc' = loc,
         pc[c] \notin {"wait_new", "wait_del"}, pc' = [pc EXCEPT ![c] = IF op = "NEW" THEN "wait_new" ELSE "wait_del"],
         op = "NEW" => loc[c].name \in Names \ Odd, op = "DEL" => loc[c].uid \in Uids
  PROVE  QueueInv' /\ WaitInv' /\ HeadStays /\ ans' \in [Clients -> 0 .. MaxUsers + 2]
<1> DEFINE r == [op |-> op, from |-> c, num |-> IF op = "DEL" THEN loc[c].uid ELSE 0,
                 name |-> IF op = "NEW" THEN loc[c].name ELSE None]
<1>0. queue \in Seq(Request) /\ Len(queue) \in Nat
  BY DEF UserInv, QueueInv
<1>1. r \in Request /\ r.op = op /\ r.from = c /\ (IF op = "NEW" THEN r.name \in Names /\ r.name = loc[c].name
                                                  ELSE r.num \in Uids /\ r.name = None)
  BY UserProcs DEF Request
<1>2. queue' = Append(queue, r)
  BY DEF Send
<1> HIDE DEF r
<1>3. /\ queue' \in Seq(Request) /\ Len(queue') = Len(queue) + 1 /\ queue'[Len(queue) + 1] = r
      /\ \A i \in 1 .. Len(queue) : queue'[i] = queue[i]
  BY <1>0, <1>1, <1>2
<1>4. \A i \in 1 .. Len(queue') : i \in 1 .. Len(queue) \/ i = Len(queue) + 1
  BY <1>0, <1>3
<1>5. QueueInv'
  BY <1>1, <1>3, <1>4 DEF UserInv, QueueInv
<1>6. HeadStays
  BY <1>0, <1>1, <1>2 DEF HeadStays
<1>7. WaitInv'
  <2>1. c \in Procs /\ Clients \subseteq Procs /\ pc \in [Procs -> Points]
    BY UserProcs DEF UserInv, UserTypes
  <2> SUFFICES ASSUME NEW i \in 1 .. Len(queue'), queue'[i].from \in Clients
               PROVE  IF queue'[i].op = "NEW" THEN pc'[queue'[i].from] = "wait_new" /\ queue'[i].name = loc'[queue'[i].from].name
                      ELSE pc'[queue'[i].from] = "wait_del"
    BY DEF WaitInv
  <2>2. CASE i = Len(queue) + 1
    BY <2>1, <2>2, <1>1, <1>3
  <2>3. CASE i \in 1 .. Len(queue)
    <3>1. IF queue[i].op = "NEW" THEN pc[queue[i].from] = "wait_new" /\ queue[i].name = loc[queue[i].from].name
          ELSE pc[queue[i].from] = "wait_del"
      BY <2>3, <1>3 DEF UserInv, WaitInv
    <3>2. queue[i].from # c
      BY <3>1
    <3>3. queue'[i] = queue[i] /\ queue[i].from \in Procs
      BY <2>1, <2>3, <1>3
    <3>4. pc'[queue[i].from] = pc[queue[i].from]
      BY <2>1, <3>2, <3>3
    <3> QED BY <3>1, <3>3, <3>4
  <2> QED BY <2>2, <2>3, <1>4
<1>8. ans' \in [Clients -> 0 .. MaxUsers + 2]
  <2>1. ans' = [ans EXCEPT ![c] = MaxUsers + 1] /\ MaxUsers + 1 \in 0 .. MaxUsers + 2
    BY MaxUsersAssumption DEF Send, Pending
  <2> QED BY <2>1 DEF UserInv, UserTypes, RestTypes
<1> QED BY <1>5, <1>6, <1>7, <1>8

LEMMA HangLeaves ==
  ASSUME UserInv, NEW c \in Clients, Hang(c), Others(c)
  PROVE  QueueInv' /\ WaitInv' /\ HeadStays
<1>0. queue \in Seq(Request) /\ Len(queue) \in Nat /\ DOMAIN queue = 1 .. Len(queue)
  BY DEF UserInv, QueueInv
<1>1. queue' = [i \in 1 .. Len(queue) |-> IF queue[i].from = c THEN [queue[i] EXCEPT !.from = Nobody] ELSE queue[i]]
  BY <1>0 DEF Hang
<1>2. ASSUME NEW i \in 1 .. Len(queue)
      PROVE  /\ queue'[i] \in Request /\ queue'[i].op = queue[i].op /\ queue'[i].num = queue[i].num
             /\ queue'[i].name = queue[i].name
             /\ queue'[i].from = IF queue[i].from = c THEN Nobody ELSE queue[i].from
  <2>1. queue[i] \in Request
    BY <1>0
  <2>2. CASE queue[i].from = c
    <3>1. queue'[i] = [queue[i] EXCEPT !.from = Nobody]
      BY <1>1, <2>2
    <3> QED BY <2>1, <2>2, <3>1 DEF Request
  <2>3. CASE queue[i].from # c
    BY <1>1, <2>1, <2>3
  <2> QED BY <2>2, <2>3
<1>3. queue' \in Seq(Request) /\ Len(queue') = Len(queue)
  <2>1. queue' \in [1 .. Len(queue) -> Request]
    BY <1>1, <1>2
  <2>2. queue' \in Seq(Request)
    BY <2>1, <1>0
  <2> QED BY <2>1, <2>2, <1>0
<1>4. QueueInv'
  BY <1>2, <1>3 DEF UserInv, QueueInv
<1>5. HeadStays
  <2> SUFFICES ASSUME queue # <<>> PROVE queue' # <<>> /\ Head(queue').name = Head(queue).name
    BY DEF HeadStays
  <2>1. 1 \in 1 .. Len(queue) /\ Len(queue') # 0
    BY <1>0, <1>3
  <2>2. queue' # <<>> /\ Head(queue') = queue'[1] /\ Head(queue) = queue[1]
    BY <2>1, <1>0, <1>3
  <2> QED BY <2>1, <2>2, <1>2
<1>6. WaitInv'
  <2> SUFFICES ASSUME NEW i \in 1 .. Len(queue), queue'[i].from \in Clients
               PROVE  IF queue'[i].op = "NEW" THEN pc'[queue'[i].from] = "wait_new" /\ queue'[i].name = loc'[queue'[i].from].name
                      ELSE pc'[queue'[i].from] = "wait_del"
    BY <1>3 DEF WaitInv
  <2>1. queue'[i].from = queue[i].from /\ queue[i].from # c /\ queue[i].from \in Procs
    BY <1>2, UserProcs
  <2>2. IF queue[i].op = "NEW" THEN pc[queue[i].from] = "wait_new" /\ queue[i].name = loc[queue[i].from].name
        ELSE pc[queue[i].from] = "wait_del"
    BY <2>1 DEF UserInv, WaitInv
  <2>3. pc'[queue[i].from] = pc[queue[i].from] /\ loc'[queue[i].from] = loc[queue[i].from]
    BY <2>1 DEF Others
  <2> QED BY <2>1, <2>2, <2>3, <1>2
<1> QED BY <1>4, <1>5, <1>6

(* A record is written, but not its name.                                    *)
LEMMA RecordWritten ==
  ASSUME UserTypes, NEW s \in Uids, NEW r \in Record, r.name = pw[s].name, pw' = [pw EXCEPT ![s] = r]
  PROVE  pw' \in [Uids -> Record] /\ \A i \in Uids : pw'[i].name = pw[i].name
BY DEF UserTypes, RestTypes

LEMMA LevelCleared ==
  ASSUME UserTypes, NEW s \in Uids, ClearLevel(s)
  PROVE  /\ pw' \in [Uids -> Record] /\ \A i \in Uids : pw'[i].name = pw[i].name
         /\ harmed \subseteq harmed' /\ harmed' \subseteq Ids
<1>0. pw \in [Uids -> Record] /\ pw[s] \in Record
  BY DEF UserTypes, RestTypes
<1>1. pw' = [pw EXCEPT ![s] = [pw[s] EXCEPT !.level = 0]]
  BY <1>0 DEF ClearLevel
<1>2. [pw[s] EXCEPT !.level = 0] \in Record /\ [pw[s] EXCEPT !.level = 0].name = pw[s].name
  BY <1>0 DEF Record
<1>3. harmed \subseteq harmed' /\ harmed' \subseteq Ids
  <2>1. {pw[s].name} \cap Names \subseteq Ids
    BY UserProcs
  <2> QED BY <2>1, HarmGrows DEF ClearLevel
<1> QED BY <1>1, <1>2, <1>3, RecordWritten

-----------------------------------------------------------------------------
(* The steps of a client. *)
LEMMA Registers ==
  ASSUME UserInv, NEW c \in Clients, NEW n \in Names, Register(c, n) \/ RegisterWeb(c, n)
  PROVE  UserInv'
<1>1. /\ pc[c] = "idle" /\ n \notin Odd /\ \E there \in {"r_home", "w_send"} : LookUp(c, n, there)
      /\ RestTypes' /\ ChainsSame /\ queue' = queue /\ file' = file
  BY DEF Register, RegisterWeb, Does, UserInv, UserTypes, RestTypes, LinkTypes, ChainsSame
<1> QED BY <1>1, ClientSearches DEF Thens

LEMMA DeletesOrLogsIn ==
  ASSUME UserInv, NEW c \in Clients, NEW n \in Names, Delete(c, n) \/ Login(c, n)
  PROVE  UserInv'
<1>1. /\ pc[c] = "idle" /\ \E there \in {"d_files", "l_in"} : LookUp(c, n, there)
      /\ RestTypes' /\ ChainsSame /\ queue' = queue /\ file' = file
  BY DEF Delete, Login, Does, UserInv, UserTypes, RestTypes, LinkTypes, ChainsSame
<1> QED BY <1>1, ClientSearches DEF Thens, Newcomer

(* Somebody who registers has a name that id_invalid does not refuse, and    *)
(* who writes to a slot was given one.                                       *)
LEMMA ClientAtPlace ==
  ASSUME UserInv, NEW c \in Clients
  PROVE  /\ c \in Procs /\ loc[c] \in Local
         /\ pc[c] \in Newcomer => loc[c].name \in Names \ Odd
         /\ pc[c] \in {"r_write", "d_send", "wait_del"} => loc[c].uid \in Uids
<1>1. c \in Procs /\ loc \in [Procs -> Local]
  BY UserProcs DEF UserInv, UserTypes
<1>2. pc[c] \in Newcomer => At(c) = pc[c]
  BY DEF At, Newcomer
<1> QED BY <1>1, <1>2 DEF UserInv, ClientInv

LEMMA LooksForHome ==
  ASSUME UserInv, NEW c \in Clients, RHome(c)
  PROVE  UserInv'
<1>1. /\ pc[c] = "r_home" /\ (Stop(c) \/ (Goto(c, "r_rm") /\ loc' = loc))
      /\ RestTypes' /\ ChainsSame /\ queue' = queue /\ file' = file
  BY DEF RHome, UserInv, UserTypes, RestTypes, LinkTypes, ChainsSame
<1>2. Others(c)
  <2>1. "r_rm" \in Points
    BY DEF Points
  <2> QED BY <2>1, <1>1, ClientAtPlace, StopSets, GotoSets DEF UserInv
<1>3. QueueInv' /\ WaitInv' /\ HeadStays
  BY <1>1, <1>2, ClientAtPlace, QueueStays
<1>4. "r_rm" \in ClientAt /\ loc[c].name \in Names \ Odd
  BY <1>1, ClientAtPlace DEF ClientAt, Newcomer
<1> QED BY <1>1, <1>3, <1>4, ClientStops, ClientGoes

LEMMA RemovesHome ==
  ASSUME UserInv, NEW c \in Clients, RRm(c)
  PROVE  UserInv'
<1>1. /\ pc[c] = "r_rm" /\ LookUp(c, loc[c].name, "r_send") /\ queue' = queue /\ file' = file
      /\ home' = [home EXCEPT ![loc[c].name] = Nobody]
      /\ Harm("check", {n \in {loc[c].name} : \E s \in Uids : pw[s].name = n})
      /\ UNCHANGED <<tasks, pw, head, unext, lock, ans, badname, holder>>
  BY DEF RRm
<1>2. loc[c].name \in Names \ Odd
  BY <1>1, ClientAtPlace DEF Newcomer
<1>3. harmed \subseteq harmed' /\ harmed' \subseteq Ids
  <2>1. {n \in {loc[c].name} : \E s \in Uids : pw[s].name = n} \subseteq Ids
    BY <1>2, UserProcs
  <2> QED BY <2>1, <1>1, HarmGrows DEF UserInv
<1>4. RestTypes' /\ ChainsSame
  <2>1. home' \in [Names -> People]
    BY <1>1, <1>2, UserProcs DEF UserInv, UserTypes, RestTypes
  <2> QED BY <2>1, <1>1, <1>3 DEF UserInv, UserTypes, RestTypes, LinkTypes, ChainsSame
<1> QED BY <1>1, <1>2, <1>4, ClientSearches DEF Thens

LEMMA AsksForSlot ==
  ASSUME UserInv, NEW c \in Clients, RSend(c)
  PROVE  UserInv'
<1>1. /\ pc[c] \in {"r_send", "w_send"} /\ file' = file
      /\ UNCHANGED <<tasks, pw, head, unext, lock, badname, home, holder, harmed>>
  BY DEF RSend
<1>2. CASE Stop(c) /\ queue' = queue /\ ans' = ans
  <2>1. Others(c)
    BY <1>2, ClientAtPlace, StopSets DEF UserInv
  <2>2. QueueInv' /\ WaitInv' /\ HeadStays
    BY <2>1, <1>1, <1>2, ClientAtPlace, QueueStays
  <2>3. RestTypes' /\ ChainsSame
    BY <1>1, <1>2 DEF UserInv, UserTypes, RestTypes, LinkTypes, ChainsSame
  <2> QED BY <2>2, <2>3, <1>1, <1>2, ClientStops
<1>3. CASE Send(c, "NEW") /\ Goto(c, "wait_new") /\ loc' = loc
  <2>0. loc[c].name \in Names \ Odd
    BY <1>1, ClientAtPlace DEF Newcomer
  <2>1. pc' = [pc EXCEPT ![c] = IF "NEW" = "NEW" THEN "wait_new" ELSE "wait_del"]
    BY <1>3 DEF Goto
  <2>2. QueueInv' /\ WaitInv' /\ HeadStays /\ ans' \in [Clients -> 0 .. MaxUsers + 2]
    BY <2>0, <2>1, <1>1, <1>3, SendQueues
  <2>3. RestTypes' /\ ChainsSame
    BY <2>2, <1>1 DEF UserInv, UserTypes, RestTypes, LinkTypes, ChainsSame
  <2>4. "wait_new" \in ClientAt
    BY DEF ClientAt, Newcomer
  <2> QED BY <2>0, <2>2, <2>3, <2>4, <1>1, <1>3, ClientGoes
<1> QED BY <1>2, <1>3 DEF RSend

LEMMA IsAnswered ==
  ASSUME UserInv, NEW c \in Clients, Answered(c)
  PROVE  UserInv'
<1>1. /\ pc[c] = "wait_new" /\ Hang(c) /\ file' = file /\ RestTypes' /\ ChainsSame
  BY DEF Answered, UserInv, UserTypes, RestTypes, LinkTypes, ChainsSame
<1>2. CASE Stop(c)
  <2>1. Others(c)
    BY <1>2, ClientAtPlace, StopSets DEF UserInv
  <2>2. QueueInv' /\ WaitInv' /\ HeadStays
    BY <2>1, <1>1, HangLeaves
  <2> QED BY <2>2, <1>1, <1>2, ClientStops
<1>3. CASE ans[c] \in Uids /\ Goto(c, "r_write") /\ loc' = [loc EXCEPT ![c].uid = ans[c]]
  <2>0. loc[c].name \in Names \ Odd /\ c \in Procs /\ loc \in [Procs -> Local] /\ loc[c] \in Local
    BY <1>1, ClientAtPlace DEF Newcomer, UserInv, UserTypes
  <2>1. loc'[c] = [loc[c] EXCEPT !.uid = ans[c]] /\ \A q \in Procs : q # c => loc'[q] = loc[q]
    BY <2>0, <1>3
  <2>2. loc'[c] \in Local /\ loc'[c].name = loc[c].name /\ loc'[c].uid = ans[c]
    <3>1. ans[c] \in 0 .. MaxUsers
      BY <1>3, UserProcs
    <3> QED BY <3>1, <2>0, <2>1 DEF Local
  <2>3. "r_write" \in Points
    BY DEF Points
  <2>4. pc' \in [Procs -> Points] /\ pc'[c] = "r_write" /\ Others(c)
    BY <2>0, <2>1, <2>3, <1>3, GotoSets DEF UserInv, Others
  <2>5. QueueInv' /\ WaitInv' /\ HeadStays
    BY <2>4, <1>1, HangLeaves
  <2>6. UserTypes'
    <3>1. loc' \in [Procs -> Local]
      BY <2>0, <2>1, <2>2, <1>3
    <3> QED BY <3>1, <2>4, <1>1 DEF UserTypes
  <2>7. ClientInv(c)'
    BY <2>0, <2>2, <2>4, <1>3 DEF ClientInv, At, ClientAt, Newcomer
  <2> QED BY <2>4, <2>5, <2>6, <2>7, <1>1, ClientMoves
<1> QED BY <1>2, <1>3, UserProcs DEF Answered

LEMMA WritesRecord ==
  ASSUME UserInv, NEW c \in Clients, RWrite(c)
  PROVE  UserInv'
<1> DEFINE s == loc[c].uid
           S == {n \in {pw[s].name} \cap Names : n # loc[c].name \/ pw[s].who # Nobody}
<1>1. /\ pc[c] = "r_write" /\ LookUp(c, loc[c].name, "r_enter") /\ queue' = queue /\ file' = file
      /\ Harm("number", S)
      /\ UNCHANGED <<tasks, head, unext, lock, ans, badname, home, holder>>
  BY DEF RWrite
<1>2. loc[c].name \in Names \ Odd /\ s \in Uids /\ pw \in [Uids -> Record] /\ pw[s] \in Record
  BY <1>1, ClientAtPlace DEF Newcomer, UserInv, UserTypes, RestTypes
<1>3. harmed \subseteq harmed' /\ harmed' \subseteq Ids
  <2>1. S \subseteq Ids
    BY UserProcs
  <2> HIDE DEF S
  <2> QED BY <2>1, <1>1, HarmGrows DEF UserInv
<1>4. pw' \in [Uids -> Record] /\ \A i \in Uids : pw'[i].name = pw[i].name
  <2> DEFINE r == [name |-> pw[s].name, who |-> c, level |-> 1, logins |-> 0, expired |-> FALSE]
  <2>1. r \in Record /\ r.name = pw[s].name
    <3>1. pw[s].name \in Ids
      BY <1>2 DEF Record
    <3>2. c \in People
      BY UserProcs
    <3> QED BY <3>1, <3>2 DEF Record
  <2>2. pw' = [pw EXCEPT ![s] = r]
    <3>1. pw' = [pw EXCEPT ![s] = [Empty(pw[s].name) EXCEPT !.who = c, !.level = 1]]
      BY DEF RWrite
    <3> DEFINE e == [Empty(pw[s].name) EXCEPT !.who = c, !.level = 1]
    <3>2. e.name = pw[s].name /\ e.who = c /\ e.level = 1 /\ e.logins = 0 /\ e.expired = FALSE
      BY DEF Empty
    <3>3. e = [i \in {"name", "who", "level", "logins", "expired"} |-> e[i]]
      BY DEF Empty
    <3> HIDE DEF e
    <3>4. e = r
      BY <3>2, <3>3
    <3> QED BY <3>1, <3>4 DEF e
  <2> HIDE DEF r
  <2> QED BY <2>1, <2>2, <1>2, RecordWritten DEF UserInv
<1>5. RestTypes' /\ ChainsSame
  BY <1>1, <1>3, <1>4 DEF UserInv, UserTypes, RestTypes, LinkTypes, ChainsSame
<1> QED BY <1>1, <1>2, <1>5, ClientSearches DEF Thens

LEMMA Enters ==
  ASSUME UserInv, NEW c \in Clients, REnter(c)
  PROVE  UserInv'
<1>1. /\ pc[c] = "r_enter" /\ queue' = queue /\ file' = file
      /\ UNCHANGED <<tasks, pw, head, unext, lock, ans, badname>>
  BY DEF REnter
<1>2. loc[c].name \in Names
  BY <1>1, ClientAtPlace DEF Newcomer
<1>3. (Stop(c) \/ (Goto(c, "in") /\ loc' = loc)) /\ home' \in [Names -> People] /\ holder' \in [Names -> People]
  <2>1. CASE loc[c].uid = 0
    BY <2>1 DEF REnter, UserInv, UserTypes, RestTypes
  <2>2. CASE loc[c].uid # 0
    <3>1. /\ Goto(c, "in") /\ loc' = loc
          /\ \E b \in BOOLEAN : home' = [home EXCEPT ![loc[c].name] = IF b THEN c ELSE home[loc[c].name]]
          /\ \E b \in BOOLEAN : holder' = [holder EXCEPT ![loc[c].name] = IF b THEN c ELSE holder[loc[c].name]]
      BY <2>2 DEF REnter
    <3>2. home \in [Names -> People] /\ holder \in [Names -> People] /\ c \in People
      BY UserProcs DEF UserInv, UserTypes, RestTypes
    <3> QED BY <3>1, <3>2, <1>2
  <2> QED BY <2>1, <2>2
<1>4. harmed \subseteq harmed' /\ harmed' \subseteq Ids
  <2>1. CASE loc[c].uid = 0
    BY <2>1 DEF REnter, UserInv, UserTypes, RestTypes
  <2>2. CASE loc[c].uid # 0
    <3>1. Harm("enter", {n \in {loc[c].name} : ~HasIt(c)}) /\ {n \in {loc[c].name} : ~HasIt(c)} \subseteq Ids
      BY <1>2, <2>2, UserProcs DEF REnter
    <3> QED BY <3>1, HarmGrows DEF UserInv
  <2> QED BY <2>1, <2>2
<1>5. RestTypes' /\ ChainsSame
  BY <1>1, <1>3, <1>4 DEF UserInv, UserTypes, RestTypes, LinkTypes, ChainsSame
<1>6. Others(c)
  <2>1. "in" \in Points
    BY DEF Points
  <2> QED BY <2>1, <1>3, ClientAtPlace, StopSets, GotoSets DEF UserInv
<1>7. QueueInv' /\ WaitInv' /\ HeadStays
  BY <1>1, <1>6, ClientAtPlace, QueueStays
<1>8. "in" \in ClientAt /\ "in" \notin Newcomer
  BY DEF ClientAt, Newcomer
<1> QED BY <1>1, <1>3, <1>5, <1>7, <1>8, ClientStops, ClientGoes

LEMMA RemovesFiles ==
  ASSUME UserInv, NEW c \in Clients, DFiles(c)
  PROVE  UserInv'
<1> DEFINE n == IF loc[c].uid = 0 THEN None ELSE pw[loc[c].uid].name
<1>1. /\ pc[c] = "d_files" /\ queue' = queue /\ file' = file
      /\ IF loc[c].uid = 0 THEN Stop(c) ELSE Goto(c, "d_send") /\ loc' = loc
      /\ badname' = badname \cup ({n} \cap Names)
      /\ home'   = [x \in Names |-> IF x = n THEN Nobody ELSE home[x]]
      /\ holder' = [x \in Names |-> IF x = n /\ x = loc[c].name THEN Nobody ELSE holder[x]]
      /\ UNCHANGED <<tasks, pw, head, unext, lock, ans, harmed>>
  BY DEF DFiles
<1> HIDE DEF n
<1>2. RestTypes' /\ ChainsSame
  <2>1. home' \in [Names -> People] /\ holder' \in [Names -> People] /\ badname' \subseteq Names
    BY <1>1, UserProcs DEF UserInv, UserTypes, RestTypes
  <2> QED BY <2>1, <1>1 DEF UserInv, UserTypes, RestTypes, LinkTypes, ChainsSame
<1>3. Others(c)
  <2>1. "d_send" \in Points
    BY DEF Points
  <2> QED BY <2>1, <1>1, ClientAtPlace, StopSets, GotoSets DEF UserInv
<1>4. QueueInv' /\ WaitInv' /\ HeadStays
  BY <1>1, <1>3, ClientAtPlace, QueueStays
<1>5. CASE loc[c].uid = 0
  BY <1>1, <1>2, <1>4, <1>5, ClientStops
<1>6. CASE loc[c].uid # 0
  <2>1. "d_send" \in ClientAt /\ "d_send" \notin Newcomer
    BY DEF ClientAt, Newcomer
  <2>2. loc[c].uid \in Uids
    BY <1>6, ClientAtPlace, UserProcs DEF Local
  <2> QED BY <2>1, <2>2, <1>1, <1>2, <1>4, <1>6, ClientGoes
<1> QED BY <1>5, <1>6

LEMMA AsksForRemoval ==
  ASSUME UserInv, NEW c \in Clients, DSend(c)
  PROVE  UserInv'
<1>1. /\ pc[c] = "d_send" /\ Send(c, "DEL") /\ Goto(c, "wait_del") /\ loc' = loc /\ file' = file
      /\ UNCHANGED <<tasks, pw, head, unext, lock, badname, home, holder, harmed>>
  BY DEF DSend
<1>2. loc[c].uid \in Uids
  BY <1>1, ClientAtPlace
<1>3. pc' = [pc EXCEPT ![c] = IF "DEL" = "NEW" THEN "wait_new" ELSE "wait_del"]
  BY <1>1 DEF Goto
<1>4. QueueInv' /\ WaitInv' /\ HeadStays /\ ans' \in [Clients -> 0 .. MaxUsers + 2]
  BY <1>1, <1>2, <1>3, SendQueues
<1>5. RestTypes' /\ ChainsSame
  BY <1>1, <1>4 DEF UserInv, UserTypes, RestTypes, LinkTypes, ChainsSame
<1>6. "wait_del" \in ClientAt /\ "wait_del" \notin Newcomer
  BY DEF ClientAt, Newcomer
<1> QED BY <1>1, <1>2, <1>4, <1>5, <1>6, ClientGoes

LEMMA ClearsLevel ==
  ASSUME UserInv, NEW c \in Clients, DLevel(c)
  PROVE  UserInv'
<1>1. /\ pc[c] = "wait_del" /\ ClearLevel(loc[c].uid) /\ Hang(c) /\ Stop(c) /\ file' = file
      /\ UNCHANGED <<tasks, head, unext, lock, ans, badname, home, holder>>
  BY DEF DLevel
<1>2. loc[c].uid \in Uids
  BY <1>1, ClientAtPlace
<1>3. /\ pw' \in [Uids -> Record] /\ \A i \in Uids : pw'[i].name = pw[i].name
      /\ harmed \subseteq harmed' /\ harmed' \subseteq Ids
  BY <1>1, <1>2, LevelCleared DEF UserInv
<1>4. RestTypes' /\ ChainsSame
  BY <1>1, <1>3 DEF UserInv, UserTypes, RestTypes, LinkTypes, ChainsSame
<1>5. Others(c)
  BY <1>1, ClientAtPlace, StopSets DEF UserInv
<1>6. QueueInv' /\ WaitInv' /\ HeadStays
  BY <1>1, <1>5, HangLeaves
<1> QED BY <1>1, <1>4, <1>6, ClientStops

LEMMA ComesIn ==
  ASSUME UserInv, NEW c \in Clients, LIn(c)
  PROVE  UserInv'
<1> DEFINE s == loc[c].uid
<1>1. /\ pc[c] = "l_in" /\ Stop(c) /\ queue' = queue /\ file' = file
      /\ UNCHANGED <<tasks, head, unext, lock, ans, badname, home, holder, harmed>>
  BY DEF LIn
<1>2. pw' \in [Uids -> Record] /\ \A i \in Uids : pw'[i].name = pw[i].name
  <2>0. pw \in [Uids -> Record]
    BY DEF UserInv, UserTypes, RestTypes
  <2>1. CASE s = 0
    BY <2>0, <2>1 DEF LIn
  <2>2. CASE s # 0
    <3>1. s \in Uids
      BY <2>2, ClientAtPlace, UserProcs DEF Local
    <3> HIDE DEF s
    <3>2. pw' = [pw EXCEPT ![s].expired = FALSE, ![s].logins = 1]
      BY <2>2 DEF LIn, s
    <3>3. pw' = [pw EXCEPT ![s] = pw'[s]] /\ pw'[s] = [pw[s] EXCEPT !.expired = FALSE, !.logins = 1]
      BY <2>0, <3>1, <3>2
    <3>4. pw'[s] \in Record /\ pw'[s].name = pw[s].name
      <4>1. PICK a, b, d, e, f : pw[s] = [name |-> a, who |-> b, level |-> d, logins |-> e, expired |-> f]
                                 /\ a \in Ids /\ b \in People /\ d \in {0, 1}
        BY <2>0, <3>1 DEF Record
      <4>2. /\ pw'[s].name = a /\ pw'[s].who = b /\ pw'[s].level = d /\ pw'[s].logins = 1 /\ pw'[s].expired = FALSE
        BY <3>3, <4>1
      <4>3. pw'[s] = [i \in {"name", "who", "level", "logins", "expired"} |-> pw'[s][i]]
        BY <3>3, <4>1
      <4>4. pw'[s] = [name |-> a, who |-> b, level |-> d, logins |-> 1, expired |-> FALSE]
        BY <4>2, <4>3
      <4> QED BY <4>1, <4>4 DEF Record
    <3> QED BY <3>1, <3>3, <3>4, RecordWritten DEF UserInv
  <2> QED BY <2>1, <2>2
<1>3. RestTypes' /\ ChainsSame
  BY <1>1, <1>2 DEF UserInv, UserTypes, RestTypes, LinkTypes, ChainsSame
<1>4. Others(c)
  BY <1>1, ClientAtPlace, StopSets DEF UserInv
<1>5. QueueInv' /\ WaitInv' /\ HeadStays
  BY <1>1, <1>4, ClientAtPlace, QueueStays
<1> QED BY <1>1, <1>3, <1>5, ClientStops

LEMMA ClientKeeps ==
  ASSUME UserInv, NEW c \in Clients, Client(c)
  PROVE  UserInv'
<1>1. CASE \E n \in Names : Register(c, n) \/ RegisterWeb(c, n) \/ Delete(c, n) \/ Login(c, n)
  BY <1>1, Registers, DeletesOrLogsIn
<1>2. CASE RHome(c) \/ RRm(c) \/ RSend(c) \/ Answered(c) \/ RWrite(c) \/ REnter(c)
  BY <1>2, LooksForHome, RemovesHome, AsksForSlot, IsAnswered, WritesRecord, Enters
<1>3. CASE DFiles(c) \/ DSend(c) \/ DLevel(c) \/ LIn(c)
  BY <1>3, RemovesFiles, AsksForRemoval, ClearsLevel, ComesIn
<1> QED BY <1>1, <1>2, <1>3 DEF Client

-----------------------------------------------------------------------------
(* A search goes on, a client's or killd's. *)
LEMMA WalkKeeps ==
  ASSUME UserInv, NEW p \in Procs, Walk(p)
  PROVE  UserInv'
<1>1. /\ pc[p] = "walk" /\ queue' = queue /\ file' = file /\ RestTypes' /\ ChainsSame
  BY DEF Walk, UserInv, UserTypes, RestTypes, LinkTypes, ChainsSame
<1>2. p \in Clients \/ p = "killd"
  BY <1>1, UserProcs DEF UserInv, UserdInv, FlushdInv, PowerInv, Setting
<1>3. /\ loc \in [Procs -> Local] /\ pc \in [Procs -> Points] /\ unext \in [Uids -> 0 .. MaxUsers]
      /\ loc[p].at \in 0 .. MaxUsers /\ loc[p].then \in Points
  BY DEF UserInv, UserTypes, RestTypes, LinkTypes, Local
<1>4. PICK a, b, x, d, e, f : loc[p] = [name |-> a, uid |-> b, at |-> x, slot |-> d, then |-> e, seen |-> f]
                              /\ a \in Ids /\ b \in 0 .. MaxUsers /\ x \in 0 .. MaxUsers /\ d \in 0 .. MaxUsers /\ e \in Points /\ f \in People
  BY <1>3 DEF Local
<1>5. /\ loc' \in [Procs -> Local] /\ pc' \in [Procs -> Points] /\ Others(p)
      /\ loc'[p].name = a /\ loc'[p].then = e /\ loc'[p].slot = d
      /\ pc'[p] = "walk" \/ pc'[p] = e
  <2>1. CASE loc[p].at # 0 /\ pw[loc[p].at].name # loc[p].name
    <3>1. loc' = [loc EXCEPT ![p].at = unext[loc[p].at]] /\ pc' = pc /\ loc[p].at = x /\ unext[x] \in 0 .. MaxUsers
      BY <2>1, <1>3, <1>4, UserProcs DEF Walk
    <3> DEFINE r == [name |-> a, uid |-> b, at |-> unext[x], slot |-> d, then |-> e, seen |-> f]
    <3>2. loc'[p] = r /\ loc' = [q \in Procs |-> loc'[q]] /\ \A q \in Procs : q # p => loc'[q] = loc[q]
      <4>1. loc'[p] = [loc[p] EXCEPT !.at = unext[x]]
        BY <3>1, <1>3
      <4>2. loc'[p].uid = b /\ loc'[p].at = unext[x] /\ loc'[p].name = a /\ loc'[p].slot = d /\ loc'[p].then = e /\ loc'[p].seen = f
        BY <4>1, <1>4
      <4>3. loc'[p] = [i \in {"name", "uid", "at", "slot", "then", "seen"} |-> loc'[p][i]]
        BY <4>1, <1>4
      <4>4. loc'[p] = r
        BY <4>2, <4>3
      <4>5. loc' = [q \in Procs |-> loc'[q]] /\ \A q \in Procs : q # p => loc'[q] = loc[q]
        BY <3>1, <1>3
      <4> QED BY <4>4, <4>5
    <3>3. r \in Local /\ r.name = a /\ r.then = e /\ r.slot = d
      BY <3>1, <1>4 DEF Local
    <3> HIDE DEF r
    <3>4. loc' \in [Procs -> Local]
      <4>1. \A q \in Procs : loc'[q] \in Local
        BY <3>2, <3>3, <1>3
      <4> QED BY <4>1, <3>2
    <3> QED BY <3>1, <3>2, <3>3, <3>4, <1>1, <1>3 DEF Others
  <2>2. CASE ~(loc[p].at # 0 /\ pw[loc[p].at].name # loc[p].name)
    <3>1. loc' = [loc EXCEPT ![p].uid = loc[p].at, ![p].at = 0] /\ pc' = [pc EXCEPT ![p] = e] /\ loc[p].at = x
      BY <2>2, <1>4 DEF Walk, Goto
    <3> DEFINE r == [name |-> a, uid |-> x, at |-> 0, slot |-> d, then |-> e, seen |-> f]
    <3>2. loc'[p] = r /\ loc' = [q \in Procs |-> loc'[q]] /\ \A q \in Procs : q # p => loc'[q] = loc[q]
      <4>1. loc'[p] = [loc[p] EXCEPT !.uid = x, !.at = 0]
        BY <3>1, <1>3
      <4>2. loc'[p].uid = x /\ loc'[p].at = 0 /\ loc'[p].name = a /\ loc'[p].slot = d /\ loc'[p].then = e /\ loc'[p].seen = f
        BY <4>1, <1>4
      <4>3. loc'[p] = [i \in {"name", "uid", "at", "slot", "then", "seen"} |-> loc'[p][i]]
        BY <4>1, <1>4
      <4>4. loc'[p] = r
        BY <4>2, <4>3
      <4>5. loc' = [q \in Procs |-> loc'[q]] /\ \A q \in Procs : q # p => loc'[q] = loc[q]
        BY <3>1, <1>3
      <4> QED BY <4>4, <4>5
    <3>3. r \in Local /\ r.name = a /\ r.then = e /\ r.slot = d
      BY <1>4, UserProcs DEF Local
    <3> HIDE DEF r
    <3>4. loc' \in [Procs -> Local]
      <4>1. \A q \in Procs : loc'[q] \in Local
        BY <3>2, <3>3, <1>3
      <4> QED BY <4>1, <3>2
    <3>5. pc' \in [Procs -> Points] /\ pc'[p] = e /\ \A q \in Procs : q # p => pc'[q] = pc[q]
      BY <3>1, <1>3, <1>4
    <3> QED BY <3>2, <3>3, <3>4, <3>5 DEF Others
  <2> QED BY <2>1, <2>2
<1>6. UserTypes'
  BY <1>1, <1>5 DEF UserTypes
<1>7. QueueInv' /\ WaitInv' /\ HeadStays
  BY <1>1, <1>5, QueueStays
<1>8. CASE p \in Clients
  <2>1. e \in Thens /\ e \in ClientAt /\ (e \in Newcomer => a \in Names \ Odd)
    BY <1>1, <1>4, <1>8 DEF UserInv, ClientInv, At
  <2>2. ClientInv(p)'
    BY <2>1, <1>5 DEF ClientInv, At, Thens
  <2> QED BY <2>2, <1>1, <1>5, <1>6, <1>7, <1>8, ClientMoves
<1>9. CASE p = "killd"
  <2>1. e = "k_rm" /\ d \in Uids /\ a \in Names
    BY <1>1, <1>4, <1>9 DEF UserInv, KilldInv, At
  <2>2. KilldInv' /\ pc'["killd"] \notin Setting
    BY <2>1, <1>5, <1>9 DEF KilldInv, At, Setting
  <2>3. OwnInv(p)' /\ FileClean /\ p # "userd" /\ p # lock
    BY <2>2, <1>1, <1>9, UserProcs DEF OwnInv, FileClean, UserInv, LockInv, Setting
  <2> QED BY <2>3, <1>1, <1>5, <1>6, <1>7, OneMoves
<1> QED BY <1>2, <1>8, <1>9

-----------------------------------------------------------------------------
(* The steps of setuserid_internal, under the lock. *)
LEMMA DaemonMoves ==
  ASSUME UserInv, NEW p \in {"userd", "killd"}, Others(p), UserTypes', KilldInv', UserdInv', LockInv',
         QueueInv', WaitInv', ChainInv', CleanInv'
  PROVE  UserInv'
<1>1. \A c \in Clients : pc'[c] = pc[c] /\ loc'[c] = loc[c]
  BY UserProcs DEF Others
<1>2. \A c \in Clients : ClientInv(c)'
  BY <1>1 DEF UserInv, ClientInv, At
<1>3. FlushdInv' /\ PowerInv'
  <2>1. pc'["flushd"] = pc["flushd"] /\ loc'["flushd"] = loc["flushd"] /\ pc'["power"] = pc["power"]
    BY UserProcs DEF Others
  <2> QED BY <2>1 DEF UserInv, FlushdInv, PowerInv
<1> QED BY <1>2, <1>3 DEF UserInv

LEMMA SetterFacts ==
  ASSUME UserInv, NEW p \in Procs, pc[p] \in Setting
  PROVE  /\ p \in {"userd", "killd"} /\ p \notin Clients /\ lock = p /\ p # Nobody
         /\ loc[p].uid \in Uids /\ loc[p].name \in Ids \ Odd
         /\ Chain(loc[p].name) \in 0 .. HashSize
         /\ NameOf \in [Uids -> Ids]
         /\ pw \in [Uids -> Record] /\ LinkTypes
<1>1. p \in {"userd", "killd"}
  <2>1. \A c \in Clients : pc[c] \notin Setting
    BY DEF UserInv, ClientInv, At, ClientAt, Newcomer, Setting
  <2>2. pc["flushd"] \notin Setting /\ pc["power"] \notin Setting
    BY DEF UserInv, FlushdInv, PowerInv, Setting
  <2> QED BY <2>1, <2>2, UserProcs
<1>2. lock = p /\ p # Nobody /\ p \notin Clients
  BY <1>1, UserProcs DEF UserInv, LockInv
<1>3. loc[p].uid \in Uids /\ loc[p].name \in Ids \ Odd
  <2>1. CASE p = "killd"
    BY <2>1, UserProcs DEF UserInv, KilldInv
  <2>2. CASE p = "userd"
    <3>1. queue # <<>> /\ loc[p].uid \in Uids /\ loc[p].name = Head(queue).name
      BY <2>2 DEF UserInv, UserdInv
    <3>2. Head(queue) \in Request
      BY <3>1 DEF UserInv, QueueInv
    <3> QED BY <3>1, <3>2 DEF Request
  <2> QED BY <1>1, <2>1, <2>2
<1>4. pw \in [Uids -> Record] /\ LinkTypes
  BY DEF UserInv, UserTypes, RestTypes
<1>5. NameOf \in [Uids -> Ids]
  <2>1. \A s \in Uids : pw[s].name \in Ids
    BY <1>4 DEF Record
  <2> QED BY <2>1 DEF NameOf
<1> QED BY <1>1, <1>2, <1>3, <1>4, <1>5, Places

(* Who sets goes on to the next step. *)
LEMMA SetterGoes ==
  ASSUME UserInv, NEW p \in Procs, pc[p] \in Setting, NEW there \in Setting, Goto(p, there),
         there = "set_done" => pw'[loc[p].uid].name = loc[p].name,
         loc' = loc, queue' = queue, lock' = lock, RestTypes', ChainInv', CleanInv'
  PROVE  UserInv'
<1>1. p \in {"userd", "killd"} /\ p \notin Clients /\ lock = p
  BY SetterFacts
<1>2. there \in Points /\ there # "walk" /\ pc[p] # "walk"
  BY DEF Setting, Points
<1>3. pc' \in [Procs -> Points] /\ pc'[p] = there /\ Others(p)
  BY <1>2, GotoSets DEF UserInv
<1>4. UserTypes'
  BY <1>3 DEF UserInv, UserTypes
<1>5. QueueInv' /\ WaitInv'
  BY <1>1, <1>3, QueueStays
<1>6. KilldInv'
  <2>1. CASE p = "killd"
    BY <2>1, <1>2, <1>3 DEF UserInv, KilldInv, At, Setting
  <2>2. CASE p # "killd"
    <3>1. pc'["killd"] = pc["killd"] /\ loc'["killd"] = loc["killd"]
      BY <2>2, <1>3, UserProcs DEF Others
    <3> QED BY <3>1 DEF UserInv, KilldInv, At
  <2> QED BY <2>1, <2>2
<1>7. UserdInv'
  <2>1. CASE p = "userd"
    BY <2>1, <1>3 DEF UserInv, UserdInv, Setting
  <2>2. CASE p # "userd"
    <3>1. pc'["userd"] = pc["userd"] /\ pc["userd"] \notin Setting
      BY <2>2, <1>1, <1>3, UserProcs DEF Others, UserInv, LockInv
    <3> QED BY <3>1 DEF UserInv, UserdInv, Setting
  <2> QED BY <2>1, <2>2
<1>8. LockInv'
  <2>1. \A q \in {"userd", "killd"} : pc'[q] \in Setting <=> pc[q] \in Setting
    BY <1>1, <1>3, UserProcs DEF Others
  <2> QED BY <2>1 DEF UserInv, LockInv
<1> QED BY <1>1, <1>3, <1>4, <1>5, <1>6, <1>7, <1>8, DaemonMoves

LEMMA NextIsSet ==
  ASSUME UserInv, NEW p \in Procs, SetNext(p)
  PROVE  UserInv'
<1> DEFINE s == loc[p].uid  k == Chain(loc[p].name)
<1>1. /\ pc[p] = "set_next" /\ unext' = [unext EXCEPT ![s] = head[k]] /\ Harm("walk", Derailed(s))
      /\ Goto(p, "set_head") /\ UNCHANGED <<tasks, pw, head, lock, queue, ans, badname, home, file, loc, holder>>
  BY DEF SetNext
<1>2. /\ lock = p /\ p # Nobody /\ p \in {"userd", "killd"} /\ s \in Uids /\ k \in 0 .. HashSize
      /\ LinkTypes /\ pc[p] \in Setting
  BY <1>1, SetterFacts DEF Setting
<1>3. harmed \subseteq harmed' /\ harmed' \subseteq Ids
  <2>1. Derailed(s) \subseteq Ids
    <3>1. \A q \in Procs : loc[q].name \in Ids
      BY DEF UserInv, UserTypes, Local
    <3> QED BY <3>1 DEF Derailed
  <2> QED BY <2>1, <1>1, HarmGrows DEF UserInv
<1>4. pc'[p] = "set_head" /\ "set_head" \in Setting
  <2>1. "set_head" \in Points
    BY DEF Points
  <2> QED BY <2>1, <1>1, GotoSets DEF UserInv, Setting
<1> HIDE DEF k, s
<1>5. LinkTypes' /\ unext'[s] = head[k] /\ \A i \in Uids : i # s => unext'[i] = unext[i]
  BY <1>1, <1>2 DEF LinkTypes
<1>6. RestTypes'
  BY <1>1, <1>3, <1>5 DEF UserInv, UserTypes, RestTypes
<1>7. ChainInv'
  <2>1. NameOf' = NameOf
    BY <1>1 DEF NameOf
  <2>2. Now = NameOf /\ Moving = {s} /\ Now' = NameOf /\ Moving' = {s}
    BY <2>1, <1>1, <1>2, <1>4 DEF Now, Moving, s
  <2>3. PICK L : /\ Standing(unext, head, NameOf, {s}, L)
                 /\ "torn" \in Windows => None \in harmed \/ AllFree(NameOf, {s}, L)
    BY <2>2 DEF UserInv, ChainInv
  <2>4. \A j \in 0 .. HashSize : Linked(Uids, unext', head[j], 0, L[j])
    <3> TAKE j \in 0 .. HashSize
    <3>1. Linked(Uids, unext, head[j], 0, L[j]) /\ s \notin T!Range(L[j])
      BY <2>3 DEF Standing
    <3>2. \A i \in T!Range(L[j]) : unext'[i] = unext[i]
      BY <3>1, <1>5, ListFacts
    <3> QED BY <3>1, <3>2, LinkedSame
  <2>5. Standing(unext', head', NameOf, {s}, L)
    BY <2>3, <2>4, <1>1 DEF Standing
  <2>6. unext'[s] = head'[k]
    BY <1>1, <1>5
  <2>7. "torn" \in Windows => None \in harmed' \/ AllFree(NameOf, {s}, L)
    BY <2>3, <1>3
  <2>8. loc'[lock'].uid = s /\ Chain(loc'[lock'].name) = k
    BY <1>1, <1>2 DEF s, k
  <2> QED BY <2>2, <2>5, <2>6, <2>7, <2>8 DEF ChainInv
<1>8. CleanInv'
  BY <1>1 DEF UserInv, CleanInv
<1> QED BY <1>1, <1>2, <1>4, <1>6, <1>7, <1>8, SetterGoes

LEMMA HeadIsSet ==
  ASSUME UserInv, NEW p \in Procs, SetHead(p)
  PROVE  UserInv'
<1> DEFINE s == loc[p].uid  n == loc[p].name  k == Chain(n)
<1>1. /\ pc[p] = "set_head" /\ head' = [head EXCEPT ![k] = s] /\ Goto(p, "set_name")
      /\ UNCHANGED <<tasks, pw, unext, lock, queue, ans, badname, home, file, loc, holder, harmed>>
  BY DEF SetHead
<1>2. /\ lock = p /\ p # Nobody /\ p \in {"userd", "killd"} /\ s \in Uids /\ k \in 0 .. HashSize
      /\ LinkTypes /\ pc[p] \in Setting /\ n \in Ids \ Odd /\ NameOf \in [Uids -> Ids]
  BY <1>1, SetterFacts DEF Setting
<1>4. pc'[p] = "set_name" /\ "set_name" \in Setting
  <2>1. "set_name" \in Points
    BY DEF Points
  <2> QED BY <2>1, <1>1, GotoSets DEF UserInv, Setting
<1>5. LinkTypes' /\ head'[k] = s /\ \A j \in 0 .. HashSize : j # k => head'[j] = head[j]
  <2>1. s \in 0 .. MaxUsers
    BY <1>2, UserProcs
  <2> HIDE DEF k, s
  <2> QED BY <2>1, <1>1, <1>2 DEF LinkTypes
<1>6. RestTypes'
  BY <1>1, <1>5 DEF UserInv, UserTypes, RestTypes
<1>7. ChainInv'
  <2>1. NameOf' = NameOf
    BY <1>1 DEF NameOf
  <2>2. /\ Now = NameOf /\ Moving = {s} /\ Now' = Renamed(NameOf, s, n) /\ Moving' = {}
        /\ unext[s] = head[k]
    <3>1. unext[s] = head[k]
      BY <1>1, <1>2 DEF UserInv, ChainInv
    <3>2. lock' = p /\ loc' = loc
      BY <1>1, <1>2
    <3> QED BY <3>1, <3>2, <2>1, <1>1, <1>2, <1>4 DEF Now, Moving
  <2>3. PICK L : /\ Standing(unext, head, NameOf, {s}, L)
                 /\ "torn" \in Windows => None \in harmed \/ AllFree(NameOf, {s}, L)
    BY <2>2 DEF UserInv, ChainInv
  <2>4. Elsewhere(k, L, unext, head, unext, head')
    BY <1>5 DEF Elsewhere
  <2> DEFINE name2 == Renamed(NameOf, s, n)
             M == Put(L, k, <<s>> \o L[k])
  <2>5. name2 = Renamed(NameOf, s, n)
    OBVIOUS
  <2> HIDE DEF name2, s, n
  <2>6. /\ Standing(unext, head', name2, {s} \ {s}, M)
        /\ AllFree(NameOf, {s}, L) => AllFree(name2, {s} \ {s}, M)
    BY <2>2, <2>3, <2>4, <2>5, <1>2, <1>5, With
  <2> HIDE DEF M
  <2>7. {s} \ {s} = {}
    OBVIOUS
  <2>8. Standing(unext', head', Now', Moving', M)
    BY <2>2, <2>5, <2>6, <2>7, <1>1
  <2>9. "torn" \in Windows => None \in harmed' \/ AllFree(Now', Moving', M)
    BY <2>2, <2>3, <2>5, <2>6, <2>7, <1>1
  <2>10. pc'[lock'] # "set_head"
    BY <1>1, <1>2, <1>4
  <2> QED BY <2>8, <2>9, <2>10 DEF ChainInv
<1>8. CleanInv'
  BY <1>1 DEF UserInv, CleanInv
<1> QED BY <1>1, <1>2, <1>4, <1>6, <1>7, <1>8, SetterGoes

LEMMA NameIsSet ==
  ASSUME UserInv, NEW p \in Procs, SetName(p)
  PROVE  UserInv'
<1> DEFINE s == loc[p].uid  n == loc[p].name
<1>1. /\ pc[p] = "set_name" /\ pw' = [pw EXCEPT ![s].name = n] /\ Goto(p, "set_done")
      /\ UNCHANGED <<tasks, head, unext, lock, queue, ans, badname, home, file, loc, holder, harmed>>
  BY DEF SetName
<1>2. /\ lock = p /\ p # Nobody /\ p \in {"userd", "killd"} /\ s \in Uids
      /\ LinkTypes /\ pc[p] \in Setting /\ n \in Ids \ Odd /\ NameOf \in [Uids -> Ids]
      /\ pw \in [Uids -> Record]
  BY <1>1, SetterFacts DEF Setting
<1>3. pc'[p] = "set_done" /\ "set_done" \in Setting
  <2>1. "set_done" \in Points
    BY DEF Points
  <2> QED BY <2>1, <1>1, GotoSets DEF UserInv, Setting
<1>4. pw' \in [Uids -> Record] /\ pw'[s].name = n /\ \A i \in Uids : i # s => pw'[i] = pw[i]
  <2> HIDE DEF s, n
  <2>1. pw[s] \in Record
    BY <1>2
  <2>2. [pw[s] EXCEPT !.name = n] \in Record /\ [pw[s] EXCEPT !.name = n].name = n
    BY <2>1, <1>2 DEF Record
  <2>3. pw' = [pw EXCEPT ![s] = [pw[s] EXCEPT !.name = n]]
    BY <1>1
  <2> QED BY <2>2, <2>3, <1>2
<1>5. RestTypes'
  BY <1>1, <1>4 DEF UserInv, UserTypes, RestTypes, LinkTypes
<1>6. ChainInv'
  <2>1. NameOf' = Renamed(NameOf, s, n)
    <3> HIDE DEF s, n
    <3>1. \A i \in Uids : pw'[i].name = IF i = s THEN n ELSE pw[i].name
      BY <1>4
    <3> QED BY <3>1 DEF NameOf, Renamed
  <2>2. lock' = p /\ loc' = loc
    BY <1>1, <1>2
  <2>3. Now = Renamed(NameOf, s, n) /\ Moving = {} /\ Now' = NameOf' /\ Moving' = {} /\ pc'[lock'] # "set_head"
    BY <2>1, <2>2, <1>1, <1>2, <1>3 DEF Now, Moving
  <2>4. unext' = unext /\ head' = head /\ harmed' = harmed
    BY <1>1
  <2> QED BY <2>1, <2>3, <2>4 DEF UserInv, ChainInv
<1>7. CleanInv'
  BY <1>1, <1>2, <1>4 DEF UserInv, CleanInv, CleanTables
<1> QED BY <1>1, <1>2, <1>3, <1>4, <1>5, <1>6, <1>7, SetterGoes

-----------------------------------------------------------------------------
(* Nobody has the lock: the chains stand as they are. *)
LEMMA NobodySets ==
  ASSUME UserInv, lock = Nobody
  PROVE  /\ Now = NameOf /\ Moving = {} /\ NameOf \in [Uids -> Ids] /\ LinkTypes
         /\ pc["userd"] = "idle" /\ pc["userd"] \notin Setting /\ pc["killd"] \notin Setting
         /\ \E L : /\ Standing(unext, head, NameOf, {}, L)
                   /\ "torn" \in Windows => None \in harmed \/ AllFree(NameOf, {}, L)
<1>1. Now = NameOf /\ Moving = {}
  BY DEF Now, Moving
<1>2. pc["userd"] \notin Setting /\ pc["killd"] \notin Setting
  BY UserProcs DEF UserInv, LockInv
<1>3. pc["userd"] = "idle"
  BY <1>2 DEF UserInv, UserdInv, Setting
<1>4. NameOf \in [Uids -> Ids] /\ LinkTypes
  <2>1. \A s \in Uids : pw[s].name \in Ids
    BY DEF UserInv, UserTypes, RestTypes, Record
  <2> QED BY <2>1 DEF NameOf, UserInv, UserTypes, RestTypes
<1>5. \E L : /\ Standing(unext, head, NameOf, {}, L)
             /\ "torn" \in Windows => None \in harmed \/ AllFree(NameOf, {}, L)
  BY <1>1 DEF UserInv, ChainInv
<1> QED BY <1>1, <1>2, <1>3, <1>4, <1>5

(* The lock is taken and a slot leaves its chain. *)
LEMMA TakesLock ==
  ASSUME UserInv, lock = Nobody, NEW p \in {"userd", "killd"}, lock' = p,
         NEW s \in Uids, CanSet(s, loc'[p].name), Unlink(s),
         pc'[p] = "set_next", loc'[p].uid = s, pw' = pw, harmed \subseteq harmed'
  PROVE  LinkTypes' /\ ChainInv'
<1>0. p # Nobody
  BY UserProcs
<1>1. PICK L : /\ Standing(unext, head, NameOf, {}, L)
               /\ "torn" \in Windows => None \in harmed \/ AllFree(NameOf, {}, L)
  BY NobodySets
<1>2. head[Chain(pw[s].name)] = s \/ Preceding(s) # {}
  BY DEF CanSet
<1>3. /\ LinkTypes'
      /\ \E M : /\ Standing(unext', head', NameOf, {s}, M)
                /\ AllFree(NameOf, {}, L) => AllFree(NameOf, {s}, M)
  BY <1>1, <1>2, NobodySets, UnlinkTakesOff
<1>4. PICK M : /\ Standing(unext', head', NameOf, {s}, M)
               /\ AllFree(NameOf, {}, L) => AllFree(NameOf, {s}, M)
  BY <1>3
<1>5. NameOf' = NameOf
  BY DEF NameOf
<1>6. Now' = NameOf /\ Moving' = {s} /\ pc'[lock'] # "set_head"
  BY <1>0, <1>5 DEF Now, Moving
<1>7. /\ Standing(unext', head', Now', Moving', M)
      /\ "torn" \in Windows => None \in harmed' \/ AllFree(Now', Moving', M)
  BY <1>1, <1>4, <1>6
<1> QED BY <1>3, <1>6, <1>7 DEF ChainInv

(* The first request is answered. *)
LEMMA AnswerTakes ==
  ASSUME UserInv, queue # <<>>, NEW a \in 0 .. MaxUsers + 2, Answer(a), Others("userd")
  PROVE  QueueInv' /\ WaitInv' /\ ans' \in [Clients -> 0 .. MaxUsers + 2]
<1>0. queue \in Seq(Request) /\ Len(queue) \in Nat \ {0} /\ queue' = Tail(queue)
  BY DEF UserInv, QueueInv, Answer
<1>1. /\ queue' \in Seq(Request) /\ Len(queue') = Len(queue) - 1
      /\ \A i \in 1 .. Len(queue') : i + 1 \in 1 .. Len(queue) /\ queue'[i] = queue[i + 1]
  BY <1>0
<1>2. QueueInv'
  BY <1>1 DEF UserInv, QueueInv
<1>3. WaitInv'
  <2> SUFFICES ASSUME NEW i \in 1 .. Len(queue'), queue'[i].from \in Clients
               PROVE  IF queue'[i].op = "NEW" THEN pc'[queue'[i].from] = "wait_new" /\ queue'[i].name = loc'[queue'[i].from].name
                      ELSE pc'[queue'[i].from] = "wait_del"
    BY DEF WaitInv
  <2>1. i + 1 \in 1 .. Len(queue) /\ queue'[i] = queue[i + 1]
    BY <1>1
  <2>2. IF queue'[i].op = "NEW" THEN pc[queue'[i].from] = "wait_new" /\ queue'[i].name = loc[queue'[i].from].name
        ELSE pc[queue'[i].from] = "wait_del"
    BY <2>1 DEF UserInv, WaitInv
  <2>3. pc'[queue'[i].from] = pc[queue'[i].from] /\ loc'[queue'[i].from] = loc[queue'[i].from]
    BY UserProcs DEF Others
  <2> QED BY <2>2, <2>3
<1>4. ans' \in [Clients -> 0 .. MaxUsers + 2]
  BY DEF Answer, UserInv, UserTypes, RestTypes
<1> QED BY <1>2, <1>3, <1>4

LEMMA FirstRequest ==
  ASSUME UserInv, queue # <<>>
  PROVE  /\ Head(queue) \in Request /\ Head(queue).op \in {"NEW", "DEL"} /\ Head(queue) = queue[1] /\ 1 \in 1 .. Len(queue)
         /\ IF Head(queue).op = "NEW" THEN Head(queue).name \in Names
            ELSE Head(queue).num \in Uids /\ Head(queue).name = None
<1>1. queue \in Seq(Request) /\ Len(queue) \in Nat \ {0} /\ Head(queue) = queue[1]
  BY DEF UserInv, QueueInv
<1>2. 1 \in 1 .. Len(queue) /\ queue[1] \in Request
  BY <1>1
<1> QED BY <1>1, <1>2 DEF UserInv, QueueInv, Request

LEMMA ServeKeeps ==
  ASSUME UserInv, Serve
  PROVE  UserInv'
<1> DEFINE r   == Head(queue)
           num == IF r.op = "NEW" THEN head[0] ELSE r.num
<1>0. /\ queue # <<>> /\ lock = Nobody /\ pc["userd"] = "idle"
      /\ UNCHANGED <<tasks, pw, badname, home, file, holder>>
  BY DEF Serve
<1>1. /\ r \in Request /\ r.op \in {"NEW", "DEL"}
      /\ IF r.op = "NEW" THEN r.name \in Names ELSE r.num \in Uids /\ r.name = None
  BY <1>0, FirstRequest
<1>2. num \in 0 .. MaxUsers /\ r.name \in Ids \ Odd
  <2>1. head[0] \in 0 .. MaxUsers
    BY Places DEF UserInv, UserTypes, RestTypes, LinkTypes
  <2> QED BY <2>1, <1>1, UserProcs DEF Request
<1>3. "userd" \in Procs /\ "userd" \notin Clients /\ "userd" # Nobody /\ "userd" # lock
  BY <1>0, UserProcs
<1>4. CASE num # 0 /\ CanSet(num, r.name)
  <2>1. /\ lock' = "userd" /\ Unlink(num) /\ Goto("userd", "set_next")
        /\ loc' = [loc EXCEPT !["userd"].uid = num, !["userd"].name = r.name]
        /\ Harm("number", {n \in Names : r.op = "NEW" /\ n = r.name /\ Doomed(num)})
        /\ queue' = queue /\ ans' = ans
    BY <1>4 DEF Serve
  <2>2. num \in Uids
    BY <1>2, <1>4, UserProcs
  <2> HIDE DEF r, num
  <2>3. /\ loc' \in [Procs -> Local] /\ loc'["userd"].uid = num /\ loc'["userd"].name = r.name
        /\ \A q \in Procs : q # "userd" => loc'[q] = loc[q]
    <3>0. loc \in [Procs -> Local] /\ loc["userd"] \in Local
      BY <1>3 DEF UserInv, UserTypes
    <3>1. PICK a, b, x, d, e, f : loc["userd"] = [name |-> a, uid |-> b, at |-> x, slot |-> d, then |-> e, seen |-> f]
                                  /\ x \in 0 .. MaxUsers /\ d \in 0 .. MaxUsers /\ e \in Points /\ f \in People
      BY <3>0 DEF Local
    <3>2. loc'["userd"] = [loc["userd"] EXCEPT !.uid = num, !.name = r.name]
      BY <2>1, <3>0, <1>3
    <3>3. /\ loc'["userd"].uid = num /\ loc'["userd"].name = r.name /\ loc'["userd"].at = x
          /\ loc'["userd"].slot = d /\ loc'["userd"].then = e /\ loc'["userd"].seen = f
      BY <3>1, <3>2
    <3>4. loc'["userd"] = [i \in {"name", "uid", "at", "slot", "then", "seen"} |-> loc'["userd"][i]]
      BY <3>1, <3>2
    <3>5. loc'["userd"] = [name |-> r.name, uid |-> num, at |-> x, slot |-> d, then |-> e, seen |-> f]
      BY <3>3, <3>4
    <3>6. loc'["userd"] \in Local
      BY <3>1, <3>5, <1>2 DEF Local
    <3>7. loc' = [q \in Procs |-> loc'[q]] /\ \A q \in Procs : q # "userd" => loc'[q] = loc[q]
      BY <2>1, <3>0
    <3>8. \A q \in Procs : loc'[q] \in Local
      BY <3>0, <3>6, <3>7
    <3> QED BY <3>3, <3>7, <3>8
  <2>4. /\ pc' \in [Procs -> Points] /\ pc'["userd"] = "set_next" /\ Others("userd")
    <3>1. "set_next" \in Points
      BY DEF Points
    <3>2. /\ pc' \in [Procs -> Points] /\ pc'["userd"] = "set_next"
          /\ \A q \in Procs : q # "userd" => pc'[q] = pc[q]
      BY <3>1, <2>1, <1>3, GotoSets DEF UserInv
    <3> QED BY <3>2, <2>3 DEF Others
  <2>5. harmed \subseteq harmed' /\ harmed' \subseteq Ids
    <3>1. {n \in Names : r.op = "NEW" /\ n = r.name /\ Doomed(num)} \subseteq Ids
      BY UserProcs
    <3> QED BY <3>1, <2>1, HarmGrows DEF UserInv
  <2>6. LinkTypes' /\ ChainInv'
    <3>1. CanSet(num, loc'["userd"].name)
      BY <1>4, <2>3
    <3> QED BY <3>1, <1>0, <2>1, <2>2, <2>3, <2>4, <2>5, TakesLock
  <2>7. UserTypes'
    BY <2>1, <2>3, <2>4, <2>5, <2>6, <1>0 DEF UserInv, UserTypes, RestTypes
  <2>8. QueueInv' /\ WaitInv'
    BY <2>1, <2>4, <1>3, QueueStays
  <2>9. pc'["killd"] = pc["killd"] /\ loc'["killd"] = loc["killd"]
    BY <2>4, UserProcs DEF Others
  <2>10. KilldInv'
    BY <2>9 DEF UserInv, KilldInv, At
  <2>11. UserdInv'
    BY <1>0, <2>1, <2>2, <2>3, <2>4 DEF UserdInv, Setting, r
  <2>12. LockInv'
    BY <2>1, <2>4, <2>9, <1>0, NobodySets DEF LockInv, Setting
  <2>13. CleanInv'
    BY <1>0 DEF UserInv, CleanInv
  <2> QED BY <2>4, <2>6, <2>7, <2>8, <2>10, <2>11, <2>12, <2>13, DaemonMoves
<1>5. CASE ~(num # 0 /\ CanSet(num, r.name))
  <2>1. /\ Answer(IF r.op = "NEW" THEN Failed ELSE 0)
        /\ UNCHANGED <<lock, head, unext, pc, loc, harmed>>
    BY <1>5 DEF Serve
  <2>2. (IF r.op = "NEW" THEN Failed ELSE 0) \in 0 .. MaxUsers + 2
    BY MaxUsersAssumption DEF Failed
  <2>3. Others("userd")
    BY <2>1 DEF Others
  <2>4. QueueInv' /\ WaitInv' /\ ans' \in [Clients -> 0 .. MaxUsers + 2]
    BY <2>1, <2>2, <2>3, <1>0, AnswerTakes
  <2>5. UserTypes'
    BY <2>1, <2>4, <1>0 DEF UserInv, UserTypes, RestTypes, LinkTypes
  <2>6. ChainInv'
    <3>1. ChainsSame
      BY <2>1, <1>0 DEF ChainsSame
    <3> QED BY <3>1, <2>3, <1>3, ChainsStay
  <2>7. KilldInv' /\ LockInv' /\ CleanInv'
    BY <2>1, <1>0 DEF UserInv, KilldInv, At, LockInv, CleanInv
  <2>8. UserdInv'
    BY <2>1, <1>0 DEF UserdInv, Setting
  <2> QED BY <2>3, <2>4, <2>5, <2>6, <2>7, <2>8, DaemonMoves
<1> QED BY <1>4, <1>5

LEMMA ServedKeeps ==
  ASSUME UserInv, Served
  PROVE  UserInv'
<1> DEFINE r == Head(queue)  s == loc["userd"].uid
<1>1. /\ pc["userd"] = "set_done"
      /\ pw' = IF r.op = "NEW" THEN [pw EXCEPT ![s] = Empty(r.name)] ELSE pw
      /\ Answer(IF r.op = "NEW" THEN s ELSE 0)
      /\ lock' = Nobody /\ Stop("userd")
      /\ UNCHANGED <<tasks, head, unext, badname, home, file, holder, harmed>>
  BY DEF Served
<1>2. /\ lock = "userd" /\ lock # Nobody /\ "userd" \in Procs /\ "userd" \notin Clients
      /\ s \in Uids /\ queue # <<>> /\ r.name = loc["userd"].name /\ pw[s].name = r.name
      /\ pw \in [Uids -> Record]
  <2>1. "userd" \in Procs /\ pc["userd"] \in Setting
    BY <1>1, UserProcs DEF Setting
  <2> QED BY <2>1, <1>1, SetterFacts DEF UserInv, UserdInv
<1>3. r \in Request
  BY <1>2, FirstRequest
<1>4. pw' \in [Uids -> Record] /\ \A i \in Uids : pw'[i].name = pw[i].name
  <2>1. CASE r.op = "NEW"
    <3>1. pw' = [pw EXCEPT ![s] = Empty(r.name)]
      BY <1>1, <2>1
    <3>2. Empty(r.name) \in Record /\ Empty(r.name).name = r.name
      BY <1>3, UserProcs DEF Empty, Record, Request
    <3> HIDE DEF r, s
    <3> QED BY <3>1, <3>2, <1>2
  <2>2. CASE r.op # "NEW"
    BY <1>1, <1>2, <2>2
  <2> QED BY <2>1, <2>2
<1>5. /\ loc' \in [Procs -> Local] /\ pc' \in [Procs -> Points] /\ Others("userd") /\ pc'["userd"] = "idle"
  BY <1>1, <1>2, StopSets DEF UserInv
<1>6. QueueInv' /\ WaitInv' /\ ans' \in [Clients -> 0 .. MaxUsers + 2]
  <2>1. (IF r.op = "NEW" THEN s ELSE 0) \in 0 .. MaxUsers + 2
    BY <1>2, MaxUsersAssumption DEF Uids
  <2> QED BY <2>1, <1>1, <1>2, <1>5, AnswerTakes
<1>7. UserTypes'
  BY <1>1, <1>4, <1>5, <1>6 DEF UserInv, UserTypes, RestTypes, LinkTypes
<1>8. pc'["killd"] = pc["killd"] /\ loc'["killd"] = loc["killd"]
  BY <1>5, UserProcs DEF Others
<1>9. KilldInv'
  BY <1>8 DEF UserInv, KilldInv, At
<1>10. UserdInv'
  BY <1>5 DEF UserdInv, Setting
<1>11. LockInv'
  BY <1>1, <1>2, <1>5, <1>8, UserProcs DEF UserInv, LockInv, Setting
<1>12. ChainInv'
  <2>1. NameOf' = NameOf
    BY <1>4 DEF NameOf
  <2>2. Now = NameOf /\ Moving = {} /\ Now' = NameOf /\ Moving' = {}
    BY <2>1, <1>1, <1>2 DEF Now, Moving
  <2> QED BY <2>2, <1>1 DEF UserInv, ChainInv
<1>13. CleanInv'
  BY <1>1, <1>4 DEF UserInv, CleanInv, CleanTables
<1> QED BY <1>5, <1>6, <1>7, <1>9, <1>10, <1>11, <1>12, <1>13, DaemonMoves

-----------------------------------------------------------------------------
(* The steps of killd. *)
LEMMA KilldFacts ==
  ASSUME UserInv
  PROVE  /\ "killd" \in Procs /\ "killd" \notin Clients /\ "killd" # Nobody
         /\ loc["killd"] \in Local /\ loc["killd"].slot \in 0 .. MaxUsers /\ loc["killd"].uid \in 0 .. MaxUsers
         /\ pc["killd"] \in {"k_copy", "k_rm", "k_set", "k_level"} => loc["killd"].slot \in Uids
         /\ pc["killd"] = "k_rm" => loc["killd"].name \in Names
         /\ pc["killd"] = "k_set" => loc["killd"].uid \in Uids
         /\ pc["killd"] \notin Setting => lock # "killd"
<1>1. loc["killd"] \in Local /\ "killd" \in Procs
  BY UserProcs DEF UserInv, UserTypes
<1>2. pc["killd"] \in {"k_copy", "k_rm", "k_set", "k_level"} => At("killd") = pc["killd"]
  BY DEF At
<1> QED BY <1>1, <1>2, UserProcs DEF UserInv, KilldInv, LockInv, Local

LEMMA KilldMoves ==
  ASSUME UserInv, pc["killd"] \notin Setting, pc'["killd"] \notin Setting,
         loc' \in [Procs -> Local], pc' \in [Procs -> Points], Others("killd"), KilldInv',
         RestTypes', ChainsSame, queue' = queue, file' = file
  PROVE  UserInv'
<1>1. UserTypes'
  BY DEF UserTypes
<1>2. QueueInv' /\ WaitInv' /\ HeadStays
  BY KilldFacts, QueueStays
<1>3. OwnInv("killd")' /\ FileClean
  BY KilldFacts DEF OwnInv, FileClean
<1> QED BY <1>1, <1>2, <1>3, KilldFacts, UserProcs, OneMoves

LEMMA NextUserSets ==
  ASSUME UserInv, NextUser
  PROVE  /\ loc' \in [Procs -> Local] /\ pc' \in [Procs -> Points] /\ Others("killd") /\ KilldInv'
         /\ pc'["killd"] \notin Setting
<1>1. CASE loc["killd"].slot = MaxUsers
  <2>1. Stop("killd")
    BY <1>1 DEF NextUser
  <2>2. /\ loc' \in [Procs -> Local] /\ pc' \in [Procs -> Points] /\ Others("killd")
        /\ pc'["killd"] = "idle"
    BY <2>1, KilldFacts, StopSets DEF UserInv
  <2> QED BY <2>2 DEF KilldInv, At, Setting
<1>2. CASE loc["killd"].slot # MaxUsers
  <2> DEFINE i == loc["killd"].slot + 1
             r == [Start EXCEPT !.slot = i]
  <2>1. Goto("killd", "k_copy") /\ loc' = [loc EXCEPT !["killd"] = r]
    BY <1>2 DEF NextUser
  <2>2. i \in Uids /\ i \in 0 .. MaxUsers
    <3>1. loc["killd"].slot \in 0 .. MaxUsers /\ MaxUsers \in Nat
      BY KilldFacts, MaxUsersAssumption
    <3> QED BY <3>1, <1>2 DEF Uids
  <2> HIDE DEF i
  <2>3. r \in Local /\ r.slot = i
    BY <2>2, UserProcs DEF Local
  <2> HIDE DEF r
  <2>4. loc' \in [Procs -> Local] /\ loc'["killd"] = r /\ \A q \in Procs : q # "killd" => loc'[q] = loc[q]
    BY <2>1, <2>3, KilldFacts DEF UserInv, UserTypes
  <2>5. /\ pc' \in [Procs -> Points] /\ pc'["killd"] = "k_copy"
        /\ \A q \in Procs : q # "killd" => pc'[q] = pc[q]
    <3>1. "k_copy" \in Points
      BY DEF Points
    <3> QED BY <3>1, <2>1, KilldFacts, GotoSets DEF UserInv
  <2> QED BY <2>2, <2>3, <2>4, <2>5 DEF KilldInv, At, Setting, Others
<1> QED BY <1>1, <1>2

LEMMA DayBegins ==
  ASSUME UserInv, KDay
  PROVE  UserInv'
<1>1. /\ pc["killd"] = "idle" /\ NextUser /\ queue' = queue /\ file' = file /\ RestTypes' /\ ChainsSame
  BY DEF KDay, Does, UserInv, UserTypes, RestTypes, LinkTypes, ChainsSame
<1>2. pc["killd"] \notin Setting
  BY <1>1 DEF Setting
<1> QED BY <1>1, <1>2, NextUserSets, KilldMoves

LEMMA CopyIsTaken ==
  ASSUME UserInv, KCopy
  PROVE  UserInv'
<1> DEFINE r == pw[loc["killd"].slot]
<1>1. /\ pc["killd"] = "k_copy" /\ queue' = queue /\ file' = file /\ RestTypes' /\ ChainsSame
      /\ NextUser \/ (r.name \notin Odd \cup {None} /\ LookUp("killd", r.name, "k_rm"))
  BY DEF KCopy, UserInv, UserTypes, RestTypes, LinkTypes, ChainsSame
<1>2. pc["killd"] \notin Setting /\ "k_rm" \in Points
  BY <1>1 DEF Setting, Points
<1>3. CASE NextUser
  BY <1>1, <1>2, <1>3, NextUserSets, KilldMoves
<1>4. CASE r.name \notin Odd \cup {None} /\ LookUp("killd", r.name, "k_rm")
  <2>1. loc["killd"].slot \in Uids
    BY <1>1, KilldFacts
  <2>2. r.name \in Names
    <3>1. r \in Record
      BY <2>1 DEF UserInv, UserTypes, RestTypes
    <3>2. r.name \in Ids
      BY <3>1 DEF Record
    <3> QED BY <3>2, <1>4 DEF Ids
  <2> HIDE DEF r
  <2>3. /\ loc' \in [Procs -> Local] /\ pc' \in [Procs -> Points] /\ Others("killd")
        /\ pc'["killd"] = "walk" /\ loc'["killd"].name = r.name /\ loc'["killd"].then = "k_rm"
        /\ loc'["killd"].slot = loc["killd"].slot
    BY <2>2, <1>2, <1>4, KilldFacts, LookUpSets DEF UserInv
  <2>4. KilldInv' /\ pc'["killd"] \notin Setting
    BY <2>1, <2>2, <2>3 DEF KilldInv, At, Setting
  <2> QED BY <2>3, <2>4, <1>1, <1>2, KilldMoves
<1> QED BY <1>1, <1>3, <1>4

LEMMA HomeIsRemoved ==
  ASSUME UserInv, KRm
  PROVE  UserInv'
<1> DEFINE n == loc["killd"].name  u == loc["killd"].uid
<1>1. /\ pc["killd"] = "k_rm" /\ queue' = queue /\ file' = file
      /\ UNCHANGED <<tasks, pw, head, unext, lock, ans, badname>>
  BY DEF KRm
<1>2. pc["killd"] \notin Setting /\ n \in Names /\ loc["killd"].slot \in Uids
  BY <1>1, KilldFacts DEF Setting
<1>3. CASE u \in {0, MaxUsers}
  <2>1. Stop("killd") /\ UNCHANGED <<home, holder, harmed>>
    BY <1>3 DEF KRm
  <2>2. /\ loc' \in [Procs -> Local] /\ pc' \in [Procs -> Points] /\ Others("killd")
        /\ pc'["killd"] = "idle"
    BY <2>1, KilldFacts, StopSets DEF UserInv
  <2>3. KilldInv' /\ pc'["killd"] \notin Setting
    BY <2>2 DEF KilldInv, At, Setting
  <2>4. RestTypes' /\ ChainsSame
    BY <2>1, <1>1 DEF UserInv, UserTypes, RestTypes, LinkTypes, ChainsSame
  <2> QED BY <2>2, <2>3, <2>4, <1>1, <1>2, KilldMoves
<1>4. CASE u \notin {0, MaxUsers}
  <2>1. /\ home' = [home EXCEPT ![n] = Nobody]
        /\ holder' = [holder EXCEPT ![n] = IF pw[u].expired THEN Nobody ELSE @]
        /\ Harm("copy", {x \in {n} : ~pw[u].expired \/ holder[n] = Nobody})
        /\ Goto("killd", "k_set") /\ loc' = loc
    BY <1>4 DEF KRm
  <2>2. u \in Uids
    BY <1>4, KilldFacts, UserProcs
  <2> HIDE DEF n, u
  <2>3. harmed \subseteq harmed' /\ harmed' \subseteq Ids
    <3>1. {x \in {n} : ~pw[u].expired \/ holder[n] = Nobody} \subseteq Ids
      BY <1>2, UserProcs
    <3> QED BY <3>1, <2>1, HarmGrows DEF UserInv
  <2>4. home' \in [Names -> People] /\ holder' \in [Names -> People]
    <3>1. home \in [Names -> People] /\ holder \in [Names -> People] /\ Nobody \in People
      BY UserProcs DEF UserInv, UserTypes, RestTypes
    <3>2. (IF pw[u].expired THEN Nobody ELSE holder[n]) \in People
      BY <3>1, <1>2
    <3> QED BY <3>1, <3>2, <2>1, <1>2
  <2>5. RestTypes' /\ ChainsSame
    BY <2>3, <2>4, <1>1 DEF UserInv, UserTypes, RestTypes, LinkTypes, ChainsSame
  <2>6. pc' \in [Procs -> Points] /\ pc'["killd"] = "k_set" /\ Others("killd")
    <3>1. "k_set" \in Points
      BY DEF Points
    <3> QED BY <3>1, <2>1, KilldFacts, GotoSets DEF UserInv
  <2>7. KilldInv' /\ pc'["killd"] \notin Setting /\ loc' \in [Procs -> Local]
    BY <2>1, <2>2, <2>6, <1>2 DEF KilldInv, At, Setting, UserInv, UserTypes, u
  <2> QED BY <2>5, <2>6, <2>7, <1>1, <1>2, KilldMoves
<1> QED BY <1>3, <1>4

LEMMA SlotIsTakenBack ==
  ASSUME UserInv, KSet
  PROVE  UserInv'
<1> DEFINE u == loc["killd"].uid
<1>1. /\ pc["killd"] = "k_set" /\ lock = Nobody /\ queue' = queue /\ file' = file
      /\ UNCHANGED <<tasks, pw, queue, ans, badname, home, file, holder, harmed>>
  BY DEF KSet
<1>2. pc["killd"] \notin Setting /\ u \in Uids /\ loc["killd"].slot \in Uids
  BY <1>1, KilldFacts DEF Setting
<1>3. CASE ~CanSet(u, None)
  <2>1. Goto("killd", "k_level") /\ UNCHANGED <<lock, head, unext, loc>>
    BY <1>3 DEF KSet
  <2>2. RestTypes' /\ ChainsSame
    BY <2>1, <1>1 DEF UserInv, UserTypes, RestTypes, LinkTypes, ChainsSame
  <2>3. pc' \in [Procs -> Points] /\ pc'["killd"] = "k_level" /\ Others("killd")
    <3>1. "k_level" \in Points
      BY DEF Points
    <3> QED BY <3>1, <2>1, KilldFacts, GotoSets DEF UserInv
  <2>4. KilldInv' /\ pc'["killd"] \notin Setting /\ loc' \in [Procs -> Local]
    BY <2>1, <2>3, <1>2 DEF KilldInv, At, Setting, UserInv, UserTypes
  <2> QED BY <2>2, <2>3, <2>4, <1>1, <1>2, KilldMoves
<1>4. CASE CanSet(u, None)
  <2>1. /\ lock' = "killd" /\ Unlink(u) /\ loc' = [loc EXCEPT !["killd"].name = None]
        /\ Goto("killd", "set_next")
    BY <1>4 DEF KSet
  <2>2. /\ loc' \in [Procs -> Local] /\ loc'["killd"].uid = u /\ loc'["killd"].name = None
        /\ loc'["killd"].slot = loc["killd"].slot /\ \A q \in Procs : q # "killd" => loc'[q] = loc[q]
    <3>0. loc \in [Procs -> Local] /\ loc["killd"] \in Local /\ "killd" \in Procs
      BY KilldFacts DEF UserInv, UserTypes
    <3>1. loc'["killd"] = [loc["killd"] EXCEPT !.name = None] /\ \A q \in Procs : q # "killd" => loc'[q] = loc[q]
      BY <2>1, <3>0
    <3>2. /\ loc'["killd"] \in Local /\ loc'["killd"].uid = u /\ loc'["killd"].name = None
          /\ loc'["killd"].slot = loc["killd"].slot
      BY <3>0, <3>1, UserProcs DEF Local
    <3>3. loc' \in [Procs -> Local]
      BY <2>1, <3>0, <3>1, <3>2
    <3> QED BY <3>1, <3>2, <3>3
  <2>3. pc' \in [Procs -> Points] /\ pc'["killd"] = "set_next" /\ Others("killd")
    <3>1. "set_next" \in Points
      BY DEF Points
    <3>2. /\ pc' \in [Procs -> Points] /\ pc'["killd"] = "set_next"
          /\ \A q \in Procs : q # "killd" => pc'[q] = pc[q]
      BY <3>1, <2>1, KilldFacts, GotoSets DEF UserInv
    <3> QED BY <3>2, <2>2 DEF Others
  <2> HIDE DEF u
  <2>4. LinkTypes' /\ ChainInv'
    <3>1. CanSet(u, loc'["killd"].name)
      BY <1>4, <2>2
    <3> QED BY <3>1, <1>1, <1>2, <2>1, <2>2, <2>3, TakesLock
  <2>5. UserTypes'
    BY <2>2, <2>3, <2>4, <1>1 DEF UserInv, UserTypes, RestTypes
  <2>6. QueueInv' /\ WaitInv'
    BY <2>3, <1>1, KilldFacts, QueueStays
  <2>7. KilldInv'
    BY <2>2, <2>3, <1>2 DEF KilldInv, At, Setting
  <2>8. pc'["userd"] = pc["userd"] /\ pc["userd"] = "idle"
    BY <2>3, <1>1, UserProcs, NobodySets DEF Others
  <2>9. UserdInv' /\ LockInv'
    BY <2>1, <2>3, <2>8 DEF UserdInv, LockInv, Setting
  <2>10. CleanInv'
    BY <1>1 DEF UserInv, CleanInv
  <2> QED BY <2>3, <2>4, <2>5, <2>6, <2>7, <2>9, <2>10, DaemonMoves
<1> QED BY <1>3, <1>4

LEMMA LockIsLeft ==
  ASSUME UserInv, KUnlock
  PROVE  UserInv'
<1>1. /\ pc["killd"] = "set_done" /\ lock' = Nobody /\ Goto("killd", "k_level")
      /\ UNCHANGED <<tasks, pw, head, unext, queue, ans, badname, home, file, loc, holder, harmed>>
  BY DEF KUnlock
<1>2. lock = "killd" /\ lock # Nobody /\ loc["killd"].slot \in Uids
  BY <1>1, KilldFacts DEF UserInv, KilldInv, LockInv, Setting, At
<1>3. pc' \in [Procs -> Points] /\ pc'["killd"] = "k_level" /\ Others("killd")
  <2>1. "k_level" \in Points
    BY DEF Points
  <2> QED BY <2>1, <1>1, KilldFacts, GotoSets DEF UserInv
<1>4. UserTypes'
  BY <1>1, <1>3 DEF UserInv, UserTypes, RestTypes, LinkTypes
<1>5. QueueInv' /\ WaitInv'
  BY <1>1, <1>3, KilldFacts, QueueStays
<1>6. KilldInv'
  BY <1>1, <1>2, <1>3 DEF KilldInv, At, Setting
<1>7. pc'["userd"] = pc["userd"] /\ pc["userd"] \notin Setting
  BY <1>2, <1>3, UserProcs DEF Others, UserInv, LockInv
<1>8. UserdInv' /\ LockInv'
  <2>1. UserdInv'
    BY <1>7 DEF UserInv, UserdInv, Setting
  <2>2. LockInv'
    BY <1>1, <1>3, <1>7, UserProcs DEF LockInv, Setting
  <2> QED BY <2>1, <2>2
<1>9. ChainInv'
  <2>1. NameOf' = NameOf
    BY <1>1 DEF NameOf
  <2>2. Now = NameOf /\ Moving = {} /\ Now' = NameOf /\ Moving' = {}
    BY <2>1, <1>1, <1>2 DEF Now, Moving
  <2> QED BY <2>2, <1>1 DEF UserInv, ChainInv
<1>10. CleanInv'
  BY <1>1 DEF UserInv, CleanInv
<1> QED BY <1>3, <1>4, <1>5, <1>6, <1>8, <1>9, <1>10, DaemonMoves

LEMMA LevelIsCleared ==
  ASSUME UserInv, KLevel
  PROVE  UserInv'
<1>1. /\ pc["killd"] = "k_level" /\ ClearLevel(loc["killd"].slot) /\ NextUser /\ queue' = queue /\ file' = file
      /\ UNCHANGED <<tasks, head, unext, lock, ans, badname, home, holder>>
  BY DEF KLevel
<1>2. pc["killd"] \notin Setting /\ loc["killd"].slot \in Uids
  BY <1>1, KilldFacts DEF Setting
<1>3. /\ pw' \in [Uids -> Record] /\ \A i \in Uids : pw'[i].name = pw[i].name
      /\ harmed \subseteq harmed' /\ harmed' \subseteq Ids
  BY <1>1, <1>2, LevelCleared DEF UserInv
<1>4. RestTypes' /\ ChainsSame
  BY <1>1, <1>3 DEF UserInv, UserTypes, RestTypes, LinkTypes, ChainsSame
<1> QED BY <1>1, <1>2, <1>4, NextUserSets, KilldMoves

-----------------------------------------------------------------------------
(* flushd copies a record. *)
LEMMA FlushKeeps ==
  ASSUME UserInv, Flush
  PROVE  UserInv'
<1> DEFINE s == loc["flushd"].slot + 1
<1>1. /\ pc["flushd"] \in {"idle", "flush"} /\ file' = [file EXCEPT ![s] = pw[s]]
      /\ IF s = MaxUsers THEN Goto("flushd", "flushed") /\ loc' = loc
         ELSE Goto("flushd", "flush") /\ loc' = [loc EXCEPT !["flushd"].slot = s]
      /\ UNCHANGED <<tasks, pw, head, unext, lock, queue, ans, badname, home, holder, harmed>>
  BY DEF Flush, Does
<1>2. /\ "flushd" \in Procs /\ "flushd" \notin Clients /\ "flushd" # lock
      /\ loc \in [Procs -> Local] /\ loc["flushd"] \in Local
  BY UserProcs DEF UserInv, UserTypes, LockInv
<1>3. s \in Uids /\ s \in 0 .. MaxUsers
  <2>1. loc["flushd"].slot \in 0 .. MaxUsers /\ loc["flushd"].slot # MaxUsers
    BY <1>1, <1>2 DEF Local, UserInv, FlushdInv
  <2> QED BY <2>1, MaxUsersAssumption DEF Uids
<1> HIDE DEF s
<1>4. file' \in [Uids -> Record] /\ FileClean
  <2>1. file \in [Uids -> Record] /\ pw \in [Uids -> Record]
    BY DEF UserInv, UserTypes, RestTypes
  <2> QED BY <2>1, <1>1, <1>3 DEF FileClean
<1>5. RestTypes' /\ ChainsSame
  BY <1>1, <1>4 DEF UserInv, UserTypes, RestTypes, LinkTypes, ChainsSame
<1>6. loc' \in [Procs -> Local] /\ pc' \in [Procs -> Points] /\ Others("flushd") /\ FlushdInv'
  <2>0. "flushed" \in Points /\ "flush" \in Points
    BY DEF Points
  <2>1. CASE s = MaxUsers
    <3>1. pc' \in [Procs -> Points] /\ pc'["flushd"] = "flushed" /\ Others("flushd") /\ loc' = loc
      BY <2>0, <2>1, <1>1, <1>2, GotoSets DEF UserInv
    <3> QED BY <3>1, <1>2 DEF FlushdInv
  <2>2. CASE s # MaxUsers
    <3>1. /\ pc' \in [Procs -> Points] /\ pc'["flushd"] = "flush" /\ loc' = [loc EXCEPT !["flushd"].slot = s]
          /\ \A q \in Procs : q # "flushd" => pc'[q] = pc[q]
      BY <2>0, <2>2, <1>1, <1>2, GotoSets DEF UserInv
    <3>2. loc'["flushd"] = [loc["flushd"] EXCEPT !.slot = s] /\ \A q \in Procs : q # "flushd" => loc'[q] = loc[q]
      BY <3>1, <1>2
    <3>3. loc'["flushd"] \in Local /\ loc'["flushd"].slot = s
      BY <3>2, <1>2, <1>3 DEF Local
    <3>4. loc' \in [Procs -> Local]
      BY <3>1, <3>2, <3>3, <1>2
    <3> QED BY <2>2, <3>1, <3>2, <3>3, <3>4 DEF FlushdInv, Others
  <2> QED BY <2>1, <2>2
<1>7. UserTypes'
  BY <1>5, <1>6 DEF UserTypes
<1>8. QueueInv' /\ WaitInv' /\ HeadStays
  BY <1>1, <1>2, <1>6, QueueStays
<1>9. OwnInv("flushd")' /\ "flushd" # "userd"
  BY <1>2, <1>6 DEF OwnInv
<1> QED BY <1>2, <1>4, <1>5, <1>6, <1>7, <1>8, <1>9, OneMoves

(* The machine is started: every process begins anew, and the chains are     *)
(* built from the file.                                                      *)
LEMMA RebootKeeps ==
  ASSUME UserInv, Reboot
  PROVE  UserInv'
<1> DEFINE t == LoadUcache(file)
<1>1. /\ pw' = t.pw /\ head' = t.head /\ unext' = t.next
      /\ pc' = [p \in Procs |-> IF p \in {"flushd", "power"} THEN "over" ELSE "idle"]
      /\ loc' = [p \in Procs |-> Start]
      /\ lock' = Nobody /\ queue' = <<>> /\ ans' = [c \in Clients |-> Pending]
      /\ holder' = [n \in Names |-> IF \E s \in Copies(n) : file[s].who = holder[n] /\ file[s].level = 1
                                    THEN holder[n] ELSE Nobody]
      /\ Harm("torn", Twins) /\ UNCHANGED <<tasks, badname, home, file>>
  BY DEF Reboot
<1>2. file \in [Uids -> Record]
  BY DEF UserInv, UserTypes, RestTypes
<1>3. /\ t.pw \in [Uids -> Record] /\ t.head \in [0 .. HashSize -> 0 .. MaxUsers] /\ t.next \in [Uids -> 0 .. MaxUsers]
      /\ \E L : /\ Standing(t.next, t.head, NamesIn(t), {}, L)
                /\ NoTwins(file) => AllFree(NamesIn(t), {}, L)
      /\ \A s \in Uids : t.pw[s].name \in {file[s].name, None}
  <2> HIDE DEF t
  <2>1. t = LoadUcache(file)
    BY DEF t
  <2> QED BY <2>1, <1>2, LoadStands
<1>4. NameOf' = NamesIn(t)
  BY <1>1 DEF NameOf, NamesIn
<1> HIDE DEF t
<1>5. /\ harmed' \subseteq Ids
      /\ "torn" \in Windows => None \in harmed' \/ NoTwins(file)
  <2>1. Twins \subseteq Ids
    BY DEF Twins
  <2>2. harmed' \subseteq Ids
    BY <2>1, <1>1, HarmGrows DEF UserInv
  <2>3. "torn" \in Windows => Twins \subseteq harmed'
    BY <1>1 DEF Harm
  <2> QED BY <2>2, <2>3, <1>2, WhoAreTwins
<1>6. RestTypes'
  <2>1. MaxUsers + 1 \in 0 .. MaxUsers + 2
    BY MaxUsersAssumption
  <2>2. ans' \in [Clients -> 0 .. MaxUsers + 2]
    BY <2>1, <1>1 DEF Pending
  <2>3. holder' \in [Names -> People]
    BY <1>1, UserProcs DEF UserInv, UserTypes, RestTypes
  <2> QED BY <2>2, <2>3, <1>1, <1>3, <1>5 DEF UserInv, UserTypes, RestTypes, LinkTypes
<1>7. UserTypes'
  <2>1. "over" \in Points /\ "idle" \in Points
    BY DEF Points
  <2>2. pc' \in [Procs -> Points]
    BY <2>1, <1>1
  <2> QED BY <2>2, <1>1, <1>6, UserProcs DEF UserTypes
<1>8. \A p \in Procs : pc'[p] = (IF p \in {"flushd", "power"} THEN "over" ELSE "idle") /\ loc'[p] = Start
  BY <1>1
<1>9. /\ \A c \in Clients : pc'[c] = "idle"
      /\ pc'["userd"] = "idle" /\ pc'["killd"] = "idle" /\ pc'["flushd"] = "over" /\ pc'["power"] = "over"
  BY <1>8, UserProcs
<1>10. /\ \A c \in Clients : ClientInv(c)'
       /\ KilldInv' /\ UserdInv' /\ FlushdInv' /\ PowerInv' /\ LockInv'
  <2>1. \A c \in Clients : ClientInv(c)'
    BY <1>9 DEF ClientInv, At, ClientAt, Newcomer
  <2>2. KilldInv' /\ UserdInv'
    BY <1>9 DEF KilldInv, UserdInv, At, Setting
  <2>3. FlushdInv' /\ PowerInv'
    BY <1>9 DEF FlushdInv, PowerInv
  <2>4. LockInv'
    BY <1>1, <1>9, UserProcs DEF LockInv, Setting
  <2> QED BY <2>1, <2>2, <2>3, <2>4
<1>11. QueueInv' /\ WaitInv'
  BY <1>1 DEF QueueInv, WaitInv
<1>12. ChainInv'
  <2>1. PICK L : /\ Standing(t.next, t.head, NamesIn(t), {}, L)
                 /\ NoTwins(file) => AllFree(NamesIn(t), {}, L)
    BY <1>3
  <2>2. Now' = NamesIn(t) /\ Moving' = {}
    BY <1>1, <1>4 DEF Now, Moving
  <2>3. /\ Standing(unext', head', Now', Moving', L)
        /\ "torn" \in Windows => None \in harmed' \/ AllFree(Now', Moving', L)
    BY <2>1, <2>2, <1>1, <1>5
  <2> QED BY <2>3, <1>1 DEF ChainInv
<1>13. CleanInv'
  BY <1>1, <1>3, UserProcs DEF UserInv, CleanInv, CleanTables
<1> QED BY <1>7, <1>10, <1>11, <1>12, <1>13 DEF UserInv

LEMMA InitHolds ==
  ASSUME UserInit
  PROVE  UserInv
<1> DEFINE t == LoadUcache(file)
<1>1. /\ tasks \in Mixes /\ file \in Tables
      /\ pw = t.pw /\ head = t.head /\ unext = t.next
      /\ lock = Nobody /\ queue = <<>> /\ ans = [c \in Clients |-> Pending]
      /\ holder = [n \in Names |-> IF \E s \in Uids : pw[s].name = n /\ n \notin Odd THEN Earlier ELSE Nobody]
      /\ home = holder /\ badname = {}
      /\ pc = [p \in Procs |-> "idle"] /\ loc = [p \in Procs |-> Start]
      /\ harmed = Twins \cap {None}
  BY DEF UserInit
<1>2. file \in [Uids -> Record]
  BY <1>1, TablesAssumption
<1>3. /\ t.pw \in [Uids -> Record] /\ t.head \in [0 .. HashSize -> 0 .. MaxUsers] /\ t.next \in [Uids -> 0 .. MaxUsers]
      /\ \E L : /\ Standing(t.next, t.head, NamesIn(t), {}, L)
                /\ NoTwins(file) => AllFree(NamesIn(t), {}, L)
      /\ \A s \in Uids : t.pw[s].name \in {file[s].name, None}
  <2> HIDE DEF t
  <2>1. t = LoadUcache(file)
    BY DEF t
  <2> QED BY <2>1, <1>2, LoadStands
<1>4. NameOf = NamesIn(t)
  BY <1>1 DEF NameOf, NamesIn
<1> HIDE DEF t
<1>5. harmed \subseteq Ids /\ (None \in harmed \/ NoTwins(file))
  <2>1. Twins \subseteq Ids
    BY DEF Twins
  <2> QED BY <2>1, <1>1, <1>2, WhoAreTwins
<1>6. RestTypes
  <2>1. MaxUsers + 1 \in 0 .. MaxUsers + 2
    BY MaxUsersAssumption
  <2>2. ans \in [Clients -> 0 .. MaxUsers + 2]
    BY <2>1, <1>1 DEF Pending
  <2>3. holder \in [Names -> People]
    BY <1>1, UserProcs
  <2> QED BY <2>2, <2>3, <1>1, <1>2, <1>3, <1>5 DEF RestTypes, LinkTypes
<1>7. UserTypes
  <2>1. "idle" \in Points
    BY DEF Points
  <2>2. pc \in [Procs -> Points]
    BY <2>1, <1>1
  <2> QED BY <2>2, <1>1, <1>6, UserProcs DEF UserTypes
<1>8. \A p \in Procs : pc[p] = "idle" /\ loc[p] = Start
  BY <1>1
<1>9. /\ \A c \in Clients : pc[c] = "idle"
      /\ pc["userd"] = "idle" /\ pc["killd"] = "idle" /\ pc["flushd"] = "idle" /\ pc["power"] = "idle"
      /\ loc["flushd"].slot = 0 /\ MaxUsers # 0
  BY <1>8, UserProcs
<1>10. /\ \A c \in Clients : ClientInv(c)
       /\ KilldInv /\ UserdInv /\ FlushdInv /\ PowerInv /\ LockInv
  <2>1. \A c \in Clients : ClientInv(c)
    BY <1>9 DEF ClientInv, At, ClientAt, Newcomer
  <2>2. KilldInv /\ UserdInv
    BY <1>9 DEF KilldInv, UserdInv, At, Setting
  <2>3. FlushdInv /\ PowerInv
    BY <1>9 DEF FlushdInv, PowerInv
  <2>4. LockInv
    BY <1>1, <1>9, UserProcs DEF LockInv, Setting
  <2> QED BY <2>1, <2>2, <2>3, <2>4
<1>11. QueueInv /\ WaitInv
  BY <1>1 DEF QueueInv, WaitInv
<1>12. ChainInv
  <2>1. PICK L : /\ Standing(t.next, t.head, NamesIn(t), {}, L)
                 /\ NoTwins(file) => AllFree(NamesIn(t), {}, L)
    BY <1>3
  <2>2. Now = NamesIn(t) /\ Moving = {}
    BY <1>1, <1>4 DEF Now, Moving
  <2>3. /\ Standing(unext, head, Now, Moving, L)
        /\ "torn" \in Windows => None \in harmed \/ AllFree(Now, Moving, L)
    BY <2>1, <2>2, <1>1, <1>5
  <2> QED BY <2>3, <1>1 DEF ChainInv
<1>13. CleanInv
  BY <1>1, <1>3, UserProcs DEF CleanInv, CleanTables
<1> QED BY <1>7, <1>10, <1>11, <1>12, <1>13 DEF UserInv

-----------------------------------------------------------------------------
LEMMA UserStep ==
  ASSUME UserInv, [UserNext]_userVars
  PROVE  UserInv'
<1>1. CASE \E c \in Clients : Client(c)
  BY <1>1, ClientKeeps
<1>2. CASE \E p \in Procs : Walk(p) \/ Setuserid(p)
  BY <1>2, WalkKeeps, NextIsSet, HeadIsSet, NameIsSet DEF Setuserid
<1>3. CASE Serve \/ Served
  BY <1>3, ServeKeeps, ServedKeeps
<1>4. CASE Killauser
  BY <1>4, DayBegins, CopyIsTaken, HomeIsRemoved, SlotIsTakenBack, LockIsLeft, LevelIsCleared DEF Killauser
<1>5. CASE Flush \/ Reboot
  BY <1>5, FlushKeeps, RebootKeeps
<1>6. CASE UNCHANGED userVars
  <2>1. /\ tasks' = tasks /\ pw' = pw /\ head' = head /\ unext' = unext /\ lock' = lock /\ queue' = queue
        /\ ans' = ans /\ badname' = badname /\ home' = home /\ file' = file /\ pc' = pc /\ loc' = loc
        /\ holder' = holder /\ harmed' = harmed
    BY <1>6 DEF userVars
  <2>2. NameOf' = NameOf /\ Now' = Now /\ Moving' = Moving
    BY <2>1 DEF NameOf, Now, Moving
  <2>3. UserTypes' /\ QueueInv' /\ WaitInv' /\ CleanInv'
    BY <2>1 DEF UserInv, UserTypes, RestTypes, LinkTypes, QueueInv, WaitInv, CleanInv
  <2>4. /\ \A c \in Clients : ClientInv(c)'
        /\ KilldInv' /\ UserdInv' /\ FlushdInv' /\ PowerInv' /\ LockInv'
    BY <2>1 DEF UserInv, ClientInv, KilldInv, UserdInv, FlushdInv, PowerInv, LockInv, At
  <2>5. ChainInv'
    BY <2>1, <2>2 DEF UserInv, ChainInv
  <2> QED BY <2>3, <2>4, <2>5 DEF UserInv
<1> QED BY <1>1, <1>2, <1>3, <1>4, <1>5, <1>6 DEF UserNext

LEMMA UsersAlways == UserSpec => []UserInv
<1> QED BY InitHolds, UserStep, PTL DEF UserSpec

-----------------------------------------------------------------------------
LEMMA TypesFollow == UserInv => UserTypeOK
<1> SUFFICES ASSUME UserInv PROVE UserTypeOK
  OBVIOUS
<1>1. UserTypes /\ LinkTypes
  BY DEF UserInv, UserTypes, RestTypes
<1>2. lock \in {"userd", "killd", Nobody}
  BY DEF UserInv, LockInv
<1>3. ASSUME NEW p \in Procs PROVE pc[p] \in Setting <=> lock = p
  <2>1. CASE p \in {"userd", "killd"}
    BY <2>1 DEF UserInv, LockInv
  <2>2. CASE p \in Clients
    <3>1. pc[p] \notin Setting
      BY <2>2 DEF UserInv, ClientInv, At, ClientAt, Newcomer, Setting
    <3>2. lock # p
      BY <1>2, <2>2, UserProcs
    <3> QED BY <3>1, <3>2
  <2>3. CASE p \in {"flushd", "power"}
    <3>1. pc["flushd"] \notin Setting /\ pc["power"] \notin Setting
      BY DEF UserInv, FlushdInv, PowerInv, Setting
    <3>2. lock # "flushd" /\ lock # "power"
      BY <1>2, UserProcs
    <3> QED BY <2>3, <3>1, <3>2
  <2> QED BY <2>1, <2>2, <2>3, UserProcs
<1>4. queue \in Seq([op : {"NEW", "DEL"}, from : Clients \cup {Nobody}, num : Nat, name : Ids])
  <2> DEFINE R == [op : {"NEW", "DEL"}, from : Clients \cup {Nobody}, num : Nat, name : Ids]
  <2>1. 0 .. MaxUsers \subseteq Nat
    BY MaxUsersAssumption
  <2>2. \A r \in Request : r \in R
    BY <2>1 DEF Request
  <2>3. queue \in Seq(Request) /\ Len(queue) \in Nat /\ queue = [i \in 1 .. Len(queue) |-> queue[i]]
        /\ \A i \in 1 .. Len(queue) : queue[i] \in Request
    BY DEF UserInv, QueueInv
  <2> HIDE DEF R
  <2>4. \A i \in 1 .. Len(queue) : queue[i] \in R
    BY <2>2, <2>3
  <2>5. queue \in Seq(R)
    BY <2>3, <2>4
  <2> QED BY <2>5 DEF R
<1>5. \A p \in Procs : loc[p].uid \in 0 .. MaxUsers /\ loc[p].slot \in 0 .. MaxUsers
  BY <1>1 DEF UserTypes, Local
<1>6. ans \in [Clients -> 0 .. Failed]
  BY <1>1 DEF UserTypes, RestTypes, Failed
<1> QED BY <1>1, <1>2, <1>3, <1>4, <1>5, <1>6 DEF UserTypeOK, UserTypes, RestTypes, LinkTypes, Setting

(* For any number of accounts, names, chains and clients the variables keep  *)
(* their types, and whoever is between two steps of setuserid_internal       *)
(* (ucache.c:383-431) has the lock of ucache_lock, which nobody else has.    *)
THEOREM AccountsTypeCorrect == UserSpec => []UserTypeOK
<1> QED BY UsersAlways, TypesFollow, PTL

LEMMA RightFollows ==
  ASSUME UserInv, "torn" \in Windows
  PROVE  ChainsRight
<1> SUFFICES ASSUME lock = Nobody
             PROVE  /\ \A k \in 0 .. HashSize : LET c == Path(head[k]) IN
                         \A i, j \in 0 .. MaxUsers : i # j /\ c[i] = c[j] => c[i] = 0
                    /\ \A s \in Uids : pw[s].name \in Names \ Odd => s \in InChain(Chain(pw[s].name))
                    /\ \A k \in 0 .. HashSize : \A s \in InChain(k) :
                         IF pw[s].name \in Odd THEN k = 0 ELSE Chain(pw[s].name) = k
                    /\ None \in harmed \/ \A s \in Uids : pw[s].name = None => s \in InChain(0)
  BY DEF ChainsRight
<1>1. PICK L : Standing(unext, head, NameOf, {}, L) /\ (None \in harmed \/ AllFree(NameOf, {}, L))
  BY NobodySets
<1>2. /\ \A k \in 0 .. HashSize : Linked(Uids, unext, head[k], 0, L[k])
      /\ \A k \in 0 .. HashSize : \A s \in T!Range(L[k]) : Place(NameOf[s]) = k
      /\ \A s \in Uids : NameOf[s] \in Names \ Odd => s \in T!Range(L[NameHash[NameOf[s]]])
  BY <1>1 DEF Standing
<1>3. \A s \in Uids : NameOf[s] = pw[s].name
  BY DEF NameOf
<1>4. \A k \in 0 .. HashSize : InChain(k) = T!Range(L[k]) /\ InChain(k) \subseteq Uids
  BY <1>2, ChainIs, ListFacts
<1>5. \A k \in 0 .. HashSize : LET c == Path(head[k]) IN
        \A i, j \in 0 .. MaxUsers : i # j /\ c[i] = c[j] => c[i] = 0
  BY <1>2, ChainIs
<1>6. \A s \in Uids : pw[s].name \in Names \ Odd => s \in InChain(Chain(pw[s].name))
  <2> SUFFICES ASSUME NEW s \in Uids, pw[s].name \in Names \ Odd PROVE s \in InChain(Chain(pw[s].name))
    OBVIOUS
  <2>1. Chain(pw[s].name) = NameHash[pw[s].name] /\ Chain(pw[s].name) \in 0 .. HashSize
    BY Places DEF Ids
  <2> QED BY <2>1, <1>2, <1>3, <1>4
<1>7. \A k \in 0 .. HashSize : \A s \in InChain(k) :
        IF pw[s].name \in Odd THEN k = 0 ELSE Chain(pw[s].name) = k
  <2> SUFFICES ASSUME NEW k \in 0 .. HashSize, NEW s \in InChain(k)
               PROVE  IF pw[s].name \in Odd THEN k = 0 ELSE Chain(pw[s].name) = k
    OBVIOUS
  <2>1. Place(pw[s].name) = k
    BY <1>2, <1>3, <1>4
  <2> QED BY <2>1 DEF Place
<1>8. None \in harmed \/ \A s \in Uids : pw[s].name = None => s \in InChain(0)
  BY <1>1, <1>3, <1>4, Places DEF AllFree
<1> QED BY <1>5, <1>6, <1>7, <1>8

(* While nobody has the lock, every chain is a chain and every account is on *)
(* the one searchuser walks along for its name, and a free slot can be given *)
(* away: for any number of accounts, names, chains and clients, whatever     *)
(* userd and killd do in turn, over a restart, and from every .PASSWDS       *)
(* (load_ucache, setuserid_internal, ucache.c:222-348, 383-431).  Slots lost *)
(* to a name that .PASSWDS has twice are left out if Windows has "torn".     *)
THEOREM ChainsStayRight ==
  ASSUME "torn" \in Windows
  PROVE  UserSpec => []ChainsRight
<1>1. UserInv => ChainsRight
  BY RightFollows
<1> QED BY <1>1, UsersAlways, PTL

-----------------------------------------------------------------------------
(* userd refuses a new user who waits. *)
Refused(c) == ans[c] = Pending /\ ans'[c] = Failed /\ pc[c] = "wait_new"

LEMMA NoAnswer ==
  ASSUME NEW c \in Clients, Refused(c)
  PROVE  ans' # ans /\ ans'[c] # Pending /\ ans'[c] \notin 0 .. MaxUsers
<1>1. Failed # Pending /\ Failed \notin 0 .. MaxUsers
  BY MaxUsersAssumption DEF Failed, Pending
<1> QED BY <1>1 DEF Refused

LEMMA OnlyServeRefuses ==
  ASSUME UserInv, [UserNext]_userVars, NEW c \in Clients, Refused(c)
  PROVE  Serve
<1>0. ans' # ans /\ ans'[c] # Pending /\ ans'[c] \notin 0 .. MaxUsers /\ ans'[c] # ans[c] /\ ans \in [Clients -> 0 .. MaxUsers + 2]
  BY NoAnswer DEF Refused, UserInv, UserTypes, RestTypes
<1>1. ASSUME NEW x \in Clients, Client(x) PROVE FALSE
  <2>1. ASSUME NEW n \in Names, Register(x, n) \/ RegisterWeb(x, n) \/ Delete(x, n) \/ Login(x, n) PROVE FALSE
    BY <2>1, <1>0 DEF Register, RegisterWeb, Delete, Login
  <2>2. ASSUME RHome(x) \/ RRm(x) \/ Answered(x) \/ RWrite(x) \/ REnter(x) PROVE FALSE
    BY <2>2, <1>0 DEF RHome, RRm, Answered, RWrite, REnter
  <2>3. ASSUME DFiles(x) \/ DLevel(x) \/ LIn(x) PROVE FALSE
    BY <2>3, <1>0 DEF DFiles, DLevel, LIn
  <2>4. ASSUME RSend(x) \/ DSend(x) PROVE FALSE
    <3>1. ans' = ans \/ ans' = [ans EXCEPT ![x] = Pending]
      BY <2>4 DEF RSend, DSend, Send
    <3>2. ans'[c] \in {ans[c], Pending}
      BY <3>1, <1>0
    <3> QED BY <3>2, <1>0
  <2> QED BY <1>1, <2>1, <2>2, <2>3, <2>4 DEF Client
<1>2. ASSUME NEW p \in Procs, Walk(p) \/ Setuserid(p) PROVE FALSE
  BY <1>2, <1>0 DEF Walk, Setuserid, SetNext, SetHead, SetName
<1>3. ASSUME Served PROVE FALSE
  <2>1. pc["userd"] = "set_done" /\ Answer(IF Head(queue).op = "NEW" THEN loc["userd"].uid ELSE 0)
    BY <1>3 DEF Served
  <2>2. loc["userd"].uid \in 0 .. MaxUsers /\ 0 \in 0 .. MaxUsers
    BY UserProcs DEF UserInv, UserTypes, Local
  <2>3. ans'[c] = ans[c] \/ ans'[c] \in 0 .. MaxUsers
    BY <2>1, <2>2 DEF Answer
  <2> QED BY <2>3, <1>0
<1>4. ASSUME Killauser PROVE FALSE
  BY <1>4, <1>0 DEF Killauser, KDay, KCopy, KRm, KSet, KUnlock, KLevel
<1>5. ASSUME Flush PROVE FALSE
  BY <1>5, <1>0 DEF Flush
<1>6. ASSUME Reboot PROVE FALSE
  <2>1. ans' = [x \in Clients |-> Pending]
    BY <1>6 DEF Reboot
  <2> QED BY <2>1, <1>0
<1>7. ASSUME UNCHANGED userVars PROVE FALSE
  BY <1>7, <1>0 DEF userVars
<1> QED BY <1>1, <1>2, <1>3, <1>4, <1>5, <1>6, <1>7 DEF UserNext

LEMMA RefusalHasReason ==
  ASSUME UserInv, "torn" \in Windows, CleanTables, Serve, NEW c \in Clients, Refused(c)
  PROVE  \/ \E s \in Uids : pw[s].name = loc[c].name
         \/ None \in harmed \/ \A s \in Uids : pw[s].name # None
<1> DEFINE r == Head(queue)
<1>0. ans' # ans /\ ans'[c] # ans[c] /\ ans'[c] \notin 0 .. MaxUsers /\ 0 \in 0 .. MaxUsers
  BY NoAnswer, UserProcs DEF Refused
<1>1. /\ queue # <<>> /\ lock = Nobody
      /\ LET num == IF r.op = "NEW" THEN head[0] ELSE r.num IN ~(num # 0 /\ CanSet(num, r.name))
      /\ Answer(IF r.op = "NEW" THEN Failed ELSE 0)
  BY <1>0 DEF Serve
<1>2. c = r.from /\ r.op = "NEW"
  BY <1>0, <1>1 DEF Answer
<1>3. r.name = loc[c].name /\ r.name \in Names
  <2>1. r = queue[1] /\ 1 \in 1 .. Len(queue) /\ r.name \in Names
    BY <1>1, <1>2, FirstRequest
  <2> QED BY <2>1, <1>2 DEF UserInv, WaitInv
<1>4. ~(head[0] # 0 /\ CanSet(head[0], r.name))
  BY <1>1, <1>2
<1> HIDE DEF r
<1> SUFFICES ASSUME None \notin harmed, NEW free \in Uids, pw[free].name = None
             PROVE  \E s \in Uids : pw[s].name = loc[c].name
  OBVIOUS
<1>5. PICK L : Standing(unext, head, NameOf, {}, L) /\ AllFree(NameOf, {}, L)
  BY <1>1, NobodySets
<1>6. /\ \A k \in 0 .. HashSize : Linked(Uids, unext, head[k], 0, L[k])
      /\ \A s \in Uids : NameOf[s] = pw[s].name
  BY <1>5 DEF Standing, NameOf
<1>7. free \in T!Range(L[0])
  BY <1>5, <1>6 DEF AllFree
<1>8. head[0] # 0
  <2>1. L[0] # <<>>
    BY <1>7, <1>6, Places, ListFacts
  <2> QED BY <2>1, <1>6, Places, ListFacts
<1>9. head[0] \in Uids /\ Place(pw[head[0]].name) = 0
  BY <1>5, <1>6, <1>8, Places, WhoIsFirst
<1>10. Chain(pw[head[0]].name) = 0
  <2>1. pw[head[0]].name \notin Odd
    BY <1>9 DEF UserInv, CleanInv
  <2> QED BY <2>1, <1>9 DEF Place
<1>11. Taken(r.name)
  BY <1>4, <1>8, <1>10 DEF CanSet
<1>12. PICK s \in InChain(Chain(r.name)) : pw[s].name = r.name
  BY <1>11 DEF Taken
<1>13. Chain(r.name) \in 0 .. HashSize
  BY <1>3, Places DEF Ids
<1>14. s \in Uids
  <2>1. Linked(Uids, unext, head[Chain(r.name)], 0, L[Chain(r.name)])
    BY <1>6, <1>13
  <2>2. s \in T!Range(L[Chain(r.name)])
    BY <2>1, <1>12, ChainIs
  <2> QED BY <2>1, <2>2, ListFacts
<1> QED BY <1>3, <1>12, <1>14

(* userd refuses a new user only because his name is taken or no slot is     *)
(* free (miscd.c:492-516, ucache.c:383-397): for any number of accounts,     *)
(* names, chains and clients, if no record of .PASSWDS has a name that       *)
(* id_invalid refuses.  Slots lost to a name .PASSWDS has twice are left out *)
(* if Windows has "torn".                                                    *)
THEOREM OnlyRefusedRightly ==
  ASSUME "torn" \in Windows, CleanTables
  PROVE  UserSpec => RefusedRightly
<1>1. ASSUME UserInv, [UserNext]_userVars
      PROVE  [\A c \in Clients : ans[c] = Pending /\ ans'[c] = Failed /\ pc[c] = "wait_new"
                => \/ \E s \in Uids : pw[s].name = loc[c].name
                   \/ None \in harmed \/ \A s \in Uids : pw[s].name # None]_userVars
  <2>1. ASSUME NEW c \in Clients, Refused(c)
        PROVE  \/ \E s \in Uids : pw[s].name = loc[c].name
               \/ None \in harmed \/ \A s \in Uids : pw[s].name # None
    BY <1>1, <2>1, OnlyServeRefuses, RefusalHasReason
  <2> QED BY <2>1 DEF Refused
<1> QED BY <1>1, UsersAlways, PTL DEF UserSpec, RefusedRightly

-----------------------------------------------------------------------------
(* Accounts stay with who has them.  What somebody is on the way to delete,  *)
(* either decided (Falls) or found but not looked at again (Seeks).          *)
Falls(s) ==
  \/ pc["killd"] \in {"k_set", "set_next", "set_head", "set_name"} /\ loc["killd"].uid = s
  \/ \E c \in Clients : pc[c] = "d_send" /\ loc[c].uid = s
  \/ \E i \in 1 .. Len(queue) : queue[i].op = "DEL" /\ queue[i].num = s
Finders == Clients \cup {"killd"}
Seeks(q, s) == pc[q] = (IF q = "killd" THEN "k_rm" ELSE "d_files") /\ loc[q].uid = s

(* Names outside the windows, and what their accounts are like.              *)
Safe(n)   == n \in Names \ (harmed \cup Odd)
HasSlot(n, s) == pw[s].name = n /\ pw[s].who = holder[n] /\ pw[s].level = 1 /\ home[n] = holder[n]
OneSlot   == \A n \in Names \ Odd : \A s, t \in Uids : pw[s].name = n /\ pw[t].name = n => s = t
HolderInv == \A n \in Names : Safe(n) /\ holder[n] # Nobody => \E s \in Uids : HasSlot(n, s)

(* An account whose deletion is decided is nobody's any more, and a slot     *)
(* that was found for its name has that name, or none.                       *)
FallInv == \A s \in Uids : Falls(s) /\ Safe(pw[s].name) => holder[pw[s].name] = Nobody
SeekInv ==
  /\ \A q \in Finders, s \in Uids : Seeks(q, s) /\ Safe(pw[s].name) => pw[s].name = loc[q].name
  /\ \A c \in Clients : At(c) = "d_files" => loc[c].name # None

(* The slot userd has in hand.                                               *)
Given(n, s) ==
  /\ Safe(n) => holder[n] = Nobody
  /\ pc["userd"] # "set_done" =>
       /\ pw[s].name = None /\ \A t \in Uids : pw[t].name # n
       /\ Falls(s) \/ (\E q \in Finders : Seeks(q, s)) => ~Safe(n)
HandInv == pc["userd"] \in Setting =>
             IF Head(queue).op = "NEW" THEN Given(loc["userd"].name, loc["userd"].uid)
             ELSE loc["userd"].uid = Head(queue).num

(* A home that an account lost in a restart has left, and somebody who will  *)
(* not remove it any more.                                                   *)
Late(c, n) == At(c) \in {"r_send", "wait_new", "r_write", "r_enter"} /\ loc[c].name = n /\ <<"web", n>> \notin tasks[c]
HomeInv ==
  /\ \A c \in Clients : At(c) = "w_send" => <<"web", loc[c].name>> \in tasks[c]
  /\ \A n \in Names, c \in Clients : Safe(n) /\ holder[n] = Nobody /\ home[n] # Nobody => ~Late(c, n)
KeptInv == OneSlot /\ HolderInv /\ FallInv /\ SeekInv /\ HandInv /\ HomeInv

-----------------------------------------------------------------------------
(* What a step has to show of accounts, homes, and what is to be deleted.    *)
SafeAfter(n) == n \in Names \ (harmed' \cup Odd)
NamesSame   == \A s \in Uids : pw'[s].name = pw[s].name
HoldersStay ==
  \A n \in Names : Safe(n)' /\ holder'[n] # Nobody =>
    \/ /\ holder'[n] = holder[n] /\ home'[n] = home[n]
       /\ \A s \in Uids : pw[s].name = n => pw'[s].who = pw[s].who /\ pw'[s].level = pw[s].level
    \/ \E s \in Uids : HasSlot(n, s)' /\ ~Doomed(s)
FallsFrom ==
  \A s \in Uids : Falls(s)' =>
    \/ Falls(s)
    \/ \E q \in Finders : Seeks(q, s) /\ (SafeAfter(loc[q].name) /\ pw[s].name = loc[q].name => holder'[loc[q].name] = Nobody)
SeeksFrom ==
  \A q \in Finders, s \in Uids : Seeks(q, s)' =>
    \/ Seeks(q, s) /\ loc'[q].name = loc[q].name
    \/ pw[s].name = loc'[q].name /\ pw[s].name # None
HomesFrom ==
  \A n \in Names, c \in Clients :
    Safe(n)' /\ holder'[n] = Nobody /\ home'[n] # Nobody /\ Late(c, n)' => holder[n] = Nobody /\ home[n] # Nobody /\ Late(c, n)
AimsStay ==
  \A c \in Clients : /\ At(c)' = "d_files" => loc'[c].name # None
                     /\ At(c)' = "w_send" => <<"web", loc'[c].name>> \in tasks'[c]
HandStays ==
  pc'["userd"] \in Setting =>
    /\ pc["userd"] \in Setting /\ (pc'["userd"] = "set_done" <=> pc["userd"] = "set_done")
    /\ loc'["userd"] = loc["userd"] /\ Head(queue').op = Head(queue).op /\ Head(queue').num = Head(queue).num

LEMMA FallsAreDoomed ==
  ASSUME UserInv, NEW s \in Uids
  PROVE  /\ Falls(s) => Doomed(s)
         /\ \A q \in Finders : Seeks(q, s) => Doomed(s)
<1>1. Falls(s) => Doomed(s)
  <2>1. DOMAIN queue = 1 .. Len(queue)
    BY DEF UserInv, QueueInv
  <2> QED BY <2>1 DEF Falls, Doomed
<1>2. ASSUME NEW q \in Finders, Seeks(q, s) PROVE Doomed(s)
  BY <1>2, UserProcs DEF Seeks, Doomed, Finders
<1> QED BY <1>1, <1>2

LEMMA SafeBefore ==
  ASSUME harmed \subseteq harmed', NEW n, SafeAfter(n)
  PROVE  Safe(n) /\ Safe(n)' /\ n \in Names \ Odd
BY DEF Safe, SafeAfter

LEMMA KeptButHand ==
  ASSUME UserInv, KeptInv, harmed \subseteq harmed', NamesSame,
         HoldersStay, FallsFrom, SeeksFrom, HomesFrom, AimsStay
  PROVE  OneSlot' /\ HolderInv' /\ FallInv' /\ SeekInv' /\ HomeInv'
<1>1. OneSlot'
  BY DEF KeptInv, OneSlot, NamesSame
<1>2. HolderInv'
  <2> SUFFICES ASSUME NEW n \in Names, Safe(n)', holder'[n] # Nobody PROVE \E s \in Uids : HasSlot(n, s)'
    BY DEF HolderInv
  <2>1. Safe(n)
    BY SafeBefore DEF Safe, SafeAfter
  <2>2. CASE /\ holder'[n] = holder[n] /\ home'[n] = home[n]
             /\ \A s \in Uids : pw[s].name = n => pw'[s].who = pw[s].who /\ pw'[s].level = pw[s].level
    <3>1. PICK s \in Uids : HasSlot(n, s)
      BY <2>1, <2>2 DEF KeptInv, HolderInv
    <3>2. HasSlot(n, s)'
      BY <2>2, <3>1 DEF HasSlot, NamesSame
    <3> QED BY <3>2
  <2> QED BY <2>2 DEF HoldersStay
<1>3. FallInv'
  <2> SUFFICES ASSUME NEW s \in Uids, Falls(s)', SafeAfter(pw'[s].name), holder'[pw'[s].name] # Nobody PROVE FALSE
    BY DEF FallInv, Safe, SafeAfter
  <2>0. PICK n : n = pw[s].name
    OBVIOUS
  <2>1. pw'[s].name = n /\ SafeAfter(n) /\ Safe(n)' /\ Safe(n) /\ n \in Names \ Odd /\ holder'[n] # Nobody
    BY <2>0, SafeBefore DEF NamesSame
  <2>2. Doomed(s)
    BY FallsAreDoomed DEF FallsFrom
  <2>3. ~ \E t \in Uids : HasSlot(n, t)' /\ ~Doomed(t)
    <3> SUFFICES ASSUME NEW t \in Uids, HasSlot(n, t)', ~Doomed(t) PROVE FALSE
      OBVIOUS
    <3>1. pw[t].name = n
      BY DEF HasSlot, NamesSame
    <3> QED BY <2>0, <2>1, <2>2, <3>1 DEF KeptInv, OneSlot
  <2>4. holder'[n] = holder[n]
    BY <2>1, <2>3 DEF HoldersStay
  <2>5. CASE Falls(s)
    BY <2>0, <2>1, <2>4, <2>5 DEF KeptInv, FallInv
  <2>6. CASE \E q \in Finders : Seeks(q, s) /\ (SafeAfter(loc[q].name) /\ pw[s].name = loc[q].name => holder'[loc[q].name] = Nobody)
    <3>1. PICK q \in Finders : Seeks(q, s) /\ (SafeAfter(loc[q].name) /\ pw[s].name = loc[q].name => holder'[loc[q].name] = Nobody)
      BY <2>6
    <3>2. n = loc[q].name
      BY <2>0, <2>1, <3>1 DEF KeptInv, SeekInv
    <3> QED BY <2>0, <2>1, <3>1, <3>2
  <2> QED BY <2>5, <2>6 DEF FallsFrom
<1>4. SeekInv'
  <2>1. ASSUME NEW q \in Finders, NEW s \in Uids, Seeks(q, s)', SafeAfter(pw'[s].name) PROVE pw'[s].name = loc'[q].name
    <3>1. pw'[s].name = pw[s].name
      BY DEF NamesSame
    <3>2. Safe(pw[s].name)
      BY <2>1, <3>1, SafeBefore
    <3> QED BY <2>1, <3>1, <3>2 DEF SeeksFrom, KeptInv, SeekInv
  <2> QED BY <2>1 DEF SeekInv, AimsStay, Safe, SafeAfter
<1>5. HomeInv'
  <2>1. \A n \in Names : Safe(n)' => Safe(n)
    BY SafeBefore DEF Safe, SafeAfter
  <2> QED BY <2>1 DEF HomeInv, KeptInv, HomesFrom, AimsStay
<1> QED BY <1>1, <1>2, <1>3, <1>4, <1>5

LEMMA NewName ==
  ASSUME UserInv, pc["userd"] \in Setting, Head(queue).op = "NEW"
  PROVE  /\ loc["userd"].name \in Names \ Odd /\ loc["userd"].uid \in Uids /\ lock = "userd"
         /\ pc["userd"] = "set_done" => pw[loc["userd"].uid].name = loc["userd"].name
<1>1. queue # <<>> /\ loc["userd"].uid \in Uids /\ loc["userd"].name = Head(queue).name /\ lock = "userd"
  BY DEF UserInv, UserdInv, LockInv
<1>2. Head(queue) \in Request /\ Head(queue).name \in Names
  BY <1>1, FirstRequest
<1> QED BY <1>1, <1>2 DEF UserInv, UserdInv, Request

LEMMA HandKept ==
  ASSUME UserInv, KeptInv, harmed \subseteq harmed', NamesSame,
         HoldersStay, FallsFrom, SeeksFrom, HandStays
  PROVE  HandInv'
<1> SUFFICES ASSUME pc'["userd"] \in Setting
             PROVE  IF Head(queue').op = "NEW" THEN Given(loc["userd"].name, loc["userd"].uid)'
                    ELSE loc'["userd"].uid = Head(queue').num
  BY DEF HandInv
<1>1. /\ pc["userd"] \in Setting /\ (pc'["userd"] = "set_done" <=> pc["userd"] = "set_done")
      /\ loc'["userd"] = loc["userd"] /\ Head(queue').op = Head(queue).op /\ Head(queue').num = Head(queue).num
  BY DEF HandStays
<1>2. CASE Head(queue).op # "NEW"
  BY <1>1, <1>2 DEF KeptInv, HandInv
<1>3. CASE Head(queue).op = "NEW"
  <2>0. PICK n, s : n = loc["userd"].name /\ s = loc["userd"].uid
    OBVIOUS
  <2>1. n \in Names \ Odd /\ s \in Uids /\ lock = "userd" /\ (pc["userd"] = "set_done" => pw[s].name = n)
    BY <1>1, <1>3, <2>0, NewName
  <2>2. Given(n, s)
    BY <1>1, <1>3, <2>0 DEF KeptInv, HandInv
  <2>3. n = loc'["userd"].name /\ s = loc'["userd"].uid
    BY <1>1, <2>0
  <2>4. Safe(n)' => Safe(n)
    BY SafeBefore DEF Safe, SafeAfter
  <2>5. Doomed(s)
    BY <2>0, <2>1 DEF Doomed
  <2>6. ASSUME Safe(n)', holder'[n] # Nobody PROVE FALSE
    <3>1. ASSUME NEW t \in Uids, HasSlot(n, t)', ~Doomed(t) PROVE FALSE
      <4>1. pw[t].name = n
        BY <3>1 DEF HasSlot, NamesSame
      <4>2. pc["userd"] = "set_done"
        BY <2>2, <4>1 DEF Given
      <4> QED BY <2>1, <2>5, <3>1, <4>1, <4>2 DEF KeptInv, OneSlot
    <3>2. holder[n] # Nobody
      BY <2>1, <2>6, <3>1 DEF HoldersStay
    <3> QED BY <2>2, <2>4, <2>6, <3>2 DEF Given
  <2>7. ASSUME pc'["userd"] # "set_done"
        PROVE  /\ pw'[s].name = None /\ \A t \in Uids : pw'[t].name # n
               /\ Falls(s)' \/ (\E q \in Finders : Seeks(q, s)') => ~Safe(n)'
    <3>1. /\ pw[s].name = None /\ \A t \in Uids : pw[t].name # n
          /\ Falls(s) \/ (\E q \in Finders : Seeks(q, s)) => ~Safe(n)
      BY <1>1, <2>2, <2>7 DEF Given
    <3>2. pw'[s].name = None /\ \A t \in Uids : pw'[t].name # n
      BY <2>1, <3>1 DEF NamesSame
    <3>3. Falls(s)' => Falls(s) \/ \E q \in Finders : Seeks(q, s)
      BY <2>1 DEF FallsFrom
    <3>4. \A q \in Finders : Seeks(q, s)' => Seeks(q, s)
      BY <2>1, <3>1 DEF SeeksFrom
    <3> QED BY <2>4, <3>1, <3>2, <3>3, <3>4
  <2>8. Given(n, s)'
    BY <2>3, <2>6, <2>7 DEF Given
  <2> QED BY <1>1, <1>3, <2>3, <2>8
<1> QED BY <1>2, <1>3

-----------------------------------------------------------------------------
(* A step of a client. *)
RequestsStay ==
  /\ \A s \in Uids : (\E i \in 1 .. Len(queue') : queue'[i].op = "DEL" /\ queue'[i].num = s) => Falls(s)
  /\ pc["userd"] \in Setting => Head(queue').op = Head(queue).op /\ Head(queue').num = Head(queue).num
DecidesRightly(c) ==
  /\ pc[c] = "d_files" /\ loc'[c].uid = loc[c].uid
  /\ SafeAfter(loc[c].name) /\ pw[loc[c].uid].name = loc[c].name => holder'[loc[c].name] = Nobody

LEMMA ClientKept ==
  ASSUME UserInv, KeptInv, NEW c \in Clients, Others(c), NamesSame, harmed \subseteq harmed', tasks' = tasks,
         HoldersStay, RequestsStay, HomesFrom, pc'[c] # "d_files",
         pc'[c] = "d_send" => DecidesRightly(c),
         At(c)' = "d_files" => loc'[c].name # None,
         At(c)' = "w_send" => <<"web", loc'[c].name>> \in tasks[c]
  PROVE  KeptInv'
<1>1. /\ \A q \in Procs : q # c => pc'[q] = pc[q] /\ loc'[q] = loc[q]
      /\ Finders \subseteq Procs /\ "userd" \in Procs /\ "killd" \in Procs /\ c # "userd" /\ c # "killd" /\ Clients \subseteq Procs
  BY UserProcs DEF Others, Finders
<1>2. FallsFrom
  <2> SUFFICES ASSUME NEW s \in Uids, Falls(s)'
               PROVE  \/ Falls(s)
                      \/ \E q \in Finders : Seeks(q, s) /\ (SafeAfter(loc[q].name) /\ pw[s].name = loc[q].name => holder'[loc[q].name] = Nobody)
    BY DEF FallsFrom
  <2>1. CASE pc'["killd"] \in {"k_set", "set_next", "set_head", "set_name"} /\ loc'["killd"].uid = s
    BY <1>1, <2>1 DEF Falls
  <2>2. ASSUME NEW d \in Clients, pc'[d] = "d_send", loc'[d].uid = s
        PROVE  \/ Falls(s)
               \/ \E q \in Finders : Seeks(q, s) /\ (SafeAfter(loc[q].name) /\ pw[s].name = loc[q].name => holder'[loc[q].name] = Nobody)
    <3>1. CASE d # c
      <4>1. pc[d] = "d_send" /\ loc[d].uid = s
        BY <1>1, <2>2, <3>1
      <4> QED BY <4>1 DEF Falls
    <3>2. CASE d = c
      <4>1. Seeks(c, s) /\ c \in Finders
        BY <1>1, <2>2, <3>2 DEF DecidesRightly, Seeks, Finders
      <4> QED BY <2>2, <3>2, <4>1 DEF DecidesRightly
    <3> QED BY <3>1, <3>2
  <2>3. CASE \E i \in 1 .. Len(queue') : queue'[i].op = "DEL" /\ queue'[i].num = s
    BY <2>3 DEF RequestsStay
  <2> QED BY <2>1, <2>2, <2>3 DEF Falls
<1>3. SeeksFrom
  <2> SUFFICES ASSUME NEW q \in Finders, NEW s \in Uids, Seeks(q, s)'
               PROVE  Seeks(q, s) /\ loc'[q].name = loc[q].name
    BY DEF SeeksFrom
  <2>1. q # c
    BY <1>1 DEF Seeks
  <2> QED BY <1>1, <2>1 DEF Seeks
<1>4. AimsStay
  <2> SUFFICES ASSUME NEW d \in Clients
               PROVE  /\ At(d)' = "d_files" => loc'[d].name # None
                      /\ At(d)' = "w_send" => <<"web", loc'[d].name>> \in tasks[d]
    BY DEF AimsStay
  <2>1. CASE d # c
    <3>1. At(d)' = At(d) /\ loc'[d] = loc[d]
      BY <1>1, <2>1 DEF At
    <3> QED BY <3>1 DEF KeptInv, SeekInv, HomeInv
  <2> QED BY <2>1
<1>5. HandStays
  BY <1>1 DEF HandStays, RequestsStay
<1> QED BY <1>2, <1>3, <1>4, <1>5, KeptButHand, HandKept DEF KeptInv

LEMMA HomesLeft ==
  ASSUME UserInv, NEW c \in Clients, Others(c), home' = home, holder' = holder, tasks' = tasks,
         \A n \in Names : Late(c, n)' => Late(c, n)
  PROVE  HomesFrom
<1> SUFFICES ASSUME NEW n \in Names, NEW d \in Clients, Late(d, n)' PROVE Late(d, n)
  BY DEF HomesFrom
<1>1. CASE d # c
  <2>1. pc'[d] = pc[d] /\ loc'[d] = loc[d]
    BY <1>1, UserProcs DEF Others
  <2> QED BY <2>1 DEF Late, At
<1> QED BY <1>1

LEMMA RequestsLeft ==
  ASSUME UserInv, queue' = queue
  PROVE  RequestsStay
BY DEF RequestsStay, Falls

(* A step that leaves the accounts and homes as they are. *)
LEMMA ClientKeptAll ==
  ASSUME UserInv, KeptInv, NEW c \in Clients, Others(c), pw' = pw, home' = home, holder' = holder, harmed' = harmed,
         tasks' = tasks, RequestsStay, pc'[c] \notin {"d_files", "d_send"},
         \A n \in Names : Late(c, n)' => Late(c, n),
         At(c)' = "d_files" => loc'[c].name # None,
         At(c)' = "w_send" => <<"web", loc'[c].name>> \in tasks[c]
  PROVE  KeptInv'
<1>1. NamesSame /\ HoldersStay
  BY DEF NamesSame, HoldersStay
<1> QED BY <1>1, HomesLeft, ClientKept

LEMMA ClientLooksUp ==
  ASSUME UserInv, NEW c \in Clients, NEW n \in Names, NEW there \in Thens, LookUp(c, n, there)
  PROVE  Others(c) /\ pc'[c] = "walk" /\ loc'[c].name = n /\ At(c)' = there
<1>1. c \in Procs /\ there \in Points
  BY UserProcs DEF Thens, Points
<1>2. Others(c) /\ pc'[c] = "walk" /\ loc'[c].name = n /\ loc'[c].then = there
  BY <1>1, LookUpSets DEF UserInv
<1> QED BY <1>2 DEF At

LEMMA BeginsKept ==
  ASSUME UserInv, KeptInv, NEW c \in Clients, NEW n \in Names,
         Register(c, n) \/ RegisterWeb(c, n) \/ Delete(c, n) \/ Login(c, n)
  PROVE  KeptInv'
<1>1. UNCHANGED <<tasks, pw, queue, home, holder, harmed>> /\ n # None
  BY UserProcs, NamesAssumption DEF Register, RegisterWeb, Delete, Login
<1>2. RequestsStay
  BY <1>1, RequestsLeft
<1>3. CASE Register(c, n)
  <2>1. Others(c) /\ pc'[c] = "walk" /\ loc'[c].name = n /\ At(c)' = "r_home"
    BY <1>3, ClientLooksUp DEF Register, Thens
  <2> QED BY <1>1, <1>2, <2>1, ClientKeptAll DEF Late
<1>4. CASE RegisterWeb(c, n)
  <2>1. Others(c) /\ pc'[c] = "walk" /\ loc'[c].name = n /\ At(c)' = "w_send" /\ <<"web", n>> \in tasks[c]
    BY <1>4, ClientLooksUp DEF RegisterWeb, Thens, Does
  <2> QED BY <1>1, <1>2, <2>1, ClientKeptAll DEF Late
<1>5. CASE Delete(c, n)
  <2>1. Others(c) /\ pc'[c] = "walk" /\ loc'[c].name = n /\ At(c)' = "d_files"
    BY <1>5, ClientLooksUp DEF Delete, Thens
  <2> QED BY <1>1, <1>2, <2>1, ClientKeptAll DEF Late
<1>6. CASE Login(c, n)
  <2>1. Others(c) /\ pc'[c] = "walk" /\ loc'[c].name = n /\ At(c)' = "l_in"
    BY <1>6, ClientLooksUp DEF Login, Thens
  <2> QED BY <1>1, <1>2, <2>1, ClientKeptAll DEF Late
<1> QED BY <1>3, <1>4, <1>5, <1>6

LEMMA ClientStopsAt ==
  ASSUME UserInv, NEW c \in Clients, Stop(c)
  PROVE  Others(c) /\ pc'[c] = "over" /\ At(c)' = "over"
<1>1. Others(c) /\ pc'[c] = "over"
  BY UserProcs, StopSets DEF UserInv
<1> QED BY <1>1 DEF At

LEMMA ClientGoesTo ==
  ASSUME UserInv, NEW c \in Clients, NEW there \in ClientAt, Goto(c, there)
  PROVE  pc'[c] = there /\ At(c)' = there /\ (loc' = loc => Others(c)) /\ \A q \in Procs : q # c => pc'[q] = pc[q]
<1>1. c \in Procs /\ there \in Points /\ there # "walk"
  BY UserProcs DEF ClientAt, Newcomer, Points
<1>2. pc'[c] = there /\ (loc' = loc => Others(c)) /\ \A q \in Procs : q # c => pc'[q] = pc[q]
  BY <1>1, GotoSets DEF UserInv
<1> QED BY <1>1, <1>2 DEF At

LEMMA LooksForHomeKept ==
  ASSUME UserInv, KeptInv, NEW c \in Clients, RHome(c)
  PROVE  KeptInv'
<1>1. UNCHANGED <<tasks, pw, queue, home, holder, harmed>> /\ RequestsStay
  BY RequestsLeft DEF RHome
<1>2. CASE Stop(c)
  BY <1>1, <1>2, ClientStopsAt, ClientKeptAll DEF Late
<1>3. CASE Goto(c, "r_rm") /\ loc' = loc
  <2>1. Others(c) /\ pc'[c] = "r_rm" /\ At(c)' = "r_rm"
    BY <1>3, ClientGoesTo DEF ClientAt, Newcomer
  <2> QED BY <1>1, <2>1, ClientKeptAll DEF Late
<1> QED BY <1>2, <1>3 DEF RHome

(* A window the properties make an exception of. *)
LEMMA InWindow ==
  ASSUME NEW w \in Windows, NEW S, Harm(w, S)
  PROVE  harmed' = harmed \cup S
<1>1. {n \in S : w \in Windows} = S
  OBVIOUS
<1> QED BY <1>1 DEF Harm

(* The home of a name is removed: it is nobody's, or there is an account of  *)
(* that name and the name is in window check.                                *)
LEMMA RemovesHomeKept ==
  ASSUME UserInv, KeptInv, "check" \in Windows, NEW c \in Clients, RRm(c)
  PROVE  KeptInv'
<1> DEFINE n == loc[c].name
<1>1. /\ pc[c] = "r_rm" /\ LookUp(c, n, "r_send") /\ pw' = pw /\ tasks' = tasks /\ queue' = queue /\ holder' = holder
      /\ home' = [home EXCEPT ![n] = Nobody] /\ Harm("check", {x \in {n} : \E s \in Uids : pw[s].name = x})
  BY DEF RRm
<1>2. n \in Names
  BY <1>1, ClientAtPlace DEF Newcomer
<1>3. harmed' = harmed \cup {x \in {n} : \E s \in Uids : pw[s].name = x}
  BY <1>1, InWindow
<1>4. Others(c) /\ pc'[c] = "walk" /\ loc'[c].name = n /\ At(c)' = "r_send"
  BY <1>1, <1>2, ClientLooksUp DEF Thens
<1>5. home \in [Names -> People]
  BY DEF UserInv, UserTypes, RestTypes
<1> HIDE DEF n
<1>6. home'[n] = Nobody /\ \A x \in Names : x # n => home'[x] = home[x]
  BY <1>1, <1>2, <1>5
<1>7. HoldersStay
  <2> SUFFICES ASSUME NEW x \in Names, Safe(x)', holder'[x] # Nobody
               PROVE  holder'[x] = holder[x] /\ home'[x] = home[x]
    BY <1>1 DEF HoldersStay
  <2>1. Safe(x) /\ (x = n => ~ \E s \in Uids : pw[s].name = x)
    BY <1>3 DEF Safe
  <2>2. x # n
    BY <1>1, <2>1 DEF KeptInv, HolderInv, HasSlot
  <2> QED BY <1>1, <1>6, <2>2
<1>8. HomesFrom
  <2> SUFFICES ASSUME NEW x \in Names, NEW d \in Clients, home'[x] # Nobody, Late(d, x)'
               PROVE  home[x] # Nobody /\ Late(d, x)
    BY <1>1 DEF HomesFrom
  <2>1. x # n /\ home'[x] = home[x]
    BY <1>6
  <2>2. d # c
    BY <1>4, <2>1 DEF Late
  <2>3. pc'[d] = pc[d] /\ loc'[d] = loc[d]
    BY <1>4, <2>2, UserProcs DEF Others
  <2> QED BY <1>1, <2>1, <2>3 DEF Late, At
<1>9. RequestsStay /\ NamesSame
  BY <1>1, RequestsLeft DEF NamesSame
<1> QED BY <1>1, <1>3, <1>4, <1>7, <1>8, <1>9, ClientKept

(* Requests are put at the end of the queue, and left by who waits. *)
LEMMA SentRequests ==
  ASSUME UserInv, NEW c \in Clients, NEW op \in {"NEW", "DEL"}, Send(c, op), op = "DEL" => Falls(loc[c].uid)
  PROVE  RequestsStay
<1> DEFINE r == [op |-> op, from |-> c, num |-> IF op = "DEL" THEN loc[c].uid ELSE 0,
                 name |-> IF op = "NEW" THEN loc[c].name ELSE None]
<1>1. queue' = Append(queue, r)
  BY DEF Send
<1>2. queue \in Seq(Request)
  BY DEF UserInv, QueueInv
<1>3. r.op = op /\ (op = "DEL" => r.num = loc[c].uid)
  OBVIOUS
<1> HIDE DEF r
<1>4. /\ Len(queue') = Len(queue) + 1 /\ queue'[Len(queue) + 1] = r /\ Len(queue) \in Nat
      /\ \A i \in 1 .. Len(queue) : queue'[i] = queue[i]
  BY <1>1, <1>2
<1>5. ASSUME NEW s \in Uids, NEW i \in 1 .. Len(queue'), queue'[i].op = "DEL", queue'[i].num = s PROVE Falls(s)
  <2>1. CASE i \in 1 .. Len(queue)
    BY <1>4, <1>5, <2>1 DEF Falls
  <2>2. CASE i = Len(queue) + 1
    BY <1>3, <1>4, <1>5, <2>2
  <2> QED BY <1>4, <2>1, <2>2
<1>6. ASSUME queue # <<>> PROVE Head(queue') = Head(queue)
  <2>1. Len(queue) >= 1
    BY <1>2, <1>6
  <2>2. Head(queue') = queue'[1] /\ Head(queue) = queue[1]
    BY <1>1, <1>2, <1>6, <2>1
  <2> QED BY <1>4, <2>1, <2>2
<1> QED BY <1>5, <1>6 DEF RequestsStay, UserInv, UserdInv

LEMMA LeftRequests ==
  ASSUME UserInv, NEW c \in Clients, Hang(c)
  PROVE  RequestsStay
<1>1. queue \in Seq(Request) /\ DOMAIN queue = 1 .. Len(queue) /\ Len(queue) \in Nat
  BY DEF UserInv, QueueInv
<1>2. queue' = [i \in 1 .. Len(queue) |-> IF queue[i].from = c THEN [queue[i] EXCEPT !.from = Nobody] ELSE queue[i]]
  BY <1>1 DEF Hang
<1>3. Len(queue') = Len(queue)
  BY <1>1, <1>2
<1>4. \A i \in 1 .. Len(queue) : queue'[i].op = queue[i].op /\ queue'[i].num = queue[i].num
  <2> TAKE i \in 1 .. Len(queue)
  <2>1. queue[i] \in Request
    BY <1>1
  <2>2. [queue[i] EXCEPT !.from = Nobody].op = queue[i].op /\ [queue[i] EXCEPT !.from = Nobody].num = queue[i].num
    BY <2>1 DEF Request
  <2> QED BY <1>2, <2>2
<1>5. \A s \in Uids : (\E i \in 1 .. Len(queue') : queue'[i].op = "DEL" /\ queue'[i].num = s) => Falls(s)
  BY <1>3, <1>4 DEF Falls
<1>6. ASSUME queue # <<>> PROVE Head(queue').op = Head(queue).op /\ Head(queue').num = Head(queue).num
  <2>1. 1 \in 1 .. Len(queue) /\ Head(queue) = queue[1] /\ Head(queue') = queue'[1]
    BY <1>1, <1>2, <1>3, <1>6
  <2> QED BY <1>4, <2>1
<1> QED BY <1>5, <1>6 DEF RequestsStay, UserInv, UserdInv

LEMMA AsksKept ==
  ASSUME UserInv, KeptInv, NEW c \in Clients, RSend(c)
  PROVE  KeptInv'
<1>1. /\ pc[c] \in {"r_send", "w_send"} /\ UNCHANGED <<tasks, pw, home, holder, harmed>>
      /\ (Stop(c) /\ queue' = queue) \/ (Send(c, "NEW") /\ Goto(c, "wait_new") /\ loc' = loc)
  BY DEF RSend
<1>2. CASE Stop(c) /\ queue' = queue
  BY <1>1, <1>2, RequestsLeft, ClientStopsAt, ClientKeptAll DEF Late
<1>3. CASE Send(c, "NEW") /\ Goto(c, "wait_new") /\ loc' = loc
  <2>1. Others(c) /\ pc'[c] = "wait_new" /\ At(c)' = "wait_new"
    BY <1>3, ClientGoesTo DEF ClientAt, Newcomer
  <2>2. RequestsStay
    BY <1>3, SentRequests
  <2>3. ASSUME NEW n \in Names, Late(c, n)' PROVE Late(c, n)
    <3>1. pc[c] = "r_send"
      <4>1. pc[c] = "w_send" => <<"web", loc[c].name>> \in tasks[c]
        BY DEF KeptInv, HomeInv, At
      <4> QED BY <1>1, <1>3, <2>3, <4>1 DEF Late
    <3> QED BY <1>1, <1>3, <2>3, <3>1 DEF Late, At
  <2> QED BY <1>1, <2>1, <2>2, <2>3, ClientKeptAll
<1> QED BY <1>1, <1>2, <1>3

LEMMA IsAnsweredKept ==
  ASSUME UserInv, KeptInv, NEW c \in Clients, Answered(c)
  PROVE  KeptInv'
<1>1. /\ pc[c] = "wait_new" /\ UNCHANGED <<tasks, pw, home, holder, harmed>> /\ Hang(c)
      /\ Stop(c) \/ (Goto(c, "r_write") /\ loc' = [loc EXCEPT ![c].uid = ans[c]])
  BY DEF Answered
<1>2. RequestsStay
  BY <1>1, LeftRequests
<1>3. CASE Stop(c)
  BY <1>1, <1>2, <1>3, ClientStopsAt, ClientKeptAll DEF Late
<1>4. CASE Goto(c, "r_write") /\ loc' = [loc EXCEPT ![c].uid = ans[c]]
  <2>1. pc'[c] = "r_write" /\ At(c)' = "r_write" /\ \A q \in Procs : q # c => pc'[q] = pc[q]
    BY <1>4, ClientGoesTo DEF ClientAt, Newcomer
  <2>2. loc'[c].name = loc[c].name /\ \A q \in Procs : q # c => loc'[q] = loc[q]
    <3>1. loc \in [Procs -> Local] /\ loc[c] \in Local /\ c \in Procs
      BY UserProcs DEF UserInv, UserTypes
    <3> QED BY <1>4, <3>1 DEF Local
  <2>3. Others(c)
    BY <2>1, <2>2 DEF Others
  <2>4. \A n \in Names : Late(c, n)' => Late(c, n)
    BY <1>1, <2>2 DEF Late, At
  <2> QED BY <1>1, <1>2, <2>1, <2>3, <2>4, ClientKeptAll
<1> QED BY <1>1, <1>3, <1>4

(* The record of the slot is written: unless its name is in a window, it has *)
(* been the empty one of a name that nobody has yet.                         *)
LEMMA WritesRecordKept ==
  ASSUME UserInv, KeptInv, "number" \in Windows, NEW c \in Clients, RWrite(c)
  PROVE  KeptInv'
<1>0. PICK s : s = loc[c].uid
  OBVIOUS
<1> DEFINE S == {n \in {pw[s].name} \cap Names : n # loc[c].name \/ pw[s].who # Nobody}
<1>1. /\ pc[c] = "r_write" /\ LookUp(c, loc[c].name, "r_enter") /\ queue' = queue /\ Harm("number", S)
      /\ UNCHANGED <<tasks, home, holder>>
      /\ pw' = [pw EXCEPT ![s] = [Empty(pw[s].name) EXCEPT !.who = c, !.level = 1]]
  BY <1>0 DEF RWrite
<1>2. loc[c].name \in Names \ Odd /\ s \in Uids /\ pw \in [Uids -> Record]
  BY <1>0, <1>1, ClientAtPlace DEF Newcomer, UserInv, UserTypes, RestTypes
<1>3. harmed' = harmed \cup S
  BY <1>1, InWindow
<1>4. Others(c) /\ pc'[c] = "walk" /\ loc'[c].name = loc[c].name /\ At(c)' = "r_enter"
  BY <1>1, <1>2, ClientLooksUp DEF Thens
<1>5. pw'[s].name = pw[s].name /\ \A t \in Uids : t # s => pw'[t] = pw[t]
  <2>1. [Empty(pw[s].name) EXCEPT !.who = c, !.level = 1].name = pw[s].name
    BY DEF Empty
  <2> QED BY <1>1, <1>2, <2>1
<1>6. NamesSame
  BY <1>5 DEF NamesSame
<1>7. HoldersStay
  <2> SUFFICES ASSUME NEW n \in Names, Safe(n)', holder'[n] # Nobody, NEW t \in Uids, pw[t].name = n
               PROVE  pw'[t].who = pw[t].who /\ pw'[t].level = pw[t].level
    BY <1>1 DEF HoldersStay
  <2>1. Safe(n) /\ n \notin S /\ n \in Names \ Odd
    BY <1>3 DEF Safe
  <2>2. PICK u \in Uids : HasSlot(n, u)
    BY <1>1, <2>1 DEF KeptInv, HolderInv
  <2>3. u = t /\ pw[t].who # Nobody
    BY <1>1, <2>1, <2>2 DEF HasSlot, KeptInv, OneSlot
  <2>4. t # s
    BY <2>1, <2>3
  <2> QED BY <1>5, <2>4
<1>8. \A n \in Names : Late(c, n)' => Late(c, n)
  BY <1>1, <1>4 DEF Late, At
<1>9. HomesFrom /\ RequestsStay
  BY <1>1, <1>4, <1>8, HomesLeft, RequestsLeft
<1> HIDE DEF S
<1> QED BY <1>1, <1>3, <1>4, <1>6, <1>7, <1>9, ClientKept

(* He enters: the account is his, or his name is in window enter. *)
LEMMA EntersKept ==
  ASSUME UserInv, KeptInv, "enter" \in Windows, NEW c \in Clients, REnter(c)
  PROVE  KeptInv'
<1>0. PICK n, s : n = loc[c].name /\ s = loc[c].uid
  OBVIOUS
<1>1. pc[c] = "r_enter" /\ UNCHANGED <<tasks, pw, queue>> /\ n \in Names \ Odd /\ NamesSame /\ RequestsStay
  <2>1. pc[c] = "r_enter" /\ UNCHANGED <<tasks, pw, queue>>
    BY DEF REnter
  <2>2. n \in Names \ Odd
    BY <1>0, <2>1, ClientAtPlace DEF Newcomer
  <2> QED BY <2>1, <2>2, RequestsLeft DEF NamesSame
<1>2. CASE s = 0
  <2>1. Stop(c) /\ UNCHANGED <<home, holder, harmed>>
    BY <1>0, <1>2 DEF REnter
  <2> QED BY <1>1, <2>1, ClientStopsAt, ClientKeptAll DEF Late
<1>3. CASE s # 0
  <2>1. /\ home' = [home EXCEPT ![n] = IF home[n] = Nobody \/ <<"web", n>> \in tasks[c] THEN c ELSE home[n]]
        /\ holder' = [holder EXCEPT ![n] = IF HasIt(c) THEN c ELSE holder[n]]
        /\ Harm("enter", {x \in {n} : ~HasIt(c)}) /\ Goto(c, "in") /\ loc' = loc
    BY <1>0, <1>3 DEF REnter
  <2>2. Others(c) /\ pc'[c] = "in" /\ At(c)' = "in"
    BY <2>1, ClientGoesTo DEF ClientAt
  <2>3. harmed' = harmed \cup {x \in {n} : ~HasIt(c)}
    BY <2>1, InWindow
  <2>4. /\ home'[n] = IF home[n] = Nobody \/ <<"web", n>> \in tasks[c] THEN c ELSE home[n]
        /\ holder'[n] = IF HasIt(c) THEN c ELSE holder[n]
        /\ \A x \in Names : x # n => home'[x] = home[x] /\ holder'[x] = holder[x]
    BY <1>1, <2>1 DEF UserInv, UserTypes, RestTypes
  <2>5. s \in Uids /\ c # Nobody
    BY <1>0, <1>3, ClientAtPlace, UserProcs DEF Local
  <2>6. ASSUME Safe(n)' PROVE HasSlot(n, s)' /\ ~Doomed(s) /\ holder'[n] = c
    <3>1. HasIt(c) /\ Safe(n)
      BY <2>3, <2>6 DEF Safe
    <3>2. pw[s].name = n /\ pw[s].who = c /\ pw[s].level = 1 /\ ~Doomed(s) /\ holder'[n] = c
      BY <1>0, <2>4, <3>1 DEF HasIt
    <3>3. home'[n] = c
      <4>1. CASE home[n] = Nobody \/ <<"web", n>> \in tasks[c]
        BY <2>4, <4>1
      <4>2. CASE home[n] # Nobody /\ <<"web", n>> \notin tasks[c]
        <5>1. Late(c, n)
          BY <1>0, <1>1, <4>2 DEF Late, At
        <5>2. holder[n] # Nobody
          BY <1>1, <3>1, <4>2, <5>1 DEF KeptInv, HomeInv
        <5>3. PICK t \in Uids : HasSlot(n, t)
          BY <1>1, <3>1, <5>2 DEF KeptInv, HolderInv
        <5>4. t = s
          BY <1>1, <2>5, <3>2, <5>3 DEF HasSlot, KeptInv, OneSlot
        <5> QED BY <2>4, <3>2, <4>2, <5>3, <5>4 DEF HasSlot
      <4> QED BY <4>1, <4>2
    <3> QED BY <1>1, <3>2, <3>3 DEF HasSlot
  <2>7. HoldersStay
    <3> SUFFICES ASSUME NEW x \in Names, Safe(x)'
                 PROVE  \/ holder'[x] = holder[x] /\ home'[x] = home[x]
                        \/ \E t \in Uids : HasSlot(x, t)' /\ ~Doomed(t)
      BY <1>1 DEF HoldersStay
    <3> QED BY <2>4, <2>5, <2>6
  <2>8. HomesFrom
    <3> SUFFICES ASSUME NEW x \in Names, NEW d \in Clients, Safe(x)', holder'[x] = Nobody, home'[x] # Nobody, Late(d, x)'
                 PROVE  holder[x] = Nobody /\ home[x] # Nobody /\ Late(d, x)
      BY DEF HomesFrom
    <3>1. x # n
      BY <2>5, <2>6
    <3>2. d # c
      BY <2>2 DEF Late
    <3>3. pc'[d] = pc[d] /\ loc'[d] = loc[d]
      BY <2>2, <3>2, UserProcs DEF Others
    <3> QED BY <1>1, <2>4, <3>1, <3>3 DEF Late, At
  <2> QED BY <1>1, <2>2, <2>3, <2>7, <2>8, ClientKept
<1> QED BY <1>2, <1>3

(* A manager removes the files of the account he has found. *)
LEMMA RemovesFilesKept ==
  ASSUME UserInv, KeptInv, NEW c \in Clients, DFiles(c)
  PROVE  KeptInv'
<1>0. PICK m, s, n : m = loc[c].name /\ s = loc[c].uid /\ n = IF s = 0 THEN None ELSE pw[s].name
  OBVIOUS
<1>1. /\ pc[c] = "d_files" /\ UNCHANGED <<tasks, pw, queue, harmed>>
      /\ IF s = 0 THEN Stop(c) ELSE Goto(c, "d_send") /\ loc' = loc
      /\ home'   = [x \in Names |-> IF x = n THEN Nobody ELSE home[x]]
      /\ holder' = [x \in Names |-> IF x = n /\ x = m THEN Nobody ELSE holder[x]]
  BY <1>0 DEF DFiles
<1>2. RequestsStay /\ NamesSame /\ None \notin Names
  BY <1>1, RequestsLeft, NamesAssumption DEF NamesSame
<1>3. Others(c) /\ pc'[c] = At(c)' /\ pc'[c] \in {"over", "d_send"} /\ (pc'[c] = "d_send" => s # 0 /\ loc' = loc)
  <2>1. CASE s = 0
    BY <1>1, <2>1, ClientStopsAt
  <2>2. CASE s # 0
    BY <1>1, <2>2, ClientGoesTo DEF ClientAt
  <2> QED BY <2>1, <2>2
<1>4. s \in 0 .. MaxUsers /\ (s # 0 => s \in Uids /\ Seeks(c, s) /\ c \in Finders)
  BY <1>0, <1>1, ClientAtPlace, UserProcs DEF Local, Seeks, Finders
<1>5. HoldersStay
  <2> SUFFICES ASSUME NEW x \in Names, Safe(x)', holder'[x] # Nobody PROVE holder'[x] = holder[x] /\ home'[x] = home[x]
    BY <1>1 DEF HoldersStay
  <2>1. Safe(x)
    BY <1>1 DEF Safe
  <2>2. CASE x = n
    <3>1. s # 0 /\ x = pw[s].name
      BY <1>0, <1>2, <2>2
    <3>2. x = m
      BY <1>0, <1>4, <2>1, <3>1 DEF KeptInv, SeekInv
    <3> QED BY <1>1, <2>2, <3>2
  <2> QED BY <1>1, <2>2
<1>6. HomesFrom
  <2> SUFFICES ASSUME NEW x \in Names, NEW d \in Clients, holder'[x] = Nobody, home'[x] # Nobody, Late(d, x)'
               PROVE  holder[x] = Nobody /\ home[x] # Nobody /\ Late(d, x)
    BY DEF HomesFrom
  <2>1. x # n /\ home[x] = home'[x] /\ holder[x] = holder'[x]
    BY <1>1
  <2>2. d # c
    BY <1>3 DEF Late
  <2>3. pc'[d] = pc[d] /\ loc'[d] = loc[d]
    BY <1>3, <2>2, UserProcs DEF Others
  <2> QED BY <1>1, <2>1, <2>3 DEF Late, At
<1>7. pc'[c] = "d_send" => DecidesRightly(c)
  <2> SUFFICES ASSUME pc'[c] = "d_send" PROVE DecidesRightly(c)
    OBVIOUS
  <2>1. s # 0 /\ loc' = loc /\ n = pw[s].name
    BY <1>0, <1>3
  <2>2. SafeAfter(m) /\ pw[s].name = m => holder'[m] = Nobody
    BY <1>1, <2>1 DEF SafeAfter
  <2> QED BY <1>0, <1>1, <2>1, <2>2 DEF DecidesRightly
<1> QED BY <1>1, <1>2, <1>3, <1>5, <1>6, <1>7, ClientKept

LEMMA AsksForRemovalKept ==
  ASSUME UserInv, KeptInv, NEW c \in Clients, DSend(c)
  PROVE  KeptInv'
<1>1. pc[c] = "d_send" /\ Send(c, "DEL") /\ Goto(c, "wait_del") /\ UNCHANGED <<tasks, pw, home, holder, harmed, loc>>
  BY DEF DSend
<1>2. RequestsStay
  BY <1>1, SentRequests DEF Falls
<1>3. Others(c) /\ pc'[c] = "wait_del" /\ At(c)' = "wait_del"
  BY <1>1, ClientGoesTo DEF ClientAt
<1> QED BY <1>1, <1>2, <1>3, ClientKeptAll DEF Late

(* The level of the slot is cleared: the account it has is in window level. *)
LEMMA ClearLevelStays ==
  ASSUME UserInv, "level" \in Windows, NEW s \in Uids, ClearLevel(s), home' = home, holder' = holder
  PROVE  NamesSame /\ HoldersStay /\ harmed \subseteq harmed'
<1>1. pw' = [pw EXCEPT ![s].level = 0] /\ harmed' = harmed \cup ({pw[s].name} \cap Names)
  BY InWindow DEF ClearLevel
<1>2. pw \in [Uids -> Record]
  BY DEF UserInv, UserTypes, RestTypes
<1>3. pw'[s].name = pw[s].name /\ \A t \in Uids : t # s => pw'[t] = pw[t]
  <2>1. pw[s] \in Record
    BY <1>2
  <2> QED BY <1>1, <1>2, <2>1 DEF Record
<1>4. NamesSame
  BY <1>3 DEF NamesSame
<1>5. HoldersStay
  BY <1>1, <1>3 DEF HoldersStay, Safe
<1> QED BY <1>1, <1>4, <1>5

LEMMA ClearsLevelKept ==
  ASSUME UserInv, KeptInv, "level" \in Windows, NEW c \in Clients, DLevel(c)
  PROVE  KeptInv'
<1>1. pc[c] = "wait_del" /\ ClearLevel(loc[c].uid) /\ Hang(c) /\ Stop(c) /\ UNCHANGED <<tasks, home, holder>>
  BY DEF DLevel
<1>2. loc[c].uid \in Uids
  BY <1>1, ClientAtPlace
<1>3. Others(c) /\ pc'[c] = "over" /\ At(c)' = "over" /\ RequestsStay
  BY <1>1, ClientStopsAt, LeftRequests
<1>4. NamesSame /\ HoldersStay /\ harmed \subseteq harmed'
  BY <1>1, <1>2, ClearLevelStays
<1>5. HomesFrom
  BY <1>1, <1>3, HomesLeft DEF Late
<1> QED BY <1>1, <1>3, <1>4, <1>5, ClientKept

LEMMA ComesInKept ==
  ASSUME UserInv, KeptInv, NEW c \in Clients, LIn(c)
  PROVE  KeptInv'
<1>1. pc[c] = "l_in" /\ Stop(c) /\ UNCHANGED <<tasks, queue, home, holder, harmed>>
  BY DEF LIn
<1>2. Others(c) /\ pc'[c] = "over" /\ At(c)' = "over" /\ RequestsStay
  BY <1>1, ClientStopsAt, RequestsLeft
<1>3. \A s \in Uids : pw'[s].name = pw[s].name /\ pw'[s].who = pw[s].who /\ pw'[s].level = pw[s].level
  <2>1. pw \in [Uids -> Record]
    BY DEF UserInv, UserTypes, RestTypes
  <2>2. pw' = pw \/ pw' = [pw EXCEPT ![loc[c].uid].expired = FALSE, ![loc[c].uid].logins = 1]
    BY DEF LIn
  <2> TAKE s \in Uids
  <2>3. pw[s] \in Record
    BY <2>1
  <2> QED BY <2>1, <2>2, <2>3 DEF Record
<1>4. NamesSame /\ HoldersStay
  BY <1>1, <1>3 DEF NamesSame, HoldersStay
<1>5. HomesFrom
  BY <1>1, <1>2, HomesLeft DEF Late
<1> QED BY <1>1, <1>2, <1>4, <1>5, ClientKept

Excused == {"level", "number", "check", "copy", "enter", "torn"} \subseteq Windows

LEMMA ClientStepKept ==
  ASSUME UserInv, KeptInv, Excused, NEW c \in Clients, Client(c)
  PROVE  KeptInv'
BY BeginsKept, LooksForHomeKept, RemovesHomeKept, AsksKept, IsAnsweredKept, WritesRecordKept, EntersKept,
   RemovesFilesKept, AsksForRemovalKept, ClearsLevelKept, ComesInKept DEF Client, Excused

-----------------------------------------------------------------------------
(* A search goes on, or ends at a slot that has its name. *)
LEMMA WalkGoes ==
  ASSUME UserInv, NEW p \in Procs, Walk(p)
  PROVE  /\ p \in Finders /\ p # "userd" /\ Others(p) /\ At(p)' = At(p) /\ loc'[p].name = loc[p].name
         /\ pc[p] = "walk" /\ pc'[p] \in {"walk", At(p)}
         /\ pc'[p] = "walk" \/ loc'[p].uid \notin Uids \/ pw[loc'[p].uid].name = loc[p].name
<1>1. pc[p] = "walk"
  BY DEF Walk
<1>2. p \in Clients \/ p = "killd"
  BY <1>1, UserProcs DEF UserInv, UserdInv, FlushdInv, PowerInv, Setting
<1>3. loc \in [Procs -> Local] /\ pc \in [Procs -> Points] /\ loc[p] \in Local
  BY DEF UserInv, UserTypes
<1>4. PICK a, b, x, d, e, f : loc[p] = [name |-> a, uid |-> b, at |-> x, slot |-> d, then |-> e, seen |-> f]
  BY <1>3 DEF Local
<1>5. CASE loc[p].at # 0 /\ pw[loc[p].at].name # loc[p].name
  <2>1. loc' = [loc EXCEPT ![p].at = unext[loc[p].at]] /\ pc' = pc
    BY <1>5 DEF Walk
  <2>2. loc'[p].name = loc[p].name /\ loc'[p].then = loc[p].then /\ \A q \in Procs : q # p => loc'[q] = loc[q]
    BY <2>1, <1>3, <1>4
  <2> QED BY <1>1, <1>2, <2>1, <2>2, UserProcs DEF Finders, Others, At
<1>6. CASE ~(loc[p].at # 0 /\ pw[loc[p].at].name # loc[p].name)
  <2>1. loc' = [loc EXCEPT ![p].uid = loc[p].at, ![p].at = 0] /\ pc' = [pc EXCEPT ![p] = loc[p].then]
    BY <1>6 DEF Walk, Goto
  <2>2. /\ loc'[p].name = loc[p].name /\ loc'[p].then = loc[p].then /\ loc'[p].uid = loc[p].at
        /\ \A q \in Procs : q # p => loc'[q] = loc[q]
    BY <2>1, <1>3, <1>4
  <2>3. pc'[p] = loc[p].then /\ \A q \in Procs : q # p => pc'[q] = pc[q]
    BY <2>1, <1>3
  <2>4. loc'[p].uid \notin Uids \/ pw[loc'[p].uid].name = loc[p].name
    BY <1>6, <2>2, UserProcs
  <2> QED BY <1>1, <1>2, <2>2, <2>3, <2>4, UserProcs DEF Finders, Others, At
<1> QED BY <1>5, <1>6

LEMMA WalkKept ==
  ASSUME UserInv, KeptInv, NEW p \in Procs, Walk(p)
  PROVE  KeptInv'
<1>1. /\ UNCHANGED <<tasks, pw, queue, home, holder, harmed>>
      /\ p \in Finders /\ p # "userd" /\ Others(p) /\ At(p)' = At(p) /\ loc'[p].name = loc[p].name
      /\ pc[p] = "walk" /\ pc'[p] \in {"walk", At(p)}
      /\ pc'[p] = "walk" \/ loc'[p].uid \notin Uids \/ pw[loc'[p].uid].name = loc[p].name
  BY WalkGoes DEF Walk
<1>2. /\ \A q \in Procs : q # p => pc'[q] = pc[q] /\ loc'[q] = loc[q]
      /\ Finders \subseteq Procs /\ "userd" \in Procs /\ "killd" \in Procs /\ Clients \subseteq Procs /\ "killd" \notin Clients
  BY <1>1, UserProcs DEF Others, Finders
<1>3. /\ p \in Clients => At(p) \in Thens
      /\ p = "killd" => At(p) = "k_rm" /\ loc[p].name \in Names
  BY <1>1 DEF UserInv, ClientInv, KilldInv, At
<1>4. pc'[p] \in {"walk", "k_rm"} \cup Thens
  BY <1>1, <1>3 DEF Finders
<1>5. NamesSame /\ HoldersStay
  BY <1>1 DEF NamesSame, HoldersStay
<1>6. FallsFrom
  <2> SUFFICES ASSUME NEW s \in Uids, Falls(s)' PROVE Falls(s)
    BY DEF FallsFrom
  <2>1. CASE pc'["killd"] \in {"k_set", "set_next", "set_head", "set_name"} /\ loc'["killd"].uid = s
    BY <1>2, <1>4, <2>1 DEF Falls, Thens
  <2>2. ASSUME NEW c \in Clients, pc'[c] = "d_send", loc'[c].uid = s PROVE Falls(s)
    BY <1>2, <1>4, <2>2 DEF Falls, Thens
  <2>3. CASE \E i \in 1 .. Len(queue') : queue'[i].op = "DEL" /\ queue'[i].num = s
    BY <1>1, <2>3 DEF Falls
  <2> QED BY <2>1, <2>2, <2>3 DEF Falls
<1>7. SeeksFrom
  <2> SUFFICES ASSUME NEW q \in Finders, NEW s \in Uids, Seeks(q, s)'
               PROVE  (Seeks(q, s) /\ loc'[q].name = loc[q].name) \/ (pw[s].name = loc'[q].name /\ pw[s].name # None)
    BY DEF SeeksFrom
  <2>1. CASE q # p
    BY <1>2, <2>1 DEF Seeks
  <2>2. CASE q = p
    <3>1. pc'[p] # "walk" /\ loc'[p].uid = s
      BY <2>2 DEF Seeks
    <3>2. pw[s].name = loc[p].name
      BY <1>1, <3>1
    <3>3. loc[p].name # None
      <4>1. CASE p = "killd"
        BY <1>3, <4>1, NamesAssumption
      <4>2. CASE p # "killd"
        <5>1. p \in Clients /\ At(p) = "d_files"
          BY <1>1, <2>2, <3>1, <4>2 DEF Seeks, Finders
        <5> QED BY <5>1 DEF KeptInv, SeekInv
      <4> QED BY <4>1, <4>2
    <3> QED BY <1>1, <2>2, <3>2, <3>3
  <2> QED BY <2>1, <2>2
<1>8. \A c \in Clients : At(c)' = At(c) /\ loc'[c].name = loc[c].name
  BY <1>1, <1>2 DEF At
<1>9. HomesFrom
  BY <1>1, <1>8 DEF HomesFrom, Late
<1>10. AimsStay
  BY <1>1, <1>8 DEF AimsStay, KeptInv, SeekInv, HomeInv
<1>11. HandStays
  BY <1>1, <1>2 DEF HandStays
<1> QED BY <1>1, <1>5, <1>6, <1>7, <1>9, <1>10, <1>11, KeptButHand, HandKept DEF KeptInv

-----------------------------------------------------------------------------
(* A step of a daemon.  What killd is on the way to delete, and what becomes *)
(* of the homes. *)
Deciding  == {"k_set", "set_next", "set_head", "set_name"}
KilldAims ==
  /\ pc'["killd"] \in Deciding =>
       /\ loc'["killd"].uid = loc["killd"].uid
       /\ \/ pc["killd"] \in Deciding
          \/ /\ pc["killd"] = "k_rm"
             /\ SafeAfter(loc["killd"].name) /\ pw[loc["killd"].uid].name = loc["killd"].name => holder'[loc["killd"].name] = Nobody
  /\ pc'["killd"] # "k_rm" \/ (pc'["killd"] = pc["killd"] /\ loc'["killd"] = loc["killd"])
HomesGo == \A n \in Names : home'[n] = Nobody \/ (home'[n] = home[n] /\ holder'[n] = holder[n])
RequestsGo == \A s \in Uids : (\E i \in 1 .. Len(queue') : queue'[i].op = "DEL" /\ queue'[i].num = s) => Falls(s)

LEMMA DaemonKept ==
  ASSUME UserInv, KeptInv, NEW p \in Daemons, Others(p), NamesSame, harmed \subseteq harmed', tasks' = tasks,
         HoldersStay, HomesGo, KilldAims, RequestsGo
  PROVE  /\ OneSlot' /\ HolderInv' /\ FallInv' /\ SeekInv' /\ HomeInv'
         /\ HandStays => KeptInv'
<1>1. /\ \A c \in Clients : pc'[c] = pc[c] /\ loc'[c] = loc[c]
      /\ "killd" \in Finders /\ Clients \subseteq Finders
  BY UserProcs DEF Others, Finders, Daemons
<1>2. FallsFrom
  <2> SUFFICES ASSUME NEW s \in Uids, Falls(s)'
               PROVE  \/ Falls(s)
                      \/ \E q \in Finders : Seeks(q, s) /\ (SafeAfter(loc[q].name) /\ pw[s].name = loc[q].name => holder'[loc[q].name] = Nobody)
    BY DEF FallsFrom
  <2>1. CASE pc'["killd"] \in Deciding /\ loc'["killd"].uid = s
    <3>1. CASE pc["killd"] \in Deciding
      BY <2>1, <3>1 DEF KilldAims, Falls, Deciding
    <3>2. CASE pc["killd"] \notin Deciding
      <4>1. Seeks("killd", s)
        BY <2>1, <3>2 DEF KilldAims, Seeks
      <4> QED BY <1>1, <2>1, <3>2, <4>1 DEF KilldAims
    <3> QED BY <3>1, <3>2
  <2>2. ASSUME NEW c \in Clients, pc'[c] = "d_send", loc'[c].uid = s PROVE Falls(s)
    BY <1>1, <2>2 DEF Falls
  <2>3. CASE \E i \in 1 .. Len(queue') : queue'[i].op = "DEL" /\ queue'[i].num = s
    BY <2>3 DEF RequestsGo
  <2> QED BY <2>1, <2>2, <2>3 DEF Falls, Deciding
<1>3. SeeksFrom
  <2> SUFFICES ASSUME NEW q \in Finders, NEW s \in Uids, Seeks(q, s)' PROVE Seeks(q, s) /\ loc'[q].name = loc[q].name
    BY DEF SeeksFrom
  <2>1. CASE q = "killd"
    BY <2>1 DEF Seeks, KilldAims
  <2>2. CASE q # "killd"
    BY <1>1, <2>2 DEF Seeks, Finders
  <2> QED BY <2>1, <2>2
<1>4. \A c \in Clients : At(c)' = At(c) /\ loc'[c].name = loc[c].name
  BY <1>1 DEF At
<1>5. HomesFrom
  <2> SUFFICES ASSUME NEW n \in Names, NEW c \in Clients, home'[n] # Nobody, Late(c, n)'
               PROVE  home'[n] = home[n] /\ holder'[n] = holder[n] /\ Late(c, n)
    BY DEF HomesFrom
  <2> QED BY <1>4 DEF HomesGo, Late
<1>6. AimsStay
  BY <1>4 DEF AimsStay, KeptInv, SeekInv, HomeInv
<1> QED BY <1>2, <1>3, <1>5, <1>6, KeptButHand, HandKept DEF KeptInv

(* A daemon that leaves accounts, homes and requests as they are. *)
LEMMA DaemonKeptAll ==
  ASSUME UserInv, KeptInv, NEW p \in Daemons, Others(p), NamesSame,
         UNCHANGED <<tasks, pw, queue, home, holder>>, harmed \subseteq harmed', KilldAims, HandStays
  PROVE  KeptInv'
<1>1. HoldersStay /\ HomesGo /\ RequestsGo
  BY DEF HoldersStay, HomesGo, RequestsGo, Falls
<1> QED BY <1>1, DaemonKept

LEMMA KilldAlone ==
  ASSUME UserInv, Others("killd"), queue' = queue
  PROVE  HandStays
BY UserProcs DEF Others, HandStays

LEMMA KilldElsewhere ==
  ASSUME UserInv, NEW p \in Daemons \ {"killd"}, Others(p)
  PROVE  KilldAims
<1>1. pc'["killd"] = pc["killd"] /\ loc'["killd"] = loc["killd"]
  BY UserProcs DEF Others, Daemons
<1> QED BY <1>1 DEF KilldAims

LEMMA NextUserGoes ==
  ASSUME UserInv, NextUser, queue' = queue
  PROVE  Others("killd") /\ pc'["killd"] \in {"idle", "k_copy"} /\ KilldAims /\ HandStays
<1>1. Others("killd")
  BY NextUserSets
<1>2. pc'["killd"] \in {"idle", "k_copy"}
  <2>1. pc \in [Procs -> Points] /\ "killd" \in Procs /\ "killd" \notin Clients
    BY KilldFacts DEF UserInv, UserTypes
  <2> QED BY <2>1 DEF NextUser, Stop, Goto
<1> QED BY <1>1, <1>2, KilldAlone DEF KilldAims, Deciding

LEMMA KilldStops ==
  ASSUME UserInv, NEW there \in {"k_set", "k_level", "set_next"}, Goto("killd", there)
  PROVE  pc'["killd"] = there /\ \A q \in Procs : q # "killd" => pc'[q] = pc[q]
<1>1. there \in Points
  BY DEF Points
<1> QED BY <1>1, KilldFacts, GotoSets DEF UserInv

LEMMA DayKept ==
  ASSUME UserInv, KeptInv, KDay
  PROVE  KeptInv'
<1>1. NextUser /\ UNCHANGED <<tasks, pw, queue, home, holder, harmed>> /\ "killd" \in Daemons
  BY DEF KDay, Daemons
<1>2. NamesSame
  BY <1>1 DEF NamesSame
<1> QED BY <1>1, <1>2, NextUserGoes, DaemonKeptAll

LEMMA CopyKept ==
  ASSUME UserInv, KeptInv, KCopy
  PROVE  KeptInv'
<1> DEFINE r == pw[loc["killd"].slot]
<1>1. /\ pc["killd"] = "k_copy" /\ UNCHANGED <<tasks, pw, queue, home, holder, harmed>> /\ "killd" \in Daemons
      /\ NextUser \/ (r.name \notin Odd \cup {None} /\ LookUp("killd", r.name, "k_rm"))
  BY DEF KCopy, Daemons
<1>2. NamesSame
  BY <1>1 DEF NamesSame
<1>3. CASE NextUser
  BY <1>1, <1>2, <1>3, NextUserGoes, DaemonKeptAll
<1>4. CASE r.name \notin Odd \cup {None} /\ LookUp("killd", r.name, "k_rm")
  <2>1. loc["killd"].slot \in Uids /\ pw \in [Uids -> Record] /\ "killd" \in Procs
    BY <1>1, KilldFacts DEF UserInv, UserTypes, RestTypes
  <2>2. r.name \in Names
    <3>1. r \in Record
      BY <2>1
    <3> QED BY <3>1, <1>4 DEF Record, Ids
  <2> HIDE DEF r
  <2>3. "k_rm" \in Points
    BY DEF Points
  <2>4. Others("killd") /\ pc'["killd"] = "walk"
    BY <1>4, <2>1, <2>2, <2>3, LookUpSets DEF UserInv
  <2>5. KilldAims /\ HandStays
    BY <1>1, <2>4, KilldAlone DEF KilldAims, Deciding
  <2> QED BY <1>1, <1>2, <2>4, <2>5, DaemonKeptAll
<1> QED BY <1>1, <1>3, <1>4

(* killd removes the home of an account that it finds expired, or its name   *)
(* is in window copy. *)
LEMMA RemovesExpiredKept ==
  ASSUME UserInv, KeptInv, "copy" \in Windows, KRm
  PROVE  KeptInv'
<1>0. PICK n, u : n = loc["killd"].name /\ u = loc["killd"].uid
  OBVIOUS
<1>1. /\ pc["killd"] = "k_rm" /\ UNCHANGED <<tasks, pw, queue>> /\ "killd" \in Daemons /\ "killd" \in Procs /\ "killd" \notin Clients
      /\ n \in Names /\ NamesSame
  BY <1>0, KilldFacts DEF KRm, Daemons, NamesSame
<1>2. CASE u \in {0, MaxUsers}
  <2>1. Stop("killd") /\ UNCHANGED <<home, holder, harmed>>
    BY <1>0, <1>2 DEF KRm
  <2>2. Others("killd") /\ pc'["killd"] = "idle"
    BY <1>1, <2>1, StopSets DEF UserInv
  <2>3. KilldAims /\ HandStays
    BY <1>1, <2>2, KilldAlone DEF KilldAims, Deciding
  <2> QED BY <1>1, <2>1, <2>2, <2>3, DaemonKeptAll
<1>3. CASE u \notin {0, MaxUsers}
  <2>1. /\ home' = [home EXCEPT ![n] = Nobody]
        /\ holder' = [holder EXCEPT ![n] = IF pw[u].expired THEN Nobody ELSE holder[n]]
        /\ Harm("copy", {x \in {n} : ~pw[u].expired \/ holder[n] = Nobody})
        /\ Goto("killd", "k_set") /\ loc' = loc
    BY <1>0, <1>3 DEF KRm
  <2>2. harmed' = harmed \cup {x \in {n} : ~pw[u].expired \/ holder[n] = Nobody}
    BY <2>1, InWindow
  <2>3. /\ home'[n] = Nobody /\ holder'[n] = IF pw[u].expired THEN Nobody ELSE holder[n]
        /\ \A x \in Names : x # n => home'[x] = home[x] /\ holder'[x] = holder[x]
    BY <1>1, <2>1 DEF UserInv, UserTypes, RestTypes
  <2>4. SafeAfter(n) => holder'[n] = Nobody
    BY <2>2, <2>3 DEF SafeAfter
  <2>5. HoldersStay
    <3> SUFFICES ASSUME NEW x \in Names, Safe(x)', holder'[x] # Nobody PROVE holder'[x] = holder[x] /\ home'[x] = home[x]
      BY <1>1 DEF HoldersStay
    <3> QED BY <2>3, <2>4 DEF Safe, SafeAfter
  <2>6. HomesGo
    BY <2>3 DEF HomesGo
  <2>7. pc'["killd"] = "k_set" /\ Others("killd")
    BY <2>1, KilldStops DEF Others
  <2>8. KilldAims
    BY <1>0, <1>1, <2>1, <2>4, <2>7 DEF KilldAims, Deciding
  <2>9. HandStays /\ RequestsGo
    BY <1>1, <2>7, KilldAlone DEF RequestsGo, Falls
  <2> QED BY <1>1, <2>2, <2>5, <2>6, <2>7, <2>8, <2>9, DaemonKept
<1> QED BY <1>2, <1>3

LEMMA TakesBackKept ==
  ASSUME UserInv, KeptInv, KSet
  PROVE  KeptInv'
<1>1. /\ pc["killd"] = "k_set" /\ UNCHANGED <<tasks, pw, queue, home, holder, harmed>> /\ "killd" \in Daemons
      /\ \/ loc' = [loc EXCEPT !["killd"].name = None] /\ Goto("killd", "set_next")
         \/ loc' = loc /\ Goto("killd", "k_level")
  BY DEF KSet, Daemons
<1>2. NamesSame
  BY <1>1 DEF NamesSame
<1>3. PICK there \in {"k_set", "k_level", "set_next"} : Goto("killd", there) /\ there # "k_set"
  BY <1>1
<1>4. pc'["killd"] \in {"set_next", "k_level"} /\ \A q \in Procs : q # "killd" => pc'[q] = pc[q]
  BY <1>3, KilldStops
<1>5. loc'["killd"].uid = loc["killd"].uid /\ \A q \in Procs : q # "killd" => loc'[q] = loc[q]
  <2>1. loc \in [Procs -> Local] /\ loc["killd"] \in Local /\ "killd" \in Procs
    BY KilldFacts DEF UserInv, UserTypes
  <2> QED BY <1>1, <2>1 DEF Local
<1>6. Others("killd")
  BY <1>4, <1>5 DEF Others
<1>7. KilldAims /\ HandStays
  BY <1>1, <1>4, <1>5, <1>6, KilldAlone DEF KilldAims, Deciding
<1> QED BY <1>1, <1>2, <1>6, <1>7, DaemonKeptAll

LEMMA LeavesLockKept ==
  ASSUME UserInv, KeptInv, KUnlock
  PROVE  KeptInv'
<1>1. Goto("killd", "k_level") /\ UNCHANGED <<tasks, pw, queue, home, holder, harmed, loc>> /\ "killd" \in Daemons
  BY DEF KUnlock, Daemons
<1>2. NamesSame
  BY <1>1 DEF NamesSame
<1>3. pc'["killd"] = "k_level" /\ Others("killd")
  BY <1>1, KilldStops DEF Others
<1>4. KilldAims /\ HandStays
  BY <1>1, <1>3, KilldAlone DEF KilldAims, Deciding
<1> QED BY <1>1, <1>2, <1>3, <1>4, DaemonKeptAll

LEMMA KillsLevelKept ==
  ASSUME UserInv, KeptInv, "level" \in Windows, KLevel
  PROVE  KeptInv'
<1>1. /\ pc["killd"] = "k_level" /\ ClearLevel(loc["killd"].slot) /\ NextUser
      /\ UNCHANGED <<tasks, queue, home, holder>> /\ "killd" \in Daemons
  BY DEF KLevel, Daemons
<1>2. loc["killd"].slot \in Uids
  BY <1>1, KilldFacts
<1>3. NamesSame /\ HoldersStay /\ harmed \subseteq harmed'
  BY <1>1, <1>2, ClearLevelStays
<1>4. HomesGo /\ RequestsGo
  BY <1>1 DEF HomesGo, RequestsGo, Falls
<1> QED BY <1>1, <1>3, <1>4, NextUserGoes, DaemonKept

LEMMA KillauserKept ==
  ASSUME UserInv, KeptInv, Excused, Killauser
  PROVE  KeptInv'
BY DayKept, CopyKept, RemovesExpiredKept, TakesBackKept, LeavesLockKept, KillsLevelKept DEF Killauser, Excused

(* flushd only writes the file. *)
LEMMA FlushKept ==
  ASSUME UserInv, KeptInv, Flush
  PROVE  KeptInv'
<1>1. UNCHANGED <<tasks, pw, queue, home, holder, harmed>> /\ "flushd" \in Daemons \ {"killd"} /\ "flushd" \in Procs
  BY UserProcs DEF Flush, Daemons
<1>2. loc \in [Procs -> Local] /\ pc \in [Procs -> Points]
  BY DEF UserInv, UserTypes
<1>3. Others("flushd")
  <2>1. \/ Goto("flushd", "flushed") /\ loc' = loc
        \/ Goto("flushd", "flush") /\ loc' = [loc EXCEPT !["flushd"].slot = loc["flushd"].slot + 1]
    BY DEF Flush
  <2> QED BY <1>1, <1>2, <2>1 DEF Others, Goto
<1>4. NamesSame /\ KilldAims /\ HandStays
  BY <1>1, <1>3, KilldElsewhere, UserProcs DEF NamesSame, HandStays, Others
<1> QED BY <1>1, <1>3, <1>4, DaemonKeptAll

-----------------------------------------------------------------------------
(* setuserid_internal. *)
LEMMA NextOrHeadKept ==
  ASSUME UserInv, KeptInv, NEW p \in Procs, SetNext(p) \/ SetHead(p)
  PROVE  KeptInv'
<1>1. /\ pc[p] \in {"set_next", "set_head"} /\ UNCHANGED <<tasks, pw, queue, home, holder, loc>>
      /\ Goto(p, "set_head") \/ Goto(p, "set_name")
  BY DEF SetNext, SetHead
<1>2. pc[p] \in Setting /\ p \in {"userd", "killd"} /\ p \in Daemons
  <2>1. pc[p] \in Setting
    BY <1>1 DEF Setting
  <2> QED BY <2>1, SetterFacts DEF Daemons
<1>3. harmed \subseteq harmed' /\ NamesSame
  BY <1>1 DEF SetNext, SetHead, Harm, NamesSame
<1>4. pc'[p] \in {"set_head", "set_name"} /\ Others(p)
  <2>1. pc \in [Procs -> Points]
    BY DEF UserInv, UserTypes
  <2> QED BY <1>1, <2>1 DEF Goto, Others
<1>5. KilldAims
  <2>1. CASE p = "killd"
    BY <1>1, <1>4, <2>1 DEF KilldAims, Deciding
  <2>2. CASE p # "killd"
    BY <1>2, <1>4, <2>2, KilldElsewhere
  <2> QED BY <2>1, <2>2
<1>6. HandStays
  <2>1. CASE p = "killd"
    BY <1>1, <1>4, <2>1, KilldAlone
  <2>2. CASE p = "userd"
    BY <1>1, <1>2, <1>4, <2>2 DEF HandStays
  <2> QED BY <1>2, <2>1, <2>2
<1> QED BY <1>1, <1>2, <1>3, <1>4, <1>5, <1>6, DaemonKeptAll

(* The slot has its new name.  Its old one was nobody's any more, or none;   *)
(* a new user's name is in no other slot and nobody is to delete this one.   *)
LEMMA FreshName ==
  ASSUME UserInv, KeptInv, NEW p \in Procs, pc[p] = "set_name"
  PROVE  /\ loc[p].name \in Names => loc[p].name \notin Odd /\ \A t \in Uids : pw[t].name # loc[p].name
         /\ Safe(loc[p].name) => ~Falls(loc[p].uid) /\ \A q \in Finders : ~Seeks(q, loc[p].uid)
         /\ Safe(pw[loc[p].uid].name) => holder[pw[loc[p].uid].name] = Nobody
         /\ p = "userd" /\ Head(queue).op = "NEW" => Given(loc[p].name, loc[p].uid)
<1>1. pc[p] \in Setting /\ loc[p].uid \in Uids /\ loc[p].name \in Ids \ Odd /\ p \in {"userd", "killd"} /\ None \notin Names
  <2>1. pc[p] \in Setting
    BY DEF Setting
  <2> QED BY <2>1, SetterFacts, NamesAssumption
<1>2. CASE p = "userd" /\ Head(queue).op = "NEW"
  <2>1. Given(loc[p].name, loc[p].uid)
    BY <1>1, <1>2 DEF KeptInv, HandInv
  <2> QED BY <1>1, <1>2, <2>1 DEF Given, Safe
<1>3. CASE ~(p = "userd" /\ Head(queue).op = "NEW")
  <2>1. loc[p].name = None /\ Falls(loc[p].uid)
    <3>1. CASE p = "killd"
      BY <1>1, <3>1 DEF Falls, UserInv, KilldInv
    <3>2. CASE p = "userd"
      <4>1. queue # <<>> /\ loc[p].name = Head(queue).name /\ loc[p].uid = Head(queue).num /\ Head(queue).op # "NEW"
        BY <1>1, <1>3, <3>2 DEF UserInv, UserdInv, KeptInv, HandInv
      <4>2. Head(queue).op = "DEL" /\ Head(queue) = queue[1] /\ 1 \in 1 .. Len(queue) /\ Head(queue).name = None
        BY <4>1, FirstRequest
      <4> QED BY <4>1, <4>2 DEF Falls
    <3> QED BY <1>1, <3>1, <3>2
  <2> QED BY <1>1, <1>3, <2>1 DEF Safe, KeptInv, FallInv
<1> QED BY <1>2, <1>3

LEMMA NameKept ==
  ASSUME UserInv, KeptInv, NEW p \in Procs, SetName(p)
  PROVE  KeptInv'
<1>0. PICK s, n : s = loc[p].uid /\ n = loc[p].name
  OBVIOUS
<1>1. /\ pc[p] = "set_name" /\ pw' = [pw EXCEPT ![s].name = n] /\ Goto(p, "set_done")
      /\ UNCHANGED <<tasks, queue, home, loc, holder, harmed>>
  BY <1>0 DEF SetName
<1>2. /\ p \in {"userd", "killd"} /\ p \notin Clients /\ lock = p /\ s \in Uids /\ n \in Ids \ Odd /\ pw \in [Uids -> Record]
  <2>1. pc[p] \in Setting
    BY <1>1 DEF Setting
  <2> QED BY <2>1, <1>0, SetterFacts
<1>3. /\ n \in Names => n \notin Odd /\ \A t \in Uids : pw[t].name # n
      /\ Safe(n) => ~Falls(s) /\ \A q \in Finders : ~Seeks(q, s)
      /\ Safe(pw[s].name) => holder[pw[s].name] = Nobody
      /\ p = "userd" /\ Head(queue).op = "NEW" => Given(n, s)
  BY <1>0, <1>1, FreshName
<1>4. pw'[s].name = n /\ \A t \in Uids : t # s => pw'[t] = pw[t]
  <2>1. pw[s] \in Record
    BY <1>2
  <2> QED BY <1>1, <1>2, <2>1 DEF Record
<1>5. pc'[p] = "set_done" /\ \A q \in Procs : q # p => pc'[q] = pc[q]
  <2>1. "set_done" \in Points
    BY DEF Points
  <2> QED BY <1>1, <2>1, GotoSets DEF UserInv
<1>6. /\ \A c \in Clients : pc'[c] = pc[c] /\ At(c)' = At(c)
      /\ \A q \in Finders, t \in Uids : Seeks(q, t)' => Seeks(q, t)
      /\ \A t \in Uids : Falls(t)' => Falls(t)
  <2>1. Clients \subseteq Procs /\ "killd" \in Procs /\ "userd" \in Procs
    BY UserProcs
  <2>2. \A c \in Clients : pc'[c] = pc[c] /\ At(c)' = At(c)
    BY <1>1, <1>2, <1>5, <2>1 DEF At
  <2>3. pc'["killd"] = pc["killd"] \/ pc'["killd"] = "set_done"
    BY <1>5, <2>1
  <2>4. \A q \in Finders, t \in Uids : Seeks(q, t)' => Seeks(q, t)
    BY <1>1, <2>2, <2>3 DEF Seeks, Finders
  <2>5. \A t \in Uids : Falls(t)' => Falls(t)
    BY <1>1, <2>2, <2>3 DEF Falls
  <2> QED BY <2>2, <2>4, <2>5
<1>7. \A x : Safe(x)' <=> Safe(x)
  BY <1>1 DEF Safe
<1>8. OneSlot'
  BY <1>3, <1>4 DEF KeptInv, OneSlot
<1>9. HolderInv'
  <2> SUFFICES ASSUME NEW x \in Names, Safe(x), holder[x] # Nobody PROVE \E t \in Uids : HasSlot(x, t)'
    BY <1>1, <1>7 DEF HolderInv
  <2>1. PICK t \in Uids : HasSlot(x, t)
    BY DEF KeptInv, HolderInv
  <2>2. t # s
    BY <1>3, <2>1 DEF HasSlot
  <2>3. HasSlot(x, t)'
    BY <1>1, <1>4, <2>1, <2>2 DEF HasSlot
  <2> QED BY <2>3
<1>10. FallInv'
  <2> SUFFICES ASSUME NEW t \in Uids, Falls(t), SafeAfter(pw'[t].name) PROVE holder[pw'[t].name] = Nobody
    BY <1>1, <1>6 DEF FallInv, Safe, SafeAfter
  <2>1. Safe(pw'[t].name)
    BY <1>1 DEF Safe, SafeAfter
  <2>2. t # s
    BY <1>3, <1>4, <2>1
  <2> QED BY <1>4, <2>1, <2>2 DEF KeptInv, FallInv
<1>11. SeekInv'
  <2>1. ASSUME NEW q \in Finders, NEW t \in Uids, Seeks(q, t), SafeAfter(pw'[t].name) PROVE pw'[t].name = loc[q].name
    <3>1. Safe(pw'[t].name)
      BY <1>1, <2>1 DEF Safe, SafeAfter
    <3>2. t # s
      BY <1>3, <1>4, <2>1, <3>1
    <3> QED BY <1>4, <2>1, <3>1, <3>2 DEF KeptInv, SeekInv
  <2>2. \A c \in Clients : At(c)' = "d_files" => loc'[c].name # None
    BY <1>1, <1>6 DEF KeptInv, SeekInv
  <2> QED BY <1>1, <1>6, <2>1, <2>2 DEF SeekInv, Safe, SafeAfter
<1>12. HomeInv'
  BY <1>1, <1>6, <1>7 DEF HomeInv, KeptInv, Late
<1>13. HandInv'
  <2>1. CASE p = "userd" /\ Head(queue).op = "NEW"
    <3>1. Given(n, s) /\ pc'["userd"] = "set_done"
      BY <1>3, <1>5, <2>1
    <3>2. Safe(n)' => holder'[n] = Nobody
      BY <1>1, <1>7, <3>1 DEF Given
    <3>3. n = loc'["userd"].name
      BY <1>0, <1>1, <2>1
    <3>4. Given(loc["userd"].name, loc["userd"].uid)'
      BY <3>1, <3>2, <3>3 DEF Given
    <3> QED BY <1>1, <2>1, <3>4 DEF HandInv
  <2>2. CASE p = "userd" /\ Head(queue).op # "NEW"
    BY <1>1, <2>2 DEF HandInv, KeptInv, Setting
  <2>3. CASE p = "killd"
    <3>1. pc["userd"] \notin Setting /\ pc'["userd"] = pc["userd"]
      BY <1>2, <1>5, <2>3, UserProcs DEF UserInv, LockInv
    <3> QED BY <3>1 DEF HandInv
  <2> QED BY <1>2, <2>1, <2>2, <2>3
<1> QED BY <1>8, <1>9, <1>10, <1>11, <1>12, <1>13 DEF KeptInv

-----------------------------------------------------------------------------
(* The first slot of the free chain can only be set to a name that no slot   *)
(* has, and if it has none. *)
LEMMA FreeToGive ==
  ASSUME UserInv, lock = Nobody, NEW n \in Names \ Odd, head[0] # 0, CanSet(head[0], n)
  PROVE  head[0] \in Uids /\ pw[head[0]].name = None /\ \A t \in Uids : pw[t].name # n
<1> DEFINE s == head[0]
<1>1. PICK L : Standing(unext, head, NameOf, {}, L)
  BY NobodySets
<1>2. /\ \A k \in 0 .. HashSize : Linked(Uids, unext, head[k], 0, L[k])
      /\ \A t \in Uids : NameOf[t] = pw[t].name /\ pw[t].name \in Ids
  BY <1>1 DEF Standing, NameOf, UserInv, UserTypes, RestTypes, Record
<1>3. s \in T!Range(L[0]) /\ s \in Uids /\ Place(pw[s].name) = 0
  BY <1>1, <1>2, Places, WhoIsFirst
<1>4. \A k \in 0 .. HashSize : k # 0 => s \notin T!Range(L[k])
  BY <1>1, <1>3, Places, OneChain
<1>5. pw[s].name \notin Odd
  <2> SUFFICES ASSUME pw[s].name \in Odd PROVE FALSE
    OBVIOUS
  <2> DEFINE k == Chain(pw[s].name)
  <2>1. k \in 0 .. HashSize /\ k # 0 /\ HashSize \in 0 .. HashSize /\ HashSize # 0
    BY <1>2, <1>3, Places
  <2>2. head[k] # s /\ head[HashSize] # s
    BY <1>1, <1>3, <1>4, <2>1, UserProcs, WhoIsFirst
  <2>3. PICK b \in Preceding(s) : TRUE
    BY <2>2 DEF CanSet
  <2>4. After(b) = s /\ (b = 0 \/ b \in InChain(HashSize) \/ b \in InChain(k))
    BY <2>3 DEF Preceding
  <2>5. b # 0 /\ unext[b] = s
    BY <2>2, <2>4 DEF After
  <2>6. PICK j \in {k, HashSize} : b \in InChain(j)
    BY <2>4, <2>5
  <2>7. b \in T!Range(L[j]) /\ j \in 0 .. HashSize /\ j # 0
    BY <1>2, <2>1, <2>6, ChainIs
  <2>8. s \in T!Range(L[j])
    BY <1>1, <1>3, <2>5, <2>7, UserProcs, WhoLeads
  <2> QED BY <1>4, <2>7, <2>8
<1>6. pw[s].name = None
  BY <1>2, <1>3, <1>5, Places DEF Place, Ids
<1>7. ~Taken(n)
  BY <1>6, Places DEF CanSet
<1>8. ASSUME NEW t \in Uids, pw[t].name = n PROVE FALSE
  <2>1. Chain(n) = NameHash[n] /\ Chain(n) \in 0 .. HashSize
    BY Places, UserProcs
  <2>2. t \in T!Range(L[Chain(n)])
    BY <1>1, <1>2, <1>8, <2>1 DEF Standing
  <2>3. t \in InChain(Chain(n))
    BY <1>2, <2>1, <2>2, ChainIs
  <2> QED BY <1>7, <1>8, <2>3, Places DEF Taken
<1> QED BY <1>3, <1>6, <1>8

LEMMA AnswerGoes ==
  ASSUME UserInv, queue # <<>>, NEW a, Answer(a)
  PROVE  RequestsGo
<1>1. queue \in Seq(Request) /\ Len(queue) \in Nat \ {0} /\ queue' = Tail(queue)
  BY DEF UserInv, QueueInv, Answer
<1>2. \A i \in 1 .. Len(queue') : i + 1 \in 1 .. Len(queue) /\ queue'[i] = queue[i + 1]
  BY <1>1
<1> QED BY <1>2 DEF RequestsGo, Falls

(* userd takes a slot for a new user.  What somebody will delete of it is in *)
(* window number. *)
LEMMA ServeKept ==
  ASSUME UserInv, KeptInv, "number" \in Windows, Serve
  PROVE  KeptInv'
<1>0. PICK r, num : r = Head(queue) /\ num = IF r.op = "NEW" THEN head[0] ELSE r.num
  OBVIOUS
<1>1. /\ queue # <<>> /\ lock = Nobody /\ pc["userd"] = "idle" /\ UNCHANGED <<tasks, pw, home, holder>>
      /\ "userd" \in Daemons \ {"killd"} /\ "userd" \in Procs /\ NamesSame
  BY UserProcs DEF Serve, Daemons, NamesSame
<1>2. r \in Request /\ (IF r.op = "NEW" THEN r.name \in Names ELSE r.num \in Uids /\ r.name = None)
  BY <1>0, <1>1, FirstRequest
<1>3. CASE num # 0 /\ CanSet(num, r.name)
  <2>1. /\ Goto("userd", "set_next") /\ queue' = queue
        /\ loc' = [loc EXCEPT !["userd"].uid = num, !["userd"].name = r.name]
        /\ Harm("number", {n \in Names : r.op = "NEW" /\ n = r.name /\ Doomed(num)})
    BY <1>0, <1>3 DEF Serve
  <2>2. /\ loc'["userd"].uid = num /\ loc'["userd"].name = r.name
        /\ \A q \in Procs : q # "userd" => loc'[q] = loc[q]
    <3>1. loc \in [Procs -> Local] /\ loc["userd"] \in Local
      BY <1>1 DEF UserInv, UserTypes
    <3>2. loc'["userd"] = [loc["userd"] EXCEPT !.uid = num, !.name = r.name] /\ \A q \in Procs : q # "userd" => loc'[q] = loc[q]
      BY <1>1, <2>1, <3>1
    <3> QED BY <3>1, <3>2 DEF Local
  <2>3. pc'["userd"] = "set_next" /\ Others("userd")
    <3>1. "set_next" \in Points
      BY DEF Points
    <3> QED BY <1>1, <2>1, <2>2, <3>1, GotoSets DEF UserInv, Others
  <2>4. harmed' = harmed \cup {n \in Names : r.op = "NEW" /\ n = r.name /\ Doomed(num)}
    BY <2>1, InWindow
  <2>5. HoldersStay /\ HomesGo /\ RequestsGo /\ KilldAims
    BY <1>1, <2>1, <2>3, KilldElsewhere DEF HoldersStay, HomesGo, RequestsGo, Falls
  <2>6. OneSlot' /\ HolderInv' /\ FallInv' /\ SeekInv' /\ HomeInv'
    BY <1>1, <2>3, <2>4, <2>5, DaemonKept
  <2>7. HandInv'
    <3>1. CASE r.op # "NEW"
      BY <1>0, <2>1, <2>2, <3>1 DEF HandInv
    <3>2. CASE r.op = "NEW"
      <4>1. r.name \in Names \ Odd /\ num = head[0]
        BY <1>0, <1>2, <3>2 DEF Request
      <4>2. num \in Uids /\ pw[num].name = None /\ \A t \in Uids : pw[t].name # r.name
        BY <1>1, <1>3, <4>1, FreeToGive
      <4>3. Safe(r.name)' => Safe(r.name) /\ ~Doomed(num)
        BY <2>4, <3>2 DEF Safe
      <4>4. Safe(r.name) => holder[r.name] = Nobody
        BY <4>1, <4>2 DEF KeptInv, HolderInv, HasSlot
      <4>5. Falls(num)' \/ (\E q \in Finders : Seeks(q, num)') => Doomed(num)
        <5>1. \A q \in Finders : q # "userd" /\ pc'[q] = pc[q] /\ loc'[q] = loc[q]
          BY <2>3, UserProcs DEF Others, Finders
        <5>2. "killd" \in Finders /\ Clients \subseteq Finders
          BY DEF Finders
        <5>3. Falls(num)' => Falls(num)
          BY <2>1, <5>1, <5>2 DEF Falls
        <5>4. \A q \in Finders : Seeks(q, num)' => Seeks(q, num)
          BY <5>1 DEF Seeks
        <5> QED BY <4>2, <5>3, <5>4, FallsAreDoomed
      <4>6. Given(r.name, num)'
        BY <1>1, <4>2, <4>3, <4>4, <4>5 DEF Given
      <4>7. Given(loc["userd"].name, loc["userd"].uid)'
        BY <2>2, <4>6
      <4> QED BY <1>0, <2>1, <3>2, <4>7 DEF HandInv
    <3> QED BY <3>1, <3>2
  <2> QED BY <2>6, <2>7 DEF KeptInv
<1>4. CASE ~(num # 0 /\ CanSet(num, r.name))
  <2>1. Answer(IF r.op = "NEW" THEN Failed ELSE 0) /\ UNCHANGED <<pc, loc, harmed>>
    BY <1>0, <1>4 DEF Serve
  <2>2. Others("userd") /\ HandStays
    BY <1>1, <2>1 DEF Others, HandStays, Setting
  <2>3. HoldersStay /\ HomesGo /\ RequestsGo /\ KilldAims
    BY <1>1, <2>1, <2>2, KilldElsewhere, AnswerGoes DEF HoldersStay, HomesGo
  <2> QED BY <1>1, <2>1, <2>2, <2>3, DaemonKept
<1> QED BY <1>3, <1>4

(* The record of a new user is emptied: nobody has his name yet. *)
LEMMA ServedKept ==
  ASSUME UserInv, KeptInv, Served
  PROVE  KeptInv'
<1>0. PICK r, s : r = Head(queue) /\ s = loc["userd"].uid
  OBVIOUS
<1>1. /\ pc["userd"] = "set_done" /\ pw' = IF r.op = "NEW" THEN [pw EXCEPT ![s] = Empty(r.name)] ELSE pw
      /\ Answer(IF r.op = "NEW" THEN s ELSE 0) /\ Stop("userd")
      /\ UNCHANGED <<tasks, home, holder, harmed>>
  BY <1>0 DEF Served
<1>2. /\ pc["userd"] \in Setting /\ "userd" \in Procs /\ "userd" \notin Clients /\ "userd" \in Daemons \ {"killd"}
      /\ s \in Uids /\ queue # <<>> /\ r.name = loc["userd"].name /\ pw[s].name = r.name /\ pw \in [Uids -> Record]
  <2>1. pc["userd"] \in Setting /\ "userd" \in Procs /\ "userd" \notin Clients /\ "userd" \in Daemons \ {"killd"}
    BY <1>1, UserProcs DEF Setting, Daemons
  <2> QED BY <1>0, <1>1, <2>1, SetterFacts DEF UserInv, UserdInv
<1>3. Others("userd") /\ pc'["userd"] = "idle"
  BY <1>1, <1>2, StopSets DEF UserInv
<1>4. \A t \in Uids : pw'[t].name = pw[t].name /\ (t # s \/ r.op # "NEW" => pw'[t] = pw[t])
  <2>1. Empty(r.name).name = r.name
    BY DEF Empty
  <2> QED BY <1>1, <1>2, <2>1
<1>5. NamesSame
  BY <1>4 DEF NamesSame
<1>6. HoldersStay
  <2> SUFFICES ASSUME NEW n \in Names, Safe(n), holder[n] # Nobody, NEW t \in Uids, pw[t].name = n PROVE pw'[t] = pw[t]
    BY <1>1 DEF HoldersStay, Safe
  <2>1. CASE t = s /\ r.op = "NEW"
    <3>1. Given(loc["userd"].name, loc["userd"].uid)
      BY <1>0, <1>2, <2>1 DEF KeptInv, HandInv
    <3> QED BY <1>2, <2>1, <3>1 DEF Given
  <2> QED BY <1>4, <2>1
<1>7. HomesGo /\ RequestsGo /\ KilldAims /\ HandStays
  BY <1>1, <1>2, <1>3, KilldElsewhere, AnswerGoes DEF HomesGo, HandStays, Setting
<1> QED BY <1>1, <1>2, <1>3, <1>5, <1>6, <1>7, DaemonKept

-----------------------------------------------------------------------------
(* The accounts of .PASSWDS are whole ones of their users. *)
EarlierTables == \A t \in Tables, s \in Uids : t[s].name \in Names \ Odd => t[s].who = Earlier /\ t[s].level = 1

(* After a start names are unique, and a record whose name is in the file    *)
(* once is what it was. *)
LEMMA LoadKeeps ==
  ASSUME NEW records \in [Uids -> Record], NEW t, t = LoadUcache(records)
  PROVE  /\ \A i, j \in Uids : t.pw[i].name \in Names \ Odd /\ t.pw[j].name = t.pw[i].name => i = j
         /\ \A i \in Uids : /\ t.pw[i].who = records[i].who /\ t.pw[i].level = records[i].level
                            /\ t.pw[i].name \in {records[i].name, None}
                            /\ Alone(records, i) => t.pw[i].name = records[i].name
<1>1. Loaded(records, t, MaxUsers)
  BY LoadFills
<1> QED BY <1>1, LoadStands DEF Loaded, Uids

LEMMA NobodyAims ==
  ASSUME queue = <<>>, pc["userd"] = "idle", pc["killd"] = "idle", \A c \in Clients : pc[c] = "idle"
  PROVE  FallInv /\ SeekInv /\ HandInv /\ HomeInv
<1>1. Len(queue) = 0 /\ 1 .. 0 = {}
  OBVIOUS
<1>2. \A s \in Uids : ~Falls(s)
  BY <1>1 DEF Falls
<1>3. \A q \in Finders, s \in Uids : ~Seeks(q, s)
  BY DEF Seeks, Finders
<1> QED BY <1>2, <1>3 DEF FallInv, SeekInv, HandInv, HomeInv, Setting, Late, At

LEMMA KeptAtStart ==
  ASSUME UserInit, EarlierTables
  PROVE  KeptInv
<1>0. PICK t : t = LoadUcache(file)
  OBVIOUS
<1>1. /\ file \in Tables /\ file \in [Uids -> Record] /\ pw = t.pw /\ queue = <<>> /\ home = holder
      /\ holder = [n \in Names |-> IF \E s \in Uids : pw[s].name = n /\ n \notin Odd THEN Earlier ELSE Nobody]
      /\ \A p \in Procs : pc[p] = "idle"
  BY <1>0, TablesAssumption DEF UserInit
<1>2. /\ \A i, j \in Uids : pw[i].name \in Names \ Odd /\ pw[j].name = pw[i].name => i = j
      /\ \A i \in Uids : pw[i].who = file[i].who /\ pw[i].level = file[i].level /\ pw[i].name \in {file[i].name, None}
  BY <1>0, <1>1, LoadKeeps
<1>3. OneSlot
  BY <1>2 DEF OneSlot
<1>4. HolderInv
  <2> SUFFICES ASSUME NEW n \in Names, holder[n] # Nobody PROVE \E s \in Uids : HasSlot(n, s)
    BY DEF HolderInv
  <2>1. PICK s \in Uids : pw[s].name = n /\ n \notin Odd
    BY <1>1
  <2>2. holder[n] = Earlier /\ home[n] = Earlier
    BY <1>1, <2>1
  <2>3. file[s].name = n
    BY <1>2, <2>1, NamesAssumption
  <2>4. pw[s].who = Earlier /\ pw[s].level = 1
    BY <1>1, <1>2, <2>1, <2>3 DEF EarlierTables
  <2> QED BY <2>1, <2>2, <2>4 DEF HasSlot
<1> QED BY <1>1, <1>3, <1>4, NobodyAims, UserProcs DEF KeptInv

LEMMA RebootKept ==
  ASSUME UserInv, KeptInv, "torn" \in Windows, Reboot
  PROVE  KeptInv'
<1>0. PICK t : t = LoadUcache(file)
  OBVIOUS
<1>1. /\ file \in [Uids -> Record] /\ pw' = t.pw /\ queue' = <<>> /\ home' = home
      /\ holder' = [n \in Names |-> IF \E s \in Copies(n) : file[s].who = holder[n] /\ file[s].level = 1 THEN holder[n] ELSE Nobody]
      /\ pc' = [p \in Procs |-> IF p \in {"flushd", "power"} THEN "over" ELSE "idle"]
      /\ Harm("torn", Twins)
  BY <1>0 DEF Reboot, UserInv, UserTypes, RestTypes
<1>2. /\ \A i, j \in Uids : pw'[i].name \in Names \ Odd /\ pw'[j].name = pw'[i].name => i = j
      /\ \A i \in Uids : /\ pw'[i].who = file[i].who /\ pw'[i].level = file[i].level
                         /\ Alone(file, i) => pw'[i].name = file[i].name
  BY <1>0, <1>1, LoadKeeps
<1>3. OneSlot'
  BY <1>2 DEF OneSlot
<1>4. HolderInv'
  <2> SUFFICES ASSUME NEW n \in Names, Safe(n)', holder'[n] # Nobody PROVE \E s \in Uids : HasSlot(n, s)'
    BY DEF HolderInv
  <2>1. harmed' = harmed \cup Twins
    BY <1>1, InWindow
  <2>2. Safe(n) /\ n \notin Twins
    BY <2>1 DEF Safe
  <2>3. PICK s \in Copies(n) : file[s].who = holder[n] /\ file[s].level = 1
    BY <1>1
  <2>4. s \in Uids /\ file[s].name = n /\ holder'[n] = holder[n]
    BY <1>1, <2>3 DEF Copies
  <2>5. Alone(file, s)
    <3>1. \A j \in Copies(n) : j = s
      BY <2>2, <2>3, UserProcs DEF Twins
    <3> QED BY <2>4, <3>1 DEF Alone, Copies
  <2>6. pw'[s].name = n /\ pw'[s].who = holder[n] /\ pw'[s].level = 1
    BY <1>2, <2>3, <2>4, <2>5
  <2>7. home[n] = holder[n]
    BY <2>2, <2>4 DEF KeptInv, HolderInv, HasSlot
  <2>8. HasSlot(n, s)'
    BY <1>1, <2>4, <2>6, <2>7 DEF HasSlot
  <2> QED BY <2>4, <2>8
<1>5. pc'["userd"] = "idle" /\ pc'["killd"] = "idle" /\ \A c \in Clients : pc'[c] = "idle"
  BY <1>1, UserProcs
<1>6. FallInv' /\ SeekInv' /\ HandInv' /\ HomeInv'
  <2>1. Len(queue') = 0 /\ 1 .. 0 = {}
    BY <1>1
  <2>2. \A s \in Uids : ~Falls(s)'
    BY <1>5, <2>1 DEF Falls
  <2>3. \A q \in Finders, s \in Uids : ~Seeks(q, s)'
    BY <1>5 DEF Seeks, Finders
  <2> QED BY <1>5, <2>2, <2>3 DEF FallInv, SeekInv, HandInv, HomeInv, Setting, Late, At
<1> QED BY <1>3, <1>4, <1>6 DEF KeptInv

LEMMA KeptStep ==
  ASSUME UserInv, KeptInv, Excused, [UserNext]_userVars
  PROVE  KeptInv'
<1>1. CASE \E c \in Clients : Client(c)
  BY <1>1, ClientStepKept
<1>2. CASE \E p \in Procs : Walk(p) \/ Setuserid(p)
  BY <1>2, WalkKept, NextOrHeadKept, NameKept DEF Setuserid
<1>3. CASE Serve \/ Served
  BY <1>3, ServeKept, ServedKept DEF Excused
<1>4. CASE Killauser
  BY <1>4, KillauserKept
<1>5. CASE Flush \/ Reboot
  BY <1>5, FlushKept, RebootKept DEF Excused
<1>6. CASE UNCHANGED userVars
  BY <1>6 DEF userVars, KeptInv, OneSlot, HolderInv, FallInv, SeekInv, HandInv, HomeInv, Given, Falls, Seeks, Safe,
              HasSlot, Late, At
<1> QED BY <1>1, <1>2, <1>3, <1>4, <1>5, <1>6 DEF UserNext

LEMMA KeptFollows ==
  ASSUME KeptInv
  PROVE  AccountKept
<1> SUFFICES ASSUME NEW n \in Names \ (harmed \cup Odd), holder[n] # Nobody
             PROVE  \E s \in Uids : /\ \A t \in Uids : pw[t].name = n <=> t = s
                                    /\ pw[s].who = holder[n] /\ pw[s].level = 1 /\ home[n] = holder[n]
  BY DEF AccountKept
<1>1. PICK s \in Uids : HasSlot(n, s)
  BY DEF KeptInv, HolderInv, Safe
<1> QED BY <1>1 DEF HasSlot, KeptInv, OneSlot

(* Who has registered a name, or had it in .PASSWDS, keeps its only slot,    *)
(* his password and level, and his files, until a manager deletes him or     *)
(* killd finds him expired (ucache.c:383-460, miscd.c:492-560,               *)
(* delete.c:470-497, register.c:110): for any number of accounts, names,     *)
(* chains, clients and managers, in any order of their steps and with a      *)
(* restart at any of them.  Names that met a window of the code are left     *)
(* out, for the six windows named; the records of .PASSWDS are whole         *)
(* accounts of their users.                                                  *)
THEOREM AccountsKept ==
  ASSUME Excused, EarlierTables
  PROVE  UserSpec => []AccountKept
<1>1. UserInit => KeptInv
  BY KeptAtStart
<1>2. UserInv /\ KeptInv /\ [UserNext]_userVars => KeptInv'
  BY KeptStep
<1>3. KeptInv => AccountKept
  BY KeptFollows
<1> QED BY <1>1, <1>2, <1>3, UsersAlways, PTL DEF UserSpec
=============================================================================
