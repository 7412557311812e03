------------------------- MODULE BoardIndex_proofs --------------------------
(***************************************************************************)
(* Proofs about BoardIndex, for any number of processes, any .DIR to begin *)
(* with and any bounds: types, no circular wait, and that .MARK and .ORIGIN *)
(* are current.                                                            *)
(***************************************************************************)
EXTENDS BoardIndex, FiniteSetTheorems, FunctionTheorems, SequenceTheorems,
        WellFoundedInduction, TLAPS

(* A set of numbers has a least element: induction, without an operator. *)
LEMMA LeastNat ==
  ASSUME NEW T \in SUBSET Nat, T # {}
  PROVE  \E x \in T : \A y \in T : x <= y
  <1> DEFINE R == OpToRel(<, Nat)
  <1>1. IsWellFoundedOn(R, Nat)
    BY NatLessThanWellFounded
  <1>2. \A x, y \in Nat : <<x, y>> \in R <=> x < y
    BY DEF OpToRel
  <1> HIDE DEF R
  <1>3. PICK x \in T : \A y \in T : ~ (<<y, x>> \in R)
    BY <1>1, WFMin
  <1>4. \A y \in T : ~(y < x)
    BY <1>2, <1>3
  <1>5. \A y \in T : x <= y
    BY <1>4
  <1> QED
    BY <1>5

-----------------------------------------------------------------------------
(* Picked: what board_regenspecial writes.  upto[n] is what it has written *)
(* after n entries.                                                        *)
Picks(k, seq, upto) ==
  upto = [n \in 0 .. Len(seq) |->
            IF n = 0 THEN <<>>
            ELSE IF Belongs(k, seq[n]) THEN Append(upto[n - 1], seq[n]) ELSE upto[n - 1]]

LEMMA PicksOnce ==
  ASSUME NEW k, NEW seq \in Seq(Entry), NEW f, NEW g, Picks(k, seq, f), Picks(k, seq, g)
  PROVE  f = g
  <1>0. Len(seq) \in Nat /\ DOMAIN f = 0 .. Len(seq) /\ DOMAIN g = 0 .. Len(seq)
    BY DEF Picks
  <1>1. f[0] = <<>> /\ g[0] = <<>>
    BY <1>0 DEF Picks
  <1>2. \A n \in 1 .. Len(seq) : f[n - 1] = g[n - 1] => f[n] = g[n]
    <2> SUFFICES ASSUME NEW n \in 1 .. Len(seq), f[n - 1] = g[n - 1]
                 PROVE  f[n] = g[n]
      OBVIOUS
    <2>1. n \in 0 .. Len(seq) /\ n # 0
      BY <1>0
    <2> QED
      BY <2>1 DEF Picks
  <1> DEFINE S == {n \in Nat : n \in 0 .. Len(seq) /\ f[n] # g[n]}
  <1>3. CASE S = {}
    <2>1. \A n \in 0 .. Len(seq) : f[n] = g[n]
      BY <1>0, <1>3
    <2>2. f = [n \in 0 .. Len(seq) |-> f[n]] /\ g = [n \in 0 .. Len(seq) |-> g[n]]
      BY <1>0 DEF Picks
    <2> QED
      BY <2>1, <2>2
  <1>4. CASE S # {}
    <2>1. PICK n \in S : \A m \in S : n <= m
      BY <1>4, LeastNat
    <2>2. n # 0 /\ n \in 1 .. Len(seq)
      BY <1>0, <1>1, <2>1
    <2>3. n - 1 \in Nat /\ n - 1 \in 0 .. Len(seq) /\ ~(n <= n - 1)
      BY <1>0, <2>2
    <2>4. n - 1 \notin S
      BY <2>1, <2>3
    <2> QED
      BY <1>2, <2>1, <2>2, <2>3, <2>4
  <1> QED
    BY <1>3, <1>4

LEMMA PicksIsPicked ==
  ASSUME NEW k, NEW seq \in Seq(Entry), NEW f, Picks(k, seq, f)
  PROVE  Picked(k, seq) = f[Len(seq)]
  <1> DEFINE g == CHOOSE g : Picks(k, seq, g)
  <1>1. Picks(k, seq, g)
    OBVIOUS
  <1>2. g = f
    BY <1>1, PicksOnce
  <1>3. Picked(k, seq) = g[Len(seq)]
    BY DEF Picked, Picks
  <1> QED
    BY <1>2, <1>3

(* One entry more. *)
LEMMA PicksMore ==
  ASSUME NEW k, NEW seq \in Seq(Entry), NEW e \in Entry, NEW f, Picks(k, seq, f)
  PROVE  Picks(k, Append(seq, e),
               [n \in 0 .. Len(seq) + 1 |->
                  IF n <= Len(seq) THEN f[n]
                  ELSE IF Belongs(k, e) THEN Append(f[Len(seq)], e) ELSE f[Len(seq)]])
  <1> DEFINE t == Append(seq, e)
             g == [n \in 0 .. Len(seq) + 1 |->
                     IF n <= Len(seq) THEN f[n]
                     ELSE IF Belongs(k, e) THEN Append(f[Len(seq)], e) ELSE f[Len(seq)]]
             h == [n \in 0 .. Len(t) |->
                     IF n = 0 THEN <<>>
                     ELSE IF Belongs(k, t[n]) THEN Append(g[n - 1], t[n]) ELSE g[n - 1]]
  <1>0. /\ Len(seq) \in Nat /\ Len(t) = Len(seq) + 1 /\ t[Len(seq) + 1] = e
        /\ \A i \in 1 .. Len(seq) : t[i] = seq[i]
    OBVIOUS
  <1> HIDE DEF t
  <1>1. \A n \in 0 .. Len(seq) : g[n] = f[n]
    BY <1>0
  <1>2. g[Len(seq) + 1] = IF Belongs(k, e) THEN Append(f[Len(seq)], e) ELSE f[Len(seq)]
    BY <1>0
  <1>3. ASSUME NEW n \in 0 .. Len(seq) + 1
        PROVE  g[n] = IF n = 0 THEN <<>>
                      ELSE IF Belongs(k, t[n]) THEN Append(g[n - 1], t[n]) ELSE g[n - 1]
    <2> HIDE DEF g
    <2>1. CASE n = 0
      <3>1. f[0] = <<>>
        BY <1>0 DEF Picks
      <3> QED
        BY <1>0, <1>1, <2>1, <3>1
    <2>2. CASE n = Len(seq) + 1
      <3>1. n - 1 = Len(seq) /\ n # 0 /\ Len(seq) \in 0 .. Len(seq)
        BY <1>0, <2>2
      <3>2. g[n - 1] = f[Len(seq)] /\ t[n] = e
        BY <1>0, <1>1, <2>2, <3>1
      <3> QED
        BY <1>2, <2>2, <3>1, <3>2
    <2>3. CASE n \in 1 .. Len(seq)
      <3>1. n \in 0 .. Len(seq) /\ n - 1 \in 0 .. Len(seq) /\ n # 0
        BY <1>0, <2>3
      <3>2. f[n] = IF Belongs(k, seq[n]) THEN Append(f[n - 1], seq[n]) ELSE f[n - 1]
        BY <3>1 DEF Picks
      <3>3. g[n] = f[n] /\ g[n - 1] = f[n - 1] /\ t[n] = seq[n]
        BY <1>0, <1>1, <2>3, <3>1
      <3> QED
        BY <3>1, <3>2, <3>3
    <2> QED
      BY <1>0, <2>1, <2>2, <2>3
  <1>4. g = h
    BY <1>0, <1>3
  <1> QED
    BY <1>4 DEF Picks, t

LEMMA PicksExists ==
  ASSUME NEW k, NEW seq \in Seq(Entry)
  PROVE  \E f : Picks(k, seq, f)
  <1> DEFINE S == {n \in Nat : \E s \in Seq(Entry) : Len(s) = n /\ ~ \E f : Picks(k, s, f)}
  <1>1. CASE S = {}
    BY <1>1
  <1>2. CASE S # {}
    <2>1. PICK n \in S : \A m \in S : n <= m
      BY <1>2, LeastNat
    <2>2. PICK s \in Seq(Entry) : Len(s) = n /\ ~ \E f : Picks(k, s, f)
      BY <2>1
    <2>3. CASE n = 0
      <3>1. Picks(k, s, [i \in 0 .. Len(s) |-> <<>>])
        BY <2>2, <2>3 DEF Picks
      <3> QED
        BY <2>2, <3>1
    <2>4. CASE n # 0
      <3> DEFINE r == SubSeq(s, 1, Len(s) - 1)
      <3>1. r \in Seq(Entry) /\ Len(r) = n - 1 /\ n - 1 \in Nat /\ s[Len(s)] \in Entry
            /\ s = Append(r, s[Len(s)])
        BY <2>2, <2>4
      <3>2. n - 1 \notin S
        <4>1. n \in Nat /\ ~(n <= n - 1)
          BY <2>1
        <4> QED
          BY <2>1, <4>1
      <3>3. PICK f : Picks(k, r, f)
        BY <3>1, <3>2
      <3> HIDE DEF r
      <3> QED
        BY <2>2, <3>1, <3>3, PicksMore
    <2> QED
      BY <2>3, <2>4
  <1> QED
    BY <1>1, <1>2

LEMMA PickedEmpty ==
  ASSUME NEW k PROVE Picked(k, <<>>) = <<>>
  <1>0. <<>> \in Seq(Entry) /\ Len(<<>>) = 0
    OBVIOUS
  <1>1. PICK f : Picks(k, <<>>, f)
    BY <1>0, PicksExists
  <1>2. Picked(k, <<>>) = f[0]
    BY <1>0, <1>1, PicksIsPicked
  <1>3. 0 \in 0 .. 0
    OBVIOUS
  <1> QED
    BY <1>0, <1>1, <1>2, <1>3 DEF Picks

LEMMA PickedAppend ==
  ASSUME NEW k, NEW seq \in Seq(Entry), NEW e \in Entry
  PROVE  Picked(k, Append(seq, e)) =
           IF Belongs(k, e) THEN Append(Picked(k, seq), e) ELSE Picked(k, seq)
  <1>1. PICK f : Picks(k, seq, f)
    BY PicksExists
  <1> DEFINE g == [n \in 0 .. Len(seq) + 1 |->
                     IF n <= Len(seq) THEN f[n]
                     ELSE IF Belongs(k, e) THEN Append(f[Len(seq)], e) ELSE f[Len(seq)]]
  <1>2. Picks(k, Append(seq, e), g)
    BY <1>1, PicksMore
  <1>3. Append(seq, e) \in Seq(Entry) /\ Len(Append(seq, e)) = Len(seq) + 1 /\ Len(seq) \in Nat
    OBVIOUS
  <1>4. g[Len(seq) + 1] = IF Belongs(k, e) THEN Append(f[Len(seq)], e) ELSE f[Len(seq)]
    BY <1>3
  <1> HIDE DEF g
  <1>5. Picked(k, Append(seq, e)) = g[Len(seq) + 1]
    BY <1>2, <1>3, PicksIsPicked
  <1>6. Picked(k, seq) = f[Len(seq)]
    BY <1>1, PicksIsPicked
  <1> QED
    BY <1>4, <1>5, <1>6

LEMMA PickedType ==
  ASSUME NEW k, NEW seq \in Seq(Entry)
  PROVE  Picked(k, seq) \in Seq(Entry)
  <1> DEFINE S == {n \in Nat : \E s \in Seq(Entry) : Len(s) = n /\ Picked(k, s) \notin Seq(Entry)}
  <1>1. CASE S = {}
    BY <1>1
  <1>2. CASE S # {}
    <2>1. PICK n \in S : \A m \in S : n <= m
      BY <1>2, LeastNat
    <2>2. PICK s \in Seq(Entry) : Len(s) = n /\ Picked(k, s) \notin Seq(Entry)
      BY <2>1
    <2>3. s # <<>>
      BY <2>2, PickedEmpty
    <2> DEFINE r == SubSeq(s, 1, Len(s) - 1)
    <2>4. r \in Seq(Entry) /\ Len(r) = n - 1 /\ n - 1 \in Nat /\ s[Len(s)] \in Entry
          /\ s = Append(r, s[Len(s)])
      BY <2>2, <2>3
    <2>5. n \in Nat /\ ~(n <= n - 1)
      BY <2>1
    <2>6. Picked(k, r) \in Seq(Entry)
      BY <2>1, <2>4, <2>5
    <2> HIDE DEF r
    <2>7. Append(Picked(k, r), s[Len(s)]) \in Seq(Entry)
      BY <2>4, <2>6
    <2>8. Picked(k, s) \in {Append(Picked(k, r), s[Len(s)]), Picked(k, r)}
      <3> DEFINE e == s[Len(s)]
      <3> HIDE DEF e
      <3>1. Picked(k, Append(r, e)) \in {Append(Picked(k, r), e), Picked(k, r)}
        BY <2>4, PickedAppend DEF e
      <3> QED
        BY <2>4, <3>1 DEF e
    <2> QED
      BY <2>2, <2>6, <2>7, <2>8
  <1> QED
    BY <1>1, <1>2

LEMMA AppendConcat ==
  ASSUME NEW a \in Seq(Entry), NEW b \in Seq(Entry), NEW e \in Entry
  PROVE  Append(a \o b, e) = a \o Append(b, e)
  <1> DEFINE n == Len(a) + Len(b)
  <1>1. a \o b \in Seq(Entry) /\ Len(a \o b) = n /\ Len(a) \in Nat /\ Len(b) \in Nat /\ n \in Nat
    OBVIOUS
  <1>2. Append(b, e) \in Seq(Entry) /\ Len(Append(b, e)) = Len(b) + 1
    OBVIOUS
  <1>c. \A i \in 1 .. n + 1 : Append(a \o b, e)[i] = (a \o Append(b, e))[i]
    BY <1>1
  <1>3. PICK l : l = Append(a \o b, e)
    OBVIOUS
  <1>4. PICK r : r = a \o Append(b, e)
    OBVIOUS
  <1>5. l \in Seq(Entry) /\ Len(l) = n + 1
    BY <1>1, <1>3
  <1>6. r \in Seq(Entry) /\ Len(r) = n + 1
    BY <1>1, <1>2, <1>4
  <1>7. \A i \in 1 .. n + 1 : l[i] = r[i]
    BY <1>3, <1>4, <1>c
  <1>8. \A i \in 1 .. Len(l) : l[i] = r[i]
    BY <1>5, <1>7
  <1>9. l = r
    BY <1>5, <1>6, <1>8, SeqEqual
  <1> QED
    BY <1>3, <1>4, <1>9

(* What is picked of two files one after the other. *)
LEMMA PickedConcat ==
  ASSUME NEW k, NEW a \in Seq(Entry), NEW b \in Seq(Entry)
  PROVE  Picked(k, a \o b) = Picked(k, a) \o Picked(k, b)
  <1> DEFINE Bad == {n \in Nat : \E s \in Seq(Entry) :
                     Len(s) = n /\ Picked(k, a \o s) # Picked(k, a) \o Picked(k, s)}
  <1>1. CASE Bad = {}
    BY <1>1
  <1>2. CASE Bad # {}
    <2>1. PICK n \in Bad : \A m \in Bad : n <= m
      BY <1>2, LeastNat
    <2>2. PICK s \in Seq(Entry) : Len(s) = n /\ Picked(k, a \o s) # Picked(k, a) \o Picked(k, s)
      BY <2>1
    <2>0. Picked(k, a) \in Seq(Entry)
      BY PickedType
    <2>3. s # <<>>
      <3> SUFFICES ASSUME s = <<>> PROVE FALSE
        OBVIOUS
      <3>1. a \o s = a /\ Picked(k, a) \o <<>> = Picked(k, a)
        BY <2>0
      <3> QED
        BY <2>2, <3>1, PickedEmpty
    <2> DEFINE r == SubSeq(s, 1, Len(s) - 1)  e == s[Len(s)]
    <2>4. r \in Seq(Entry) /\ Len(r) = n - 1 /\ n - 1 \in Nat /\ e \in Entry
          /\ s = Append(r, e)
      BY <2>2, <2>3
    <2>5. n \in Nat /\ ~(n <= n - 1)
      BY <2>1
    <2>6. Picked(k, a \o r) = Picked(k, a) \o Picked(k, r)
      BY <2>1, <2>4, <2>5
    <2> HIDE DEF r, e
    <2>c. a \o Append(r, e) = Append(a \o r, e)
      BY <2>4, AppendConcat
    <2>7. a \o s = Append(a \o r, e) /\ a \o r \in Seq(Entry)
      <3>1. r \in Seq(Entry) /\ s = Append(r, e)
        BY <2>4
      <3>2. a \o r \in Seq(Entry)
        BY <3>1
      <3> QED
        BY <2>c, <3>1, <3>2
    <2>8. Picked(k, r) \in Seq(Entry)
      BY <2>4, PickedType
    <2>9. Append(Picked(k, a) \o Picked(k, r), e) = Picked(k, a) \o Append(Picked(k, r), e)
      BY <2>0, <2>4, <2>8, AppendConcat
    <2>10. Picked(k, a \o s) = IF Belongs(k, e) THEN Append(Picked(k, a \o r), e) ELSE Picked(k, a \o r)
      <3>1. \A x \in Seq(Entry) :
              Picked(k, Append(x, e)) = IF Belongs(k, e) THEN Append(Picked(k, x), e) ELSE Picked(k, x)
        BY <2>4, PickedAppend
      <3>2. PICK x \in Seq(Entry) : x = a \o r
        BY <2>7
      <3> QED
        BY <2>7, <3>1, <3>2
    <2>11. Picked(k, s) = IF Belongs(k, e) THEN Append(Picked(k, r), e) ELSE Picked(k, r)
      BY <2>4, PickedAppend
    <2> QED
      BY <2>2, <2>6, <2>9, <2>10, <2>11
  <1> QED
    BY <1>1, <1>2

-----------------------------------------------------------------------------
(* An entry that does not belong to the index comes or goes unseen.        *)
LEMMA RemoveAtType ==
  ASSUME NEW seq \in Seq(Entry), NEW i \in DOMAIN seq
  PROVE  /\ RemoveAt(seq, i) \in Seq(Entry)
         /\ RemoveAt(seq, i) = SubSeq(seq, 1, i - 1) \o SubSeq(seq, i + 1, Len(seq))
         /\ seq = Append(SubSeq(seq, 1, i - 1), seq[i]) \o SubSeq(seq, i + 1, Len(seq))
  <1> DEFINE a == SubSeq(seq, 1, i - 1)  b == SubSeq(seq, i + 1, Len(seq))  n == Len(seq)
  <1>0. n \in Nat /\ i \in 1 .. n /\ n - 1 \in Nat /\ DOMAIN seq = 1 .. n
    OBVIOUS
  <1>1. \A j \in 1 .. n - 1 : (IF j < i THEN j ELSE j + 1) \in DOMAIN seq
    BY <1>0
  <1>2. RemoveAt(seq, i) \in Seq(Entry) /\ Len(RemoveAt(seq, i)) = n - 1
        /\ \A j \in 1 .. n - 1 : RemoveAt(seq, i)[j] = seq[IF j < i THEN j ELSE j + 1]
    BY <1>0, <1>1 DEF RemoveAt
  <1>3. a \in Seq(Entry) /\ Len(a) = i - 1 /\ \A j \in 1 .. i - 1 : a[j] = seq[j]
    BY <1>0
  <1>4. b \in Seq(Entry) /\ Len(b) = n - i /\ \A j \in 1 .. n - i : b[j] = seq[i + j]
    <2>1. b \in Seq(Entry)
      BY <1>0
    <2>2. Len(b) = n - i
      BY <1>0
    <2>3. \A j \in 1 .. n - i : b[j] = seq[i + j]
      BY <1>0
    <2> QED
      BY <2>1, <2>2, <2>3
  <1>5. a \o b \in Seq(Entry) /\ Len(a \o b) = n - 1
        /\ \A j \in 1 .. n - 1 : (a \o b)[j] = IF j <= i - 1 THEN a[j] ELSE b[j - (i - 1)]
    <2> HIDE DEF a, b
    <2>1. Len(a) + Len(b) = n - 1
      BY <1>0, <1>3, <1>4
    <2>2. /\ a \o b \in Seq(Entry) /\ Len(a \o b) = Len(a) + Len(b)
          /\ \A j \in 1 .. Len(a) + Len(b) :
               (a \o b)[j] = IF j <= Len(a) THEN a[j] ELSE b[j - Len(a)]
      BY <1>3, <1>4, ConcatProperties
    <2> HIDE DEF n
    <2> QED
      BY <1>3, <2>1, <2>2
  <1>6. a \o <<seq[i]>> = SubSeq(seq, 1, i)
    <2>1. 1 \in 1 .. n /\ i \in 1 .. n
      BY <1>0
    <2> QED
      BY <2>1, SubSeqRecursiveSecond
  <1>7. Append(a, seq[i]) = SubSeq(seq, 1, i)
    <2>1. seq[i] \in Entry
      BY <1>0
    <2> QED
      BY <1>3, <1>6, <2>1, AppendIsConcat
  <1>8. SubSeq(seq, 1, i) \o b = seq
    <2>1. 1 \in 1 .. n + 1 /\ i \in 1 - 1 .. n /\ n \in i .. n
      BY <1>0
    <2> QED
      BY <2>1, ConcatAdjacentSubSeq, SubSeqFull
  <1> HIDE DEF a, b
  <1>9. \A j \in 1 .. n - 1 : RemoveAt(seq, i)[j] = (a \o b)[j]
    <2> SUFFICES ASSUME NEW j \in 1 .. n - 1 PROVE RemoveAt(seq, i)[j] = (a \o b)[j]
      OBVIOUS
    <2>1. CASE j < i
      <3>1. j \in 1 .. i - 1 /\ j <= i - 1
        BY <1>0, <2>1
      <3> QED
        BY <1>2, <1>3, <1>5, <2>1, <3>1
    <2>2. CASE ~(j < i)
      <3>1. j - (i - 1) \in 1 .. n - i /\ ~(j <= i - 1) /\ i + (j - (i - 1)) = j + 1
        BY <1>0, <2>2
      <3> QED
        BY <1>2, <1>4, <1>5, <2>2, <3>1
    <2> QED
      BY <2>1, <2>2
  <1>10. RemoveAt(seq, i) = a \o b
    BY <1>2, <1>5, <1>9, SeqEqual
  <1> QED
    BY <1>2, <1>7, <1>8, <1>10 DEF a, b

LEMMA InsertAtType ==
  ASSUME NEW seq \in Seq(Entry), NEW i \in 1 .. Len(seq) + 1, NEW e \in Entry
  PROVE  /\ InsertAt(seq, i, e) \in Seq(Entry)
         /\ InsertAt(seq, i, e) = Append(SubSeq(seq, 1, i - 1), e) \o SubSeq(seq, i, Len(seq))
         /\ seq = SubSeq(seq, 1, i - 1) \o SubSeq(seq, i, Len(seq))
  <1> DEFINE a == SubSeq(seq, 1, i - 1)  b == SubSeq(seq, i, Len(seq))  n == Len(seq)
  <1>0. n \in Nat /\ 1 \in 1 .. n + 1 /\ i - 1 \in 1 - 1 .. n /\ n \in i - 1 .. n /\ (i - 1) + 1 = i
    OBVIOUS
  <1>1. a \in Seq(Entry) /\ b \in Seq(Entry) /\ <<e>> \in Seq(Entry)
    OBVIOUS
  <1>2. a \o b = SubSeq(seq, 1, n)
    BY <1>0, ConcatAdjacentSubSeq
  <1>3. SubSeq(seq, 1, n) = seq
    BY SubSeqFull
  <1>4. InsertAt(seq, i, e) = (a \o <<e>>) \o b
    BY DEF InsertAt
  <1> HIDE DEF a, b
  <1>5. a \o <<e>> = Append(a, e) /\ Append(a, e) \in Seq(Entry)
    BY <1>1, AppendIsConcat
  <1>6. Append(a, e) \o b \in Seq(Entry)
    BY <1>1, <1>5
  <1> QED
    BY <1>2, <1>3, <1>4, <1>5, <1>6 DEF a, b

LEMMA RemovedUnseen ==
  ASSUME NEW k, NEW seq \in Seq(Entry), NEW i \in DOMAIN seq, ~Belongs(k, seq[i])
  PROVE  Picked(k, RemoveAt(seq, i)) = Picked(k, seq)
  <1> DEFINE a == SubSeq(seq, 1, i - 1)  b == SubSeq(seq, i + 1, Len(seq))
  <1>1. a \in Seq(Entry) /\ b \in Seq(Entry) /\ seq[i] \in Entry
    OBVIOUS
  <1>2. RemoveAt(seq, i) = a \o b /\ seq = Append(a, seq[i]) \o b
    BY RemoveAtType
  <1> HIDE DEF a, b
  <1>3. Append(a, seq[i]) \in Seq(Entry) /\ Picked(k, Append(a, seq[i])) = Picked(k, a)
    BY <1>1, PickedAppend
  <1>4. Picked(k, Append(a, seq[i]) \o b) = Picked(k, a) \o Picked(k, b)
    <2>1. \A x \in Seq(Entry) : Picked(k, x \o b) = Picked(k, x) \o Picked(k, b)
      BY <1>1, PickedConcat
    <2> QED
      BY <1>3, <2>1
  <1>5. Picked(k, a \o b) = Picked(k, a) \o Picked(k, b)
    BY <1>1, PickedConcat
  <1> QED
    BY <1>2, <1>4, <1>5

LEMMA InsertedUnseen ==
  ASSUME NEW k, NEW seq \in Seq(Entry), NEW i \in 1 .. Len(seq) + 1, NEW e \in Entry, ~Belongs(k, e)
  PROVE  Picked(k, InsertAt(seq, i, e)) = Picked(k, seq)
  <1> DEFINE a == SubSeq(seq, 1, i - 1)  b == SubSeq(seq, i, Len(seq))
  <1>1. a \in Seq(Entry) /\ b \in Seq(Entry)
    OBVIOUS
  <1>2. InsertAt(seq, i, e) = Append(a, e) \o b /\ seq = a \o b
    BY InsertAtType
  <1> HIDE DEF a, b
  <1>3. Append(a, e) \in Seq(Entry) /\ Picked(k, Append(a, e)) = Picked(k, a)
    BY <1>1, PickedAppend
  <1>4. Picked(k, Append(a, e) \o b) = Picked(k, a) \o Picked(k, b)
    <2>1. \A x \in Seq(Entry) : Picked(k, x \o b) = Picked(k, x) \o Picked(k, b)
      BY <1>1, PickedConcat
    <2> QED
      BY <1>3, <2>1
  <1>5. Picked(k, a \o b) = Picked(k, a) \o Picked(k, b)
    BY <1>1, PickedConcat
  <1> QED
    BY <1>2, <1>4, <1>5

-----------------------------------------------------------------------------
(* Types. *)
Loc == [ent : Entry, size : Nat, ix : Kinds, then : Stages]

LEMMA ZeroType == Zero \in Entry /\ Fresh \in Loc
  <1>1. Zero \in Entry
    BY DEF Zero, Entry
  <1>2. Fresh = [ent |-> Zero, size |-> 0, ix |-> "ORIGIN", then |-> "idle"]
    BY DEF Fresh
  <1>3. "ORIGIN" \in Kinds
    BY DEF Kinds
  <1>4. "idle" \in Stages
    BY DEF Stages
  <1> QED
    BY <1>1, <1>2, <1>3, <1>4 DEF Loc

LEMMA EntryChanged ==
  ASSUME NEW r \in Entry, NEW n \in Nat, NEW b \in BOOLEAN
  PROVE  /\ [r EXCEPT !.id = n] \in Entry /\ [r EXCEPT !.marked = b] \in Entry
         /\ [r EXCEPT !.id = n, !.root = b] \in Entry
         /\ [r EXCEPT !.id = n, !.root = b].marked = r.marked
         /\ r.id \in Nat /\ r.marked \in BOOLEAN /\ r.root \in BOOLEAN
  BY DEF Entry

LEMMA ViewType ==
  ASSUME NEW seq \in Seq(Entry), NEW n \in Nat
  PROVE  View(seq, n) \in Seq(Entry) /\ Len(View(seq, n)) = n /\ (n = Len(seq) => View(seq, n) = seq)
  <1>1. \A i \in 1 .. n : (IF i <= Len(seq) THEN seq[i] ELSE Zero) \in Entry
    BY ZeroType
  <1>2. View(seq, n) \in Seq(Entry) /\ Len(View(seq, n)) = n
    BY <1>1 DEF View
  <1>3. ASSUME n = Len(seq) PROVE View(seq, n) = seq
    <2>1. \A i \in 1 .. n : View(seq, n)[i] = seq[i]
      BY <1>3 DEF View
    <2> QED
      BY <1>2, <1>3, <2>1, SeqEqual
  <1> QED
    BY <1>2, <1>3

(* The whole of what a process is at does not change but by a step of its  *)
(* own; only the start of the machine is nobody's step.                    *)
Step(p) == Regen(p) \/ Post(p) \/ Del(p) \/ Undel(p) \/ Mark(p) \/ Delete_Range(p) \/ Die(p)

LEMMA Steps == [Next]_vars => (\E p \in Procs : Step(p)) \/ Reboot \/ UNCHANGED vars
  BY DEF Next, Step

LEMMA FilesStay ==
  ASSUME TypeOK, Fits, NEW p \in Procs, Step(p)
  PROVE  /\ tasks' = tasks
         /\ dir' \in Seq(Entry) /\ deleted' \subseteq Entry /\ lastid' \in Nat
         /\ index' \in [Kinds -> Seq(Entry)]
  <1>0. /\ dir \in Seq(Entry) /\ deleted \subseteq Entry /\ lastid \in Nat
        /\ index \in [Kinds -> Seq(Entry)] /\ loc \in [Procs -> Loc]
    BY DEF TypeOK, Loc
  <1>e. loc[p].ent \in Entry /\ loc[p].size \in Nat /\ loc[p].ix \in Kinds /\ "ORIGIN" \in Kinds
    BY <1>0 DEF Loc, Kinds
  <1>i. \A k \in Kinds : index[k] \in Seq(Entry)
    BY <1>0
  <1>1. CASE Regen(p)
    <2>1. tasks' = tasks /\ dir' = dir /\ deleted' = deleted /\ lastid' = lastid
      BY <1>1 DEF Regen, Read, RegenLock, RegenStat, RegenRead, RegenDone
    <2>2. index' = index \/ RegenRead(p) \/ RegenDone(p)
      BY <1>1 DEF Regen, Read, RegenLock, RegenStat
    <2>3. CASE RegenRead(p)
      <3> DEFINE k == loc[p].ix  found == Picked(k, View(dir, loc[p].size))
                 new == found \o SubSeq(index[k], Len(found) + 1, Len(index[k]))
      <3>1. found \in Seq(Entry)
        BY <1>0, <1>e, ViewType, PickedType
      <3>2. index' = index \/ index' = [index EXCEPT ![k] = new]
        BY <2>3 DEF RegenRead
      <3> HIDE DEF found
      <3>3. new \in Seq(Entry)
        BY <1>e, <1>i, <3>1
      <3> HIDE DEF new
      <3>4. index' \in [Kinds -> Seq(Entry)]
        BY <1>0, <3>2, <3>3
      <3> QED
        BY <1>0, <2>1, <3>4
    <2>4. CASE RegenDone(p)
      <3>1. SubSeq(index[loc[p].ix], 1, loc[p].size) \in Seq(Entry)
        <4>1. PICK s \in Seq(Entry) : s = index[loc[p].ix]
          BY <1>e, <1>i
        <4>2. loc[p].size <= Len(s)
          BY <2>4, <4>1 DEF RegenDone, Fits
        <4>3. SubSeq(s, 1, loc[p].size) \in Seq(Entry)
          BY <1>e, <4>2
        <4> QED
          BY <4>1, <4>3
      <3> QED
        BY <1>0, <2>1, <2>4, <3>1 DEF RegenDone
    <2> QED
      BY <1>0, <2>1, <2>2, <2>3, <2>4
  <1>2. CASE Post(p)
    <2>1. tasks' = tasks /\ deleted' = deleted
      BY <1>2 DEF Post, PostEntry, PostIx, PostAdd
    <2>2. CASE PostEntry(p)
      <3>1. index' = index /\ lastid' = lastid + 1
        BY <2>2 DEF PostEntry
      <3>2. PICK root \in BOOLEAN, marked \in BOOLEAN :
              dir' = Append(dir, [id |-> lastid + 1, root |-> root, marked |-> marked])
        BY <2>2 DEF PostEntry
      <3>3. [id |-> lastid + 1, root |-> root, marked |-> marked] \in Entry
        BY <1>0 DEF Entry
      <3> QED
        BY <1>0, <2>1, <3>1, <3>2, <3>3
    <2>3. CASE PostIx(p)
      BY <1>0, <2>1, <2>3 DEF PostIx
    <2>4. CASE PostAdd(p)
      <3>1. dir' = dir /\ lastid' = lastid /\ index' = [index EXCEPT !["ORIGIN"] = Append(@, loc[p].ent)]
        BY <2>4 DEF PostAdd
      <3> QED
        BY <1>0, <1>e, <1>i, <2>1, <3>1
    <2> QED
      BY <1>2, <2>2, <2>3, <2>4 DEF Post
  <1>3. CASE Del(p)
    <2>1. tasks' = tasks /\ lastid' = lastid
      BY <1>3 DEF Del, DelEntry, DelIx, DelLock, SetMark, End
    <2>2. CASE DelEntry(p)
      <3>1. PICK i \in DOMAIN dir : dir' = RemoveAt(dir, i) /\ deleted' = deleted \cup {dir[i]}
        BY <2>2 DEF DelEntry
      <3>2. index' = index /\ dir[i] \in Entry
        BY <1>0, <2>2 DEF DelEntry
      <3> QED
        BY <1>0, <2>1, <3>1, <3>2, RemoveAtType
    <2>3. CASE DelLock(p)
      <3> DEFINE view == View(index["ORIGIN"], loc[p].size)
      <3>1. view \in Seq(Entry)
        BY <1>e, <1>i, ViewType
      <3>2. dir' = dir /\ deleted' = deleted
        BY <2>3 DEF DelLock
      <3>3. index' = index \/ \E i \in DOMAIN view : index' = [index EXCEPT !["ORIGIN"] = RemoveAt(view, i)]
        BY <2>3 DEF DelLock, Hits
      <3> HIDE DEF view
      <3>4. \A i \in DOMAIN view : RemoveAt(view, i) \in Seq(Entry)
        BY <3>1, RemoveAtType
      <3> QED
        BY <1>0, <2>1, <3>2, <3>3, <3>4
    <2>4. CASE DelIx(p) \/ SetMark(p) \/ End(p)
      BY <1>0, <2>1, <2>4 DEF DelIx, SetMark, End
    <2> QED
      BY <1>3, <2>2, <2>3, <2>4 DEF Del
  <1>4. CASE Undel(p)
    <2>1. CASE UndelEntry(p)
      <3>1. tasks' = tasks /\ index' = index
        BY <2>1 DEF UndelEntry
      <3>2. PICK e \in deleted :
              LET new == IF dir = <<>> THEN [e EXCEPT !.id = lastid + 1, !.root = TRUE] ELSE e IN
              /\ Insert(new) /\ lastid' = (IF dir = <<>> THEN new.id ELSE lastid)
              /\ deleted' = deleted \ {e}
        BY <2>1 DEF UndelEntry
      <3> DEFINE new == IF dir = <<>> THEN [e EXCEPT !.id = lastid + 1, !.root = TRUE] ELSE e
      <3>3. new \in Entry /\ new.id \in Nat
        <4>1. e \in Entry /\ lastid + 1 \in Nat
          BY <1>0
        <4> QED
          BY <4>1, EntryChanged
      <3>4. Insert(new) /\ lastid' = (IF dir = <<>> THEN new.id ELSE lastid) /\ deleted' = deleted \ {e}
        BY <3>2
      <3> HIDE DEF new
      <3>5. dir' \in Seq(Entry)
        <4>1. CASE dir' = <<new>>
          BY <3>3, <4>1
        <4>2. CASE \E i \in Gaps(dir, new.id) : dir' = InsertAt(dir, i, new)
          <5>1. PICK i \in 1 .. Len(dir) + 1 : dir' = InsertAt(dir, i, new)
            BY <4>2 DEF Gaps
          <5> QED
            BY <1>0, <3>3, <5>1, InsertAtType
        <4> QED
          BY <3>4, <4>1, <4>2 DEF Insert
      <3> QED
        BY <1>0, <3>1, <3>3, <3>4, <3>5
    <2>2. CASE UndelIx(p)
      BY <1>0, <2>2 DEF UndelIx
    <2>3. CASE UndelAdd(p)
      <3> DEFINE e == loc[p].ent
      <3>1. tasks' = tasks /\ dir' = dir /\ deleted' = deleted /\ (lastid' = lastid \/ lastid' = lastid + 1)
        BY <2>3 DEF UndelAdd
      <3>2. \/ \E i \in Gaps(index["ORIGIN"], e.id) :
                  index' = [index EXCEPT !["ORIGIN"] = InsertAt(@, i, e)]
            \/ index' = [index EXCEPT !["ORIGIN"] = Append(@, [e EXCEPT !.id = lastid + 1])]
        BY <2>3 DEF UndelAdd
      <3>3. e \in Entry /\ [e EXCEPT !.id = lastid + 1] \in Entry
        <4>1. e \in Entry /\ lastid + 1 \in Nat
          BY <1>0, <1>e
        <4> QED
          BY <4>1, EntryChanged
      <3> HIDE DEF e
      <3>4. \A i \in Gaps(index["ORIGIN"], e.id) : InsertAt(index["ORIGIN"], i, e) \in Seq(Entry)
        BY <1>e, <1>i, <3>3, InsertAtType DEF Gaps
      <3>5. Append(index["ORIGIN"], [e EXCEPT !.id = lastid + 1]) \in Seq(Entry)
        BY <1>e, <1>i, <3>3
      <3>6. index' \in [Kinds -> Seq(Entry)]
        BY <1>0, <1>e, <3>2, <3>4, <3>5
      <3> QED
        BY <1>0, <3>1, <3>6
    <2> QED
      BY <1>4, <2>1, <2>2, <2>3 DEF Undel
  <1>5. CASE Mark(p)
    <2>1. tasks' = tasks /\ deleted' = deleted /\ lastid' = lastid
      BY <1>5 DEF Mark, MarkWrite, MarkDirty, MarkIxMap, MarkIxLock, MarkIxDir
    <2>2. dir' = dir \/ \E i \in DOMAIN dir, b \in BOOLEAN : dir' = [dir EXCEPT ![i].marked = b]
      BY <1>0, <1>5 DEF Mark, MarkWrite, MarkDirty, MarkIxMap, MarkIxLock, MarkIxDir, Hits, Entry
    <2>3. dir' \in Seq(Entry)
      <3>1. \A i \in DOMAIN dir, b \in BOOLEAN : [dir[i] EXCEPT !.marked = b] \in Entry
        <4>1. \A i \in DOMAIN dir : dir[i] \in Entry
          BY <1>0
        <4> QED
          BY <4>1, EntryChanged
      <3> QED
        BY <1>0, <2>2, <3>1
    <2>4. index' = index \/ \E i \in DOMAIN index[loc[p].ix], b \in BOOLEAN :
                              index' = [index EXCEPT ![loc[p].ix][i].marked = b]
      <3>1. index' = index \/ MarkIxLock(p)
        BY <1>5 DEF Mark, MarkWrite, MarkDirty, MarkIxMap, MarkIxDir
      <3>2. CASE MarkIxLock(p)
        <4>1. index' = index \/ \E i \in Hits(View(index[loc[p].ix], loc[p].size), loc[p].ent.id) :
                ~(i > Len(index[loc[p].ix])) /\ index' = [index EXCEPT ![loc[p].ix][i].marked = ~loc[p].ent.marked]
          BY <3>2 DEF MarkIxLock
        <4>2. DOMAIN View(index[loc[p].ix], loc[p].size) = 1 .. loc[p].size
          BY DEF View
        <4>3. \A i \in 1 .. loc[p].size : ~(i > Len(index[loc[p].ix])) => i \in DOMAIN index[loc[p].ix]
          BY <1>e, <1>i
        <4>4. (~loc[p].ent.marked) \in BOOLEAN
          OBVIOUS
        <4> QED
          BY <4>1, <4>2, <4>3, <4>4 DEF Hits
      <3> QED
        BY <3>1, <3>2
    <2>5. index' \in [Kinds -> Seq(Entry)]
      <3>1. PICK s \in Seq(Entry) : s = index[loc[p].ix]
        BY <1>e, <1>i
      <3>2. \A i \in DOMAIN s, b \in BOOLEAN : [s EXCEPT ![i].marked = b] \in Seq(Entry)
        <4>1. \A i \in DOMAIN s, b \in BOOLEAN : [s[i] EXCEPT !.marked = b] \in Entry
          <5>1. \A i \in DOMAIN s : s[i] \in Entry
            OBVIOUS
          <5> QED
            BY <5>1, EntryChanged
        <4> QED
          BY <4>1
      <3> QED
        <4>1. CASE index' = index
          BY <1>0, <4>1
        <4>2. ASSUME NEW i \in DOMAIN index[loc[p].ix], NEW b \in BOOLEAN,
                     index' = [index EXCEPT ![loc[p].ix][i].marked = b]
              PROVE  index' \in [Kinds -> Seq(Entry)]
          <5>1. index' = [index EXCEPT ![loc[p].ix] = [s EXCEPT ![i].marked = b]]
            BY <3>1, <4>2
          <5>2. [s EXCEPT ![i].marked = b] \in Seq(Entry)
            BY <3>1, <3>2
          <5> QED
            BY <1>0, <1>e, <5>1, <5>2
        <4> QED
          BY <2>4, <4>1, <4>2
    <2> QED
      BY <1>0, <2>1, <2>3, <2>5
  <1>6. CASE Delete_Range(p)
    <2>1. CASE RangeEntries(p)
      <3>1. PICK i \in DOMAIN dir, j \in DOMAIN dir :
              /\ i <= j /\ dir' = SubSeq(dir, 1, i - 1) \o SubSeq(dir, j + 1, Len(dir))
              /\ deleted' = deleted \cup {dir[k] : k \in i .. j}
        BY <2>1 DEF RangeEntries
      <3>2. \A k \in i .. j : dir[k] \in Entry
        BY <1>0, <3>1
      <3>3. SubSeq(dir, 1, i - 1) \in Seq(Entry) /\ SubSeq(dir, j + 1, Len(dir)) \in Seq(Entry)
        BY <1>0, <3>1
      <3>4. tasks' = tasks /\ lastid' = lastid /\ index' = index
        BY <2>1 DEF RangeEntries
      <3> QED
        BY <1>0, <3>1, <3>2, <3>3, <3>4
    <2>2. CASE RangeDirty(p)
      BY <1>0, <2>2 DEF RangeDirty
    <2> QED
      BY <1>6, <2>1, <2>2 DEF Delete_Range
  <1>7. CASE Die(p)
    BY <1>0, <1>7 DEF Die
  <1> QED
    BY <1>1, <1>2, <1>3, <1>4, <1>5, <1>6, <1>7 DEF Step

(* Who has not moved is where he was. *)
LEMMA OthersStay ==
  ASSUME DOMAIN pc = Procs, DOMAIN loc = Procs, NEW p \in Procs, Step(p)
  PROVE  \A q \in Procs \ {p} : pc'[q] = pc[q] /\ loc'[q] = loc[q]
  <1>1. CASE Regen(p) \/ Post(p)
    BY <1>1 DEF Regen, Read, RegenLock, RegenStat, RegenRead, RegenDone, Post, PostEntry, PostIx,
       PostAdd, Instead, Goto
  <1>2. CASE Del(p) \/ Undel(p)
    BY <1>2 DEF Del, DelEntry, DelIx, DelLock, SetMark, End, Undel, UndelEntry, UndelIx, UndelAdd,
       Instead, Goto
  <1>3. CASE Mark(p) \/ Delete_Range(p) \/ Die(p)
    BY <1>3 DEF Mark, MarkWrite, MarkDirty, MarkIxMap, MarkIxLock, MarkIxDir, Delete_Range,
       RangeEntries, RangeDirty, Die, Goto
  <1> QED
    BY <1>1, <1>2, <1>3 DEF Step

LEMMA PlacesStay ==
  ASSUME TypeOK, InOrder, NEW p \in Procs, Step(p)
  PROVE  pc' \in [Procs -> Stages] /\ loc' \in [Procs -> Loc]
  <1>0. /\ pc \in [Procs -> Stages] /\ loc \in [Procs -> Loc] /\ dir \in Seq(Entry)
        /\ deleted \subseteq Entry /\ index \in [Kinds -> Seq(Entry)] /\ lastid \in Nat
    BY DEF TypeOK, Loc
  <1>3. /\ loc[p].ent \in Entry /\ loc[p].size \in Nat /\ loc[p].ix \in Kinds /\ loc[p].then \in Stages
        /\ "ORIGIN" \in Kinds
    BY <1>0 DEF Loc, Kinds
  <1>4. \A e : Afterwards(e) \in Stages
    BY DEF Afterwards, Stages
  <1>5. pc' \in [Procs -> Stages]
    <2>1. \E s \in Stages : pc' = [pc EXCEPT ![p] = s]
      <3>1. CASE Regen(p)
        BY <1>0, <1>3, <3>1 DEF Regen, Read, RegenLock, RegenStat, RegenRead, RegenDone, Goto, Stages
      <3>2. CASE Post(p) \/ Del(p)
        BY <1>0, <1>4, <3>2 DEF Post, PostEntry, PostIx, PostAdd, Del, DelEntry, DelIx, DelLock, SetMark,
           End, Instead, Goto, Stages
      <3>3. CASE Undel(p) \/ Mark(p) \/ Delete_Range(p) \/ Die(p)
        BY <1>0, <3>3 DEF Undel, UndelEntry, UndelIx, UndelAdd, Mark, MarkWrite, MarkDirty, MarkIxMap,
           MarkIxLock, MarkIxDir, Delete_Range, RangeEntries, RangeDirty, Die, Instead, Goto, Stages
      <3> QED
        BY <3>1, <3>2, <3>3 DEF Step
    <2> QED
      BY <1>0, <2>1
  <1>6. loc' \in [Procs -> Loc]
    <2>1. CASE Regen(p)
      <3>1. Len(dir) \in Nat /\ Len(Picked(loc[p].ix, View(dir, loc[p].size))) \in Nat
        <4>1. Picked(loc[p].ix, View(dir, loc[p].size)) \in Seq(Entry)
          BY <1>0, <1>3, ViewType, PickedType
        <4> QED
          BY <1>0, <4>1
      <3>2. "end" \in Stages
        BY DEF Stages
      <3>3. CASE \E k \in Kinds : Read(p, k)
        <4>1. PICK k \in Kinds : loc' = [loc EXCEPT ![p].ix = k, ![p].then = "end"]
          BY <3>3 DEF Read
        <4> QED
          BY <1>0, <3>2, <4>1 DEF Loc
      <3>4. CASE RegenStat(p)
        BY <1>0, <3>1, <3>4 DEF RegenStat, Loc
      <3>5. CASE RegenRead(p)
        <4>1. \/ loc' = loc
              \/ loc' = [loc EXCEPT ![p].size = Len(Picked(loc[p].ix, View(dir, loc[p].size)))]
          BY <3>5 DEF RegenRead
        <4> QED
          BY <1>0, <3>1, <4>1 DEF Loc
      <3>6. CASE RegenLock(p) \/ RegenDone(p)
        BY <1>0, <3>6 DEF RegenLock, RegenDone
      <3> QED
        BY <2>1, <3>3, <3>4, <3>5, <3>6 DEF Regen
    <2>2. ASSUME NEW s \in Stages, Instead(p, s)
          PROVE  loc' \in [Procs -> Loc]
      BY <1>0, <1>3, <2>2 DEF Instead, Loc
    <2>e. \A e \in Entry : [loc EXCEPT ![p].ent = e] \in [Procs -> Loc]
      BY <1>0 DEF Loc
    <2>n. \A n \in Nat : [loc EXCEPT ![p].size = n] \in [Procs -> Loc]
      BY <1>0 DEF Loc
    <2>f. [loc EXCEPT ![p] = Fresh] \in [Procs -> Loc]
      BY <1>0, ZeroType
    <2>3. CASE Post(p)
      <3>1. CASE PostEntry(p)
        <4>1. PICK root \in BOOLEAN, marked \in BOOLEAN :
                loc' = [loc EXCEPT ![p].ent = [id |-> lastid + 1, root |-> root, marked |-> marked]]
          BY <3>1 DEF PostEntry
        <4>2. [id |-> lastid + 1, root |-> root, marked |-> marked] \in Entry
          BY <1>0 DEF Entry
        <4> QED
          BY <2>e, <4>1, <4>2
      <3>2. CASE PostIx(p) \/ PostAdd(p)
        BY <1>0, <1>4, <2>2, <3>2 DEF PostIx, PostAdd
      <3> QED
        BY <2>3, <3>1, <3>2 DEF Post
    <2>4. CASE Del(p)
      <3>1. \A i \in DOMAIN dir : dir[i] \in Entry
        BY <1>0
      <3>2. Len(index["ORIGIN"]) \in Nat
        BY <1>0, <1>3
      <3>3. CASE DelEntry(p)
        <4>1. PICK i \in DOMAIN dir : loc' = [loc EXCEPT ![p].ent = dir[i]]
          BY <3>3 DEF DelEntry
        <4> QED
          BY <2>e, <3>1, <4>1
      <3>4. CASE DelIx(p)
        BY <1>0, <1>4, <2>2, <2>n, <3>2, <3>4 DEF DelIx
      <3>5. CASE DelLock(p) \/ SetMark(p) \/ End(p)
        BY <1>0, <2>f, <3>5 DEF DelLock, SetMark, End
      <3> QED
        BY <2>4, <3>3, <3>4, <3>5 DEF Del
    <2>5. CASE Undel(p)
      <3>1. CASE UndelEntry(p)
        <4>1. PICK e \in deleted :
                loc' = [loc EXCEPT ![p].ent =
                          IF dir = <<>> THEN [e EXCEPT !.id = lastid + 1, !.root = TRUE] ELSE e]
          BY <3>1 DEF UndelEntry
        <4>2. e \in Entry /\ lastid + 1 \in Nat
          BY <1>0
        <4>3. [e EXCEPT !.id = lastid + 1, !.root = TRUE] \in Entry
          BY <4>2, EntryChanged
        <4> QED
          BY <2>e, <4>1, <4>2, <4>3
      <3>2. "end" \in Stages
        BY DEF Stages
      <3>3. CASE UndelIx(p) \/ UndelAdd(p)
        BY <1>0, <2>2, <3>2, <3>3 DEF UndelIx, UndelAdd
      <3> QED
        BY <2>5, <3>1, <3>3 DEF Undel
    <2>6. CASE Mark(p)
      <3>1. loc' = loc \/ \E k \in Kinds : MarkIxMap(p, k)
        BY <2>6 DEF Mark, MarkWrite, MarkDirty, MarkIxLock, MarkIxDir
      <3>2. ASSUME NEW k \in Kinds, MarkIxMap(p, k)
            PROVE  loc' \in [Procs -> Loc]
        <4>1. index[k] \in Seq(Entry)
          BY <1>0
        <4>2. PICK e \in Range(index[k]) : loc' = [loc EXCEPT ![p].ent = e, ![p].ix = k, ![p].size = Len(index[k])]
          BY <3>2 DEF MarkIxMap
        <4>3. e \in Entry /\ Len(index[k]) \in Nat
          BY <4>1 DEF Range
        <4> QED
          BY <1>0, <4>2, <4>3 DEF Loc
      <3> QED
        BY <1>0, <3>1, <3>2
    <2>7. CASE Delete_Range(p) \/ Die(p)
      BY <1>0, <2>f, <2>7 DEF Delete_Range, RangeEntries, RangeDirty, Die
    <2> QED
      BY <2>1, <2>3, <2>4, <2>5, <2>6, <2>7 DEF Step
  <1> QED
    BY <1>5, <1>6

(* The flags, the bounds, and that a lock is with somebody at work. *)
LEMMA FlagsStay ==
  ASSUME TypeOK, NEW p \in Procs, Step(p)
  PROVE  /\ changes' \in 0 .. MaxChanges
         /\ dirty' \in [Kinds -> BOOLEAN] /\ missed' \in [Kinds -> BOOLEAN]
         /\ lock' \in [Files -> Procs \cup {Nobody}]
  <1>0. /\ changes \in 0 .. MaxChanges /\ MaxChanges \in Nat
        /\ dirty \in [Kinds -> BOOLEAN] /\ missed \in [Kinds -> BOOLEAN]
        /\ lock \in [Files -> Procs \cup {Nobody}]
    BY MaxIdAssumption DEF TypeOK
  <1>1. changes' \in 0 .. MaxChanges
    <2>1. changes' = changes \/ (changes < MaxChanges /\ changes' = changes + 1)
      <3>1. CASE Regen(p) \/ Post(p)
        BY <3>1 DEF Regen, Read, RegenLock, RegenStat, RegenRead, RegenDone, Post, PostEntry, PostIx,
           PostAdd, Begin
      <3>2. CASE Del(p) \/ Undel(p)
        BY <3>2 DEF Del, DelEntry, DelIx, DelLock, SetMark, End, Undel, UndelEntry, UndelIx, UndelAdd,
           Begin
      <3>3. CASE Mark(p) \/ Delete_Range(p) \/ Die(p)
        BY <3>3 DEF Mark, MarkWrite, MarkDirty, MarkIxMap, MarkIxLock, MarkIxDir, Delete_Range,
           RangeEntries, RangeDirty, Die, Begin
      <3> QED
        BY <3>1, <3>2, <3>3 DEF Step
    <2> QED
      BY <1>0, <2>1
  <1>2. \A ks : SetDirty(ks) => dirty' \in [Kinds -> BOOLEAN] /\ missed' \in [Kinds -> BOOLEAN]
    BY <1>0 DEF SetDirty, Miss
  <1>3. \A w, ks : Miss(w, ks) => missed' \in [Kinds -> BOOLEAN]
    BY <1>0 DEF Miss
  <1>4. dirty' \in [Kinds -> BOOLEAN] /\ missed' \in [Kinds -> BOOLEAN]
    <2>1. CASE Regen(p)
      BY <1>0, <2>1 DEF Regen, Read, RegenLock, RegenStat, RegenRead, RegenDone
    <2>2. CASE Post(p)
      BY <1>0, <1>3, <2>2 DEF Post, PostEntry, PostIx, PostAdd, Instead
    <2>3. CASE Del(p)
      BY <1>0, <1>2, <1>3, <2>3 DEF Del, DelEntry, DelIx, DelLock, SetMark, End, Instead
    <2>4. CASE Undel(p)
      BY <1>0, <1>3, <2>4 DEF Undel, UndelEntry, UndelIx, UndelAdd, Instead
    <2>5. CASE Mark(p)
      BY <1>0, <1>2, <2>5 DEF Mark, MarkWrite, MarkDirty, MarkIxMap, MarkIxLock, MarkIxDir
    <2>6. CASE Delete_Range(p) \/ Die(p)
      BY <1>0, <1>2, <1>3, <2>6 DEF Delete_Range, RangeEntries, RangeDirty, Die
    <2> QED
      BY <2>1, <2>2, <2>3, <2>4, <2>5, <2>6 DEF Step
  <1>5. \A f : Lock(p, f) => lock' \in [Files -> Procs \cup {Nobody}]
    BY <1>0 DEF Lock
  <1>6. \A fs : Unlock(p, fs) => lock' \in [Files -> Procs \cup {Nobody}]
    BY <1>0 DEF Unlock
  <1>7. lock' \in [Files -> Procs \cup {Nobody}]
    <2>1. CASE Regen(p)
      BY <1>0, <1>5, <1>6, <2>1 DEF Regen, Read, RegenLock, RegenStat, RegenRead, RegenDone
    <2>2. CASE Post(p) \/ Undel(p)
      BY <1>0, <2>2 DEF Post, PostEntry, PostIx, PostAdd, Undel, UndelEntry, UndelIx, UndelAdd
    <2>3. CASE Del(p)
      BY <1>0, <1>5, <1>6, <2>3 DEF Del, DelEntry, DelIx, DelLock, SetMark, End
    <2>4. CASE Mark(p)
      BY <1>0, <1>5, <2>4 DEF Mark, MarkWrite, MarkDirty, MarkIxMap, MarkIxLock, MarkIxDir
    <2>5. CASE Delete_Range(p) \/ Die(p)
      BY <1>0, <1>6, <2>5 DEF Delete_Range, RangeEntries, RangeDirty, Die
    <2> QED
      BY <2>1, <2>2, <2>3, <2>4, <2>5 DEF Step
  <1> QED
    BY <1>1, <1>4, <1>7

-----------------------------------------------------------------------------
(* Locks.  A step takes only what is free and gives back only what was     *)
(* held by its process, and it holds none when it is idle.                 *)
LEMMA LocksOfOthers ==
  ASSUME TypeOK, LocksHeld, NEW p \in Procs, Step(p)
  PROVE  \A q \in Procs \ {p}, f \in Files : lock'[f] = q <=> lock[f] = q
  <1>0. lock \in [Files -> Procs \cup {Nobody}] /\ Nobody \notin Procs
        /\ \A q \in Procs : loc[q].ix \in Files
    BY NobodyAssumption DEF TypeOK, Files
  <1>1. \A f \in Files : lock[f] = Nobody /\ Lock(p, f) =>
          \A q \in Procs \ {p}, g \in Files : lock'[g] = q <=> lock[g] = q
    BY <1>0 DEF Lock
  <1>2. \A fs : Unlock(p, fs) => \A q \in Procs \ {p}, g \in Files : lock'[g] = q <=> lock[g] = q
    BY <1>0 DEF Unlock
  <1>3. "DIR" \in Files /\ Kinds \subseteq Files
    BY DEF Files
  <1>4. CASE Regen(p)
    <2>1. \/ lock' = lock
          \/ lock[loc[p].ix] = Nobody /\ Lock(p, loc[p].ix)
          \/ \E fs : Unlock(p, fs)
      BY <1>4 DEF Regen, Read, RegenLock, RegenStat, RegenRead, RegenDone
    <2> QED
      BY <1>0, <1>1, <1>2, <2>1
  <1>5. CASE Post(p) \/ Undel(p) \/ Delete_Range(p)
    BY <1>5 DEF Post, PostEntry, PostIx, PostAdd, Undel, UndelEntry, UndelIx, UndelAdd,
       Delete_Range, RangeEntries, RangeDirty
  <1>6. CASE Del(p)
    <2>1. \/ lock' = lock
          \/ lock["DIR"] = Nobody /\ Lock(p, "DIR")
          \/ \E fs : Unlock(p, fs)
      BY <1>6 DEF Del, DelEntry, DelIx, DelLock, SetMark, End
    <2> QED
      BY <1>1, <1>2, <1>3, <2>1
  <1>7. CASE Mark(p)
    <2>1. \/ lock' = lock
          \/ \E f \in Files : lock[f] = Nobody /\ Lock(p, f)
      BY <1>0, <1>3, <1>7 DEF Mark, MarkWrite, MarkDirty, MarkIxMap, MarkIxLock, MarkIxDir
    <2> QED
      BY <1>1, <2>1
  <1>8. CASE Die(p)
    BY <1>2, <1>8 DEF Die
  <1> QED
    BY <1>4, <1>5, <1>6, <1>7, <1>8 DEF Step

(* Only who has written an index again clears its flag. *)
LEMMA Cleans ==
  ASSUME TypeOK, NEW p \in Procs, Step(p), NEW k \in Kinds, dirty[k], ~dirty'[k]
  PROVE  pc[p] = "regen_done" /\ loc[p].ix = k
  <1>0. dirty \in [Kinds -> BOOLEAN]
    BY DEF TypeOK
  <1>1. \A ks : SetDirty(ks) => dirty'[k]
    BY DEF SetDirty
  <1>2. CASE Regen(p)
    BY <1>0, <1>2 DEF Regen, Read, RegenLock, RegenStat, RegenRead, RegenDone
  <1>3. CASE Post(p) \/ Undel(p)
    BY <1>3 DEF Post, PostEntry, PostIx, PostAdd, Undel, UndelEntry, UndelIx, UndelAdd
  <1>4. CASE Del(p) \/ Delete_Range(p)
    BY <1>1, <1>4 DEF Del, DelEntry, DelIx, DelLock, SetMark, End, Delete_Range, RangeEntries, RangeDirty
  <1>5. CASE Mark(p) \/ Die(p)
    BY <1>1, <1>5 DEF Mark, MarkWrite, MarkDirty, MarkIxMap, MarkIxLock, MarkIxDir, Die
  <1> QED
    BY <1>2, <1>3, <1>4, <1>5 DEF Step

(* An index is changed only under its lock, or when no one has it. *)
LEMMA Changes ==
  ASSUME TypeOK, LocksHeld, NEW p \in Procs, Step(p), NEW k \in Kinds, index'[k] # index[k]
  PROVE  lock[k] \in {Nobody, p}
  <1>0. index \in [Kinds -> Seq(Entry)] /\ "ORIGIN" \in Kinds
    BY DEF TypeOK, Kinds
  <1>1. CASE Regen(p)
    <2>1. RegenRead(p) \/ RegenDone(p)
      BY <1>1 DEF Regen, Read, RegenLock, RegenStat
    <2>2. k = loc[p].ix /\ pc[p] \in {"regen_read", "regen_done"}
      BY <1>0, <2>1 DEF RegenRead, RegenDone
    <2> QED
      BY <2>2 DEF LocksHeld, HasIndex
  <1>2. CASE Post(p) \/ Undel(p)
    BY <1>0, <1>2 DEF Post, PostEntry, PostIx, PostAdd, Undel, UndelEntry, UndelIx, UndelAdd
  <1>3. CASE Del(p) \/ Delete_Range(p) \/ Die(p)
    BY <1>0, <1>3 DEF Del, DelEntry, DelIx, DelLock, SetMark, End, Delete_Range, RangeEntries,
       RangeDirty, Die
  <1>4. CASE Mark(p)
    BY <1>0, <1>4 DEF Mark, MarkWrite, MarkDirty, MarkIxMap, MarkIxLock, MarkIxDir
  <1> QED
    BY <1>1, <1>2, <1>3, <1>4 DEF Step

-----------------------------------------------------------------------------
(* Where a step leads the process that takes it. *)
LEMMA OwnOrder ==
  ASSUME TypeOK, InOrder, NEW p \in Procs, Step(p)
  PROVE  /\ Regenerates(p)' => loc'[p].then \in {"end", "set_mark"}
         /\ pc'[p] = "set_mark" \/ (Regenerates(p)' /\ loc'[p].then = "set_mark") => loc'[p].ent.marked
  <1>0. pc \in [Procs -> Stages] /\ loc \in [Procs -> Loc]
    BY DEF TypeOK, Loc
  <1>1. /\ Regenerates(p) => loc[p].then \in {"end", "set_mark"}
        /\ pc[p] = "set_mark" \/ (Regenerates(p) /\ loc[p].then = "set_mark") => loc[p].ent.marked
    BY DEF InOrder
  <1>2. \A e : /\ Afterwards(e) \in {"end", "set_mark"}
               /\ Afterwards(e) = "set_mark" => e.marked
    BY DEF Afterwards
  <1>3. ASSUME NEW s, Instead(p, s), s \in {"end", "set_mark"}, s = "set_mark" => loc[p].ent.marked
        PROVE  /\ Regenerates(p)' => loc'[p].then \in {"end", "set_mark"}
               /\ pc'[p] = "set_mark" \/ (Regenerates(p)' /\ loc'[p].then = "set_mark") => loc'[p].ent.marked
    BY <1>0, <1>3 DEF Instead, Goto, Regenerates, Loc
  <1>4. CASE Regen(p)
    <2>1. CASE \E k \in Kinds : Read(p, k)
      BY <1>0, <2>1 DEF Read, Goto, Regenerates, Loc
    <2>2. CASE RegenLock(p)
      BY <1>0, <1>1, <2>2 DEF RegenLock, Goto, Regenerates
    <2>3. CASE RegenStat(p)
      BY <1>0, <1>1, <2>3 DEF RegenStat, Goto, Regenerates, Loc
    <2>4. CASE RegenRead(p)
      <3>1. \/ pc' = [pc EXCEPT ![p] = loc[p].then] /\ loc' = loc
            \/ /\ pc' = [pc EXCEPT ![p] = "regen_done"]
               /\ \E n : loc' = [loc EXCEPT ![p].size = n]
        BY <2>4 DEF RegenRead, Goto
      <3>2. Regenerates(p)
        BY <2>4 DEF RegenRead, Regenerates
      <3> QED
        BY <1>0, <1>1, <3>1, <3>2 DEF Regenerates, Loc
    <2>5. CASE RegenDone(p)
      BY <1>0, <1>1, <2>5 DEF RegenDone, Goto, Regenerates
    <2> QED
      BY <1>4, <2>1, <2>2, <2>3, <2>4, <2>5 DEF Regen
  <1>5. CASE Post(p)
    <2>1. CASE PostEntry(p)
      <3>1. PICK root \in BOOLEAN, marked \in BOOLEAN :
              LET e == [id |-> lastid + 1, root |-> root, marked |-> marked] IN
              /\ loc' = [loc EXCEPT ![p].ent = e]
              /\ pc' = [pc EXCEPT ![p] = IF root THEN "post_ix" ELSE Afterwards(e)]
        BY <2>1 DEF PostEntry, Goto
      <3> DEFINE e == [id |-> lastid + 1, root |-> root, marked |-> marked]
      <3>2. /\ loc' = [loc EXCEPT ![p].ent = e]
            /\ pc' = [pc EXCEPT ![p] = IF root THEN "post_ix" ELSE Afterwards(e)]
        BY <3>1
      <3> HIDE DEF e
      <3> QED
        BY <1>0, <1>2, <3>2 DEF Regenerates, Loc
    <2>2. CASE PostIx(p)
      BY <1>0, <1>2, <1>3, <2>2 DEF PostIx, Goto, Regenerates
    <2>3. CASE PostAdd(p)
      BY <1>0, <1>2, <2>3 DEF PostAdd, Goto, Regenerates
    <2> QED
      BY <1>5, <2>1, <2>2, <2>3 DEF Post
  <1>6. CASE Del(p)
    <2>1. CASE DelEntry(p)
      <3>1. PICK e : loc' = [loc EXCEPT ![p].ent = e] /\ pc' = [pc EXCEPT ![p] = IF e.root THEN "del_ix" ELSE Afterwards(e)]
        BY <2>1 DEF DelEntry, Goto
      <3> QED
        BY <1>0, <1>2, <3>1 DEF Regenerates, Loc
    <2>2. CASE DelIx(p)
      <3>1. \/ Instead(p, Afterwards(loc[p].ent))
            \/ pc' = [pc EXCEPT ![p] = Afterwards(loc[p].ent)] /\ loc' = loc
            \/ pc' = [pc EXCEPT ![p] = "del_lock"]
        BY <2>2 DEF DelIx, Goto
      <3> QED
        BY <1>0, <1>2, <1>3, <3>1 DEF Regenerates
    <2>3. CASE DelLock(p)
      <3>1. pc' = [pc EXCEPT ![p] = Afterwards(loc[p].ent)] /\ loc' = loc
        BY <2>3 DEF DelLock, Goto
      <3> QED
        BY <1>0, <1>2, <3>1 DEF Regenerates
    <2>4. CASE SetMark(p) \/ End(p)
      BY <1>0, <2>4 DEF SetMark, End, Goto, Regenerates
    <2> QED
      BY <1>6, <2>1, <2>2, <2>3, <2>4 DEF Del
  <1>7. CASE Undel(p)
    <2>1. UndelIx(p) \/ pc' = [pc EXCEPT ![p] = "end"] \/ pc' = [pc EXCEPT ![p] = "undel_ix"]
      BY <1>7 DEF Undel, UndelEntry, UndelAdd, Goto
    <2>2. CASE UndelIx(p)
      BY <1>0, <1>3, <2>2 DEF UndelIx, Goto, Regenerates
    <2> QED
      BY <1>0, <2>1, <2>2 DEF Regenerates
  <1>8. CASE Mark(p) \/ Delete_Range(p) \/ Die(p)
    <2>1. \E s \in {"mark_dirty", "end", "ix_lock", "ix_dir", "range_dirty", "idle"} : pc' = [pc EXCEPT ![p] = s]
      BY <1>8 DEF Mark, MarkWrite, MarkDirty, MarkIxMap, MarkIxLock, MarkIxDir, Delete_Range,
         RangeEntries, RangeDirty, Die, Goto
    <2> QED
      BY <1>0, <2>1 DEF Regenerates
  <1> QED
    BY <1>4, <1>5, <1>6, <1>7, <1>8 DEF Step

LEMMA OrderStays ==
  ASSUME TypeOK, InOrder, NEW p \in Procs, Step(p)
  PROVE  InOrder'
  <1>1. \A q \in Procs \ {p} : pc'[q] = pc[q] /\ loc'[q] = loc[q]
    BY OthersStay DEF TypeOK
  <1>2. ASSUME NEW q \in Procs
        PROVE  /\ Regenerates(q)' => loc'[q].then \in {"end", "set_mark"}
               /\ pc'[q] = "set_mark" \/ (Regenerates(q)' /\ loc'[q].then = "set_mark") => loc'[q].ent.marked
    <2>1. CASE q = p
      BY <2>1, OwnOrder
    <2>2. CASE q # p
      BY <1>1, <2>2 DEF InOrder, Regenerates
    <2> QED
      BY <2>1, <2>2
  <1> QED
    BY <1>2 DEF InOrder

(* Where p may be while it holds a lock. *)
Holding(p) ==
  /\ HasIndex(p) => lock[loc[p].ix] = p /\ dirty[loc[p].ix]
  /\ \A k \in Kinds : lock[k] = p =>
       loc[p].ix = k /\ (HasIndex(p) \/ pc[p] \in {"ix_dir", "mark_dirty", "end"})
  /\ lock["DIR"] = p =>
       \/ pc[p] \in {"mark_dirty", "end"}
       \/ /\ "thread" \in tasks[p]
          /\ \/ pc[p] \in {"del_ix", "del_lock", "set_mark"}
             \/ pc[p] \in {"regen_lock", "regen_stat", "regen_read"} /\ loc[p].ix = "ORIGIN"
  /\ pc[p] = "idle" => \A f \in Files : lock[f] # p

LEMMA LocksHeldBy ==
  TypeOK /\ LocksHeld => \A p \in Procs : Holding(p)
  <1> SUFFICES ASSUME TypeOK, LocksHeld, NEW p \in Procs PROVE Holding(p)
    OBVIOUS
  <1>1. pc[p] = "idle" => \A f \in Files : lock[f] # p
    BY NobodyAssumption DEF TypeOK
  <1> QED
    BY <1>1 DEF Holding, LocksHeld

LEMMA OwnLocks ==
  ASSUME TypeOK, InOrder, NEW p \in Procs, Holding(p), Step(p)
  PROVE  Holding(p)'
  <1>0. /\ pc \in [Procs -> Stages] /\ loc \in [Procs -> Loc]
        /\ lock \in [Files -> Procs \cup {Nobody}] /\ Nobody \notin Procs
        /\ dirty \in [Kinds -> BOOLEAN]
    BY NobodyAssumption DEF TypeOK, Loc
  <1>f. "DIR" \in Files /\ "DIR" \notin Kinds /\ "ORIGIN" \in Kinds /\ Files = Kinds \cup {"DIR"}
    BY DEF Files, Kinds
  <1>l. loc[p].ix \in Kinds
    BY <1>0 DEF Loc
  <1>a. \A e : Afterwards(e) \in {"end", "set_mark"}
    BY DEF Afterwards
  <1>t. Regenerates(p) => loc[p].then \in {"end", "set_mark"}
    BY DEF InOrder
  <1>1. CASE Regen(p)
    <2>1. CASE \E k \in Kinds : Read(p, k)
      BY <1>0, <1>f, <2>1 DEF Read, Goto, Holding, HasIndex, Loc
    <2>2. CASE RegenLock(p)
      <3>1. loc[p].then \in {"end", "set_mark"}
        BY <1>t, <2>2 DEF RegenLock, Regenerates
      <3>2. CASE dirty[loc[p].ix]
        BY <1>0, <1>f, <1>l, <2>2, <3>2 DEF RegenLock, Goto, Lock, Holding, HasIndex
      <3>3. CASE ~dirty[loc[p].ix]
        BY <1>0, <1>f, <1>l, <2>2, <3>1, <3>3 DEF RegenLock, Goto, Holding, HasIndex
      <3> QED
        BY <3>2, <3>3
    <2>3. CASE RegenStat(p)
      BY <1>0, <1>f, <1>l, <2>3 DEF RegenStat, Goto, Holding, HasIndex, Loc
    <2>4. CASE RegenRead(p)
      <3>1. loc[p].then \in {"end", "set_mark"}
        BY <1>t, <2>4 DEF RegenRead, Regenerates
      <3>2. CASE dir = <<>>
        BY <1>0, <1>f, <1>l, <2>4, <3>1, <3>2 DEF RegenRead, Goto, Unlock, Holding, HasIndex
      <3>3. CASE dir # <<>>
        <4>1. /\ pc' = [pc EXCEPT ![p] = "regen_done"] /\ Unlock(p, {"DIR"})
              /\ \E n : loc' = [loc EXCEPT ![p].size = n]
              /\ pc[p] = "regen_read" /\ dirty' = dirty
          BY <2>4, <3>3 DEF RegenRead, Goto
        <4> QED
          BY <1>0, <1>f, <1>l, <4>1 DEF Unlock, Holding, HasIndex, Loc
      <3> QED
        BY <3>2, <3>3
    <2>5. CASE RegenDone(p)
      <3>1. loc[p].then \in {"end", "set_mark"}
        BY <1>t, <2>5 DEF RegenDone, Regenerates
      <3> QED
        BY <1>0, <1>f, <1>l, <2>5, <3>1 DEF RegenDone, Goto, Unlock, Holding, HasIndex
    <2> QED
      BY <1>1, <2>1, <2>2, <2>3, <2>4, <2>5 DEF Regen
  <1>i. ASSUME NEW s, Instead(p, s), lock' = lock, tasks' = tasks, ~HasIndex(p),
               pc[p] \in {"post_ix", "undel_ix", "del_ix"}
        PROVE  Holding(p)'
    BY <1>0, <1>f, <1>i DEF Instead, Goto, Holding, HasIndex, Loc
  <1>2. CASE Post(p)
    <2>1. CASE PostEntry(p)
      <3>1. \E s \in {"post_ix", "end", "set_mark"} : pc' = [pc EXCEPT ![p] = s]
        BY <1>a, <2>1 DEF PostEntry, Goto
      <3>2. pc[p] = "idle" /\ lock' = lock
        BY <2>1 DEF PostEntry, Begin
      <3> QED
        BY <1>0, <1>f, <3>1, <3>2 DEF Holding, HasIndex
    <2>2. CASE PostIx(p)
      <3>1. CASE Instead(p, Afterwards(loc[p].ent))
        BY <1>i, <2>2, <3>1 DEF PostIx, HasIndex
      <3>2. CASE pc' = [pc EXCEPT ![p] = "post_add"]
        BY <1>0, <1>f, <2>2, <3>2 DEF PostIx, Holding, HasIndex
      <3> QED
        BY <2>2, <3>1, <3>2 DEF PostIx, Goto
    <2>3. CASE PostAdd(p)
      BY <1>0, <1>f, <1>a, <2>3 DEF PostAdd, Goto, Holding, HasIndex
    <2> QED
      BY <1>2, <2>1, <2>2, <2>3 DEF Post
  <1>3. CASE Del(p)
    <2>1. CASE DelEntry(p)
      <3>1. PICK e : pc' = [pc EXCEPT ![p] = IF e.root THEN "del_ix" ELSE Afterwards(e)]
        BY <2>1 DEF DelEntry, Goto
      <3>2. /\ pc[p] = "idle" /\ tasks' = tasks
            /\ \/ lock' = lock
               \/ "thread" \in tasks[p] /\ Lock(p, "DIR")
        BY <2>1 DEF DelEntry, Begin
      <3> QED
        BY <1>0, <1>f, <1>a, <3>1, <3>2 DEF Holding, HasIndex, Lock
    <2>2. CASE DelIx(p)
      <3>1. CASE Instead(p, Afterwards(loc[p].ent))
        BY <1>i, <2>2, <3>1 DEF DelIx, HasIndex
      <3>2. CASE pc' = [pc EXCEPT ![p] = Afterwards(loc[p].ent)] \/ pc' = [pc EXCEPT ![p] = "del_lock"]
        <4>1. tasks' = tasks /\ lock' = lock /\ pc[p] = "del_ix"
          BY <2>2 DEF DelIx
        <4> QED
          BY <1>0, <1>f, <1>a, <3>2, <4>1 DEF Holding, HasIndex
      <3> QED
        BY <2>2, <3>1, <3>2 DEF DelIx, Goto
    <2>3. CASE DelLock(p)
      <3>1. /\ pc' = [pc EXCEPT ![p] = Afterwards(loc[p].ent)] /\ pc[p] = "del_lock"
            /\ tasks' = tasks /\ lock' = lock
        BY <2>3 DEF DelLock, Goto
      <3> QED
        BY <1>0, <1>f, <1>a, <3>1 DEF Holding, HasIndex
    <2>4. CASE SetMark(p)
      BY <1>0, <1>f, <2>4 DEF SetMark, Goto, Holding, HasIndex
    <2>5. CASE End(p)
      BY <1>0, <1>f, <2>5 DEF End, Goto, Unlock, Holding, HasIndex
    <2> QED
      BY <1>3, <2>1, <2>2, <2>3, <2>4, <2>5 DEF Del
  <1>4. CASE Undel(p)
    <2>1. CASE UndelEntry(p)
      <3>1. pc' = [pc EXCEPT ![p] = "undel_ix"] \/ pc' = [pc EXCEPT ![p] = "end"]
        BY <2>1 DEF UndelEntry, Goto
      <3>2. pc[p] = "idle" /\ lock' = lock
        BY <2>1 DEF UndelEntry, Begin
      <3> QED
        BY <1>0, <1>f, <3>1, <3>2 DEF Holding, HasIndex
    <2>2. CASE UndelIx(p)
      <3>1. CASE Instead(p, "end")
        BY <1>i, <2>2, <3>1 DEF UndelIx, HasIndex
      <3>2. CASE pc' = [pc EXCEPT ![p] = "undel_add"]
        BY <1>0, <1>f, <2>2, <3>2 DEF UndelIx, Holding, HasIndex
      <3> QED
        BY <2>2, <3>1, <3>2 DEF UndelIx, Goto
    <2>3. CASE UndelAdd(p)
      BY <1>0, <1>f, <2>3 DEF UndelAdd, Goto, Holding, HasIndex
    <2> QED
      BY <1>4, <2>1, <2>2, <2>3 DEF Undel
  <1>5. CASE Mark(p)
    <2>1. CASE MarkWrite(p)
      BY <1>0, <1>f, <2>1 DEF MarkWrite, Begin, Goto, Lock, Holding, HasIndex
    <2>2. CASE MarkDirty(p)
      BY <1>0, <1>f, <2>2 DEF MarkDirty, Goto, Holding, HasIndex
    <2>3. CASE \E k \in Kinds : MarkIxMap(p, k)
      BY <1>0, <1>f, <2>3 DEF MarkIxMap, Begin, Goto, Holding, HasIndex
    <2>4. CASE MarkIxLock(p)
      <3>1. /\ pc[p] = "ix_lock" /\ loc' = loc /\ tasks' = tasks
            /\ \/ Lock(p, loc[p].ix) /\ pc' = [pc EXCEPT ![p] = "ix_dir"]
               \/ lock' = lock /\ pc' = [pc EXCEPT ![p] = "end"]
        BY <2>4 DEF MarkIxLock, Goto
      <3> QED
        BY <1>0, <1>f, <1>l, <3>1 DEF Lock, Holding, HasIndex
    <2>5. CASE MarkIxDir(p)
      <3>1. /\ pc[p] = "ix_dir" /\ loc' = loc /\ tasks' = tasks
            /\ \/ Lock(p, "DIR") /\ pc' = [pc EXCEPT ![p] = "mark_dirty"]
               \/ lock' = lock /\ pc' = [pc EXCEPT ![p] = "end"]
        BY <2>5 DEF MarkIxDir, Goto
      <3> QED
        BY <1>0, <1>f, <1>l, <3>1 DEF Lock, Holding, HasIndex
    <2> QED
      BY <1>5, <2>1, <2>2, <2>3, <2>4, <2>5 DEF Mark
  <1>6. CASE Delete_Range(p)
    BY <1>0, <1>f, <1>6 DEF Delete_Range, RangeEntries, RangeDirty, Begin, Goto, Holding, HasIndex
  <1>7. CASE Die(p)
    BY <1>0, <1>f, <1>7 DEF Die, Goto, Unlock, Holding, HasIndex
  <1> QED
    BY <1>1, <1>2, <1>3, <1>4, <1>5, <1>6, <1>7 DEF Step

LEMMA LocksStay ==
  ASSUME TypeOK, InOrder, LocksHeld, Fits, NEW p \in Procs, Step(p)
  PROVE  \A q \in Procs : Holding(q)'
  <1>0. pc \in [Procs -> Stages] /\ loc \in [Procs -> Loc] /\ dirty \in [Kinds -> BOOLEAN]
    BY DEF TypeOK, Loc
  <1>1. \A q \in Procs : Holding(q)
    BY LocksHeldBy
  <1>2. \A q \in Procs \ {p} : pc'[q] = pc[q] /\ loc'[q] = loc[q]
    BY OthersStay DEF TypeOK
  <1>3. tasks' = tasks
    BY FilesStay
  <1>4. \A q \in Procs \ {p}, f \in Files : lock'[f] = q <=> lock[f] = q
    BY LocksOfOthers
  <1>5. Holding(p)'
    BY <1>1, OwnLocks
  <1>6. ASSUME NEW q \in Procs \ {p}
        PROVE  Holding(q)'
    <2>1. Kinds \subseteq Files /\ "DIR" \in Files /\ loc[q].ix \in Kinds /\ loc[p].ix \in Kinds
      BY <1>0 DEF Files, Kinds, Loc
    <2>2. HasIndex(q) => dirty'[loc[q].ix]
      <3>1. SUFFICES ASSUME HasIndex(q), ~dirty'[loc[q].ix] PROVE FALSE
        OBVIOUS
      <3>2. lock[loc[q].ix] = q /\ dirty[loc[q].ix]
        BY <1>1, <3>1 DEF Holding
      <3>3. pc[p] = "regen_done" /\ loc[p].ix = loc[q].ix
        BY <2>1, <3>1, <3>2, Cleans
      <3>4. lock[loc[p].ix] = p
        BY <1>1, <3>3 DEF Holding, HasIndex
      <3> QED
        BY <3>2, <3>3, <3>4
    <2> QED
      BY <1>1, <1>2, <1>3, <1>4, <2>1, <2>2 DEF Holding, HasIndex
  <1> QED
    BY <1>5, <1>6

LEMMA FitsStays ==
  ASSUME TypeOK, InOrder, LocksHeld, Fits, NEW p \in Procs, Step(p)
  PROVE  Fits'
  <1>0. /\ pc \in [Procs -> Stages] /\ loc \in [Procs -> Loc] /\ index \in [Kinds -> Seq(Entry)]
        /\ dir \in Seq(Entry)
    BY DEF TypeOK, Loc
  <1>2. \A q \in Procs \ {p} : pc'[q] = pc[q] /\ loc'[q] = loc[q]
    BY OthersStay DEF TypeOK
  <1>3. ASSUME NEW q \in Procs \ {p}, pc'[q] = "regen_done"
        PROVE  loc'[q].size <= Len(index'[loc'[q].ix])
    <2>1. loc[q].ix \in Kinds /\ lock[loc[q].ix] = q
      BY <1>0, <1>2, <1>3 DEF LocksHeld, HasIndex, Loc
    <2>2. index'[loc[q].ix] = index[loc[q].ix]
      BY <2>1, Changes, NobodyAssumption
    <2> QED
      BY <1>2, <1>3, <2>2 DEF Fits
  <1>4. ASSUME pc'[p] = "regen_done"
        PROVE  loc'[p].size <= Len(index'[loc'[p].ix])
    <2>1. RegenRead(p)
      <3>0. \A e : Afterwards(e) \in {"end", "set_mark"}
        BY DEF Afterwards
      <3>1. CASE Regen(p)
        <4>1. Regenerates(p) => loc[p].then \in {"end", "set_mark"}
          BY DEF InOrder
        <4>2. CASE RegenLock(p) \/ RegenDone(p)
          <5>1. pc'[p] \in {"regen_stat", "end", "set_mark"}
            BY <1>0, <4>1, <4>2 DEF RegenLock, RegenDone, Goto, Regenerates
          <5> QED
            BY <1>4, <5>1
        <4> QED
          BY <1>0, <1>4, <3>1, <4>2 DEF Regen, Read, RegenStat, Goto
      <3>2. CASE Post(p) \/ Del(p)
        BY <1>0, <1>4, <3>0, <3>2 DEF Post, PostEntry, PostIx, PostAdd, Del, DelEntry, DelIx, DelLock,
           SetMark, End, Instead, Goto
      <3>3. CASE Undel(p) \/ Mark(p) \/ Delete_Range(p) \/ Die(p)
        BY <1>0, <1>4, <3>3 DEF Undel, UndelEntry, UndelIx, UndelAdd, Mark, MarkWrite, MarkDirty,
           MarkIxMap, MarkIxLock, MarkIxDir, Delete_Range, RangeEntries, RangeDirty, Die, Instead, Goto
      <3> QED
        BY <3>1, <3>2, <3>3 DEF Step
    <2> DEFINE k == loc[p].ix  found == Picked(k, View(dir, loc[p].size))  rest == index[k]
               new == found \o SubSeq(rest, Len(found) + 1, Len(rest))
    <2>2. k \in Kinds /\ loc[p].size \in Nat
      BY <1>0 DEF Loc
    <2>3. found \in Seq(Entry)
      BY <1>0, <2>2, ViewType, PickedType
    <2>4. rest \in Seq(Entry)
      BY <1>0, <2>2
    <2>5. dir # <<>>
      <3>1. Regenerates(p) /\ loc[p].then \in {"end", "set_mark"}
        BY <2>1 DEF InOrder, RegenRead, Regenerates
      <3> QED
        BY <1>0, <1>4, <2>1, <3>1 DEF RegenRead, Goto
    <2>6. index' = [index EXCEPT ![k] = new] /\ loc' = [loc EXCEPT ![p].size = Len(found)]
      BY <2>1, <2>5 DEF RegenRead
    <2> HIDE DEF found, rest
    <2>7. new \in Seq(Entry) /\ Len(found) <= Len(new) /\ Len(found) \in Nat
      BY <2>3, <2>4
    <2> HIDE DEF new
    <2>8. loc'[p].size = Len(found) /\ loc'[p].ix = k
      BY <1>0, <2>6 DEF Loc
    <2> HIDE DEF k
    <2>9. index'[k] = new
      BY <1>0, <2>2, <2>6
    <2> QED
      BY <2>7, <2>8, <2>9
  <1> QED
    BY <1>3, <1>4 DEF Fits

-----------------------------------------------------------------------------
(* Types, the order within an operation, the locks. *)
Core == TypeOK /\ InOrder /\ LocksHeld /\ Fits

LEMMA CoreInit == Init => Core
  <1> SUFFICES ASSUME Init PROVE Core
    OBVIOUS
  <1>1. Old \in Seq(Entry) /\ \A k \in Kinds : Picked(k, Old) \in Seq(Entry)
    BY OldAssumption, PickedType
  <1>2. Fresh \in Loc /\ "idle" \in Stages /\ 0 \in 0 .. MaxChanges /\ {} \subseteq Entry /\ LastOld \in Nat
    BY <1>1, ZeroType, MaxIdAssumption, OldAssumption DEF Stages
  <1>3. TypeOK
    BY <1>1, <1>2 DEF Init, TypeOK, Loc
  <1>4. \A p \in Procs : pc[p] = "idle" /\ \A f \in Files : lock[f] # p
    BY NobodyAssumption DEF Init
  <1>5. InOrder /\ Fits
    BY <1>4 DEF InOrder, Fits, Regenerates
  <1>6. LocksHeld
    <2>1. Kinds \subseteq Files /\ "DIR" \in Files
      BY DEF Files
    <2> QED
      BY <1>4, <2>1 DEF LocksHeld, HasIndex
  <1> QED
    BY <1>3, <1>5, <1>6 DEF Core

LEMMA CoreStep == Core /\ [Next]_vars => Core'
  <1> SUFFICES ASSUME TypeOK, InOrder, LocksHeld, Fits, [Next]_vars PROVE Core'
    BY DEF Core
  <1>1. ASSUME NEW p \in Procs, Step(p) PROVE Core'
    <2>1. \A q \in Procs : Holding(q)'
      BY <1>1, LocksStay
    <2>2. LocksHeld'
      BY <2>1 DEF LocksHeld, Holding
    <2>3. tasks' = tasks /\ dir' \in Seq(Entry) /\ deleted' \subseteq Entry /\ lastid' \in Nat
          /\ index' \in [Kinds -> Seq(Entry)]
      BY <1>1, FilesStay
    <2>4. pc' \in [Procs -> Stages] /\ loc' \in [Procs -> Loc]
      BY <1>1, PlacesStay
    <2>5. /\ changes' \in 0 .. MaxChanges
          /\ dirty' \in [Kinds -> BOOLEAN] /\ missed' \in [Kinds -> BOOLEAN]
          /\ lock' \in [Files -> Procs \cup {Nobody}]
      BY <1>1, FlagsStay
    <2>6. \A f \in Files : lock'[f] # Nobody => pc'[lock'[f]] # "idle"
      BY <2>1, <2>5 DEF Holding
    <2>7. tasks' \in Mixes
      BY <2>3 DEF TypeOK
    <2>8. TypeOK'
      BY <2>3, <2>4, <2>5, <2>6, <2>7 DEF TypeOK, Loc
    <2> QED
      BY <1>1, <2>2, <2>8, OrderStays, FitsStays DEF Core
  <1>2. CASE Reboot
    <2>1. \A p \in Procs : pc[p] = "idle"
      BY <1>2 DEF Reboot
    <2>2. UNCHANGED <<tasks, changes, dir, deleted, lastid, index, lock, pc, loc>>
      BY <1>2 DEF Reboot
    <2>3. dirty' \in [Kinds -> BOOLEAN] /\ missed' \in [Kinds -> BOOLEAN]
      BY <1>2 DEF Reboot, Miss, TypeOK
    <2>4. TypeOK'
      BY <2>2, <2>3 DEF TypeOK
    <2>5. InOrder' /\ Fits'
      BY <2>1, <2>2 DEF InOrder, Fits, Regenerates
    <2>6. LocksHeld'
      BY <2>1, <2>2 DEF LocksHeld, HasIndex
    <2> QED
      BY <2>4, <2>5, <2>6 DEF Core
  <1>3. CASE UNCHANGED vars
    BY <1>3 DEF vars, Core, TypeOK, InOrder, LocksHeld, Fits, Regenerates, HasIndex
  <1> QED
    BY <1>1, <1>2, <1>3, Steps

(* bcache.c and article.c: the files stay files of entries, a file is not  *)
(* cut to more than it has, and only a process at work holds a lock.       *)
THEOREM IndexTypeCorrect == Spec => []TypeOK
  <1>1. Core => TypeOK
    BY DEF Core
  <1> QED
    BY <1>1, CoreInit, CoreStep, PTL DEF Spec

-----------------------------------------------------------------------------
(* No circular wait.  Two can only wait for each other when one deletes a  *)
(* thread, with the lock of .DIR, and the other has that of .ORIGIN and    *)
(* goes on to .DIR: he marks an article there, or writes .ORIGIN again.    *)
LEMMA OnlyRangesDirty ==
  ASSUME TypeOK, InOrder, OriginClean, NEW p \in Procs, Step(p), tasks' = tasks
  PROVE  OriginClean'
  <1> SUFFICES ASSUME \A q \in Procs : "range" \notin tasks'[q]
               PROVE  /\ ~dirty'["ORIGIN"]
                      /\ \A q \in Procs : pc'[q] # "range_dirty" /\ (Regenerates(q)' => loc'[q].ix = "MARK")
    BY DEF OriginClean
  <1>0. pc \in [Procs -> Stages] /\ loc \in [Procs -> Loc] /\ dirty \in [Kinds -> BOOLEAN]
        /\ "ORIGIN" \in Kinds
    BY DEF TypeOK, Loc, Kinds
  <1>2. /\ ~dirty["ORIGIN"] /\ "range" \notin tasks[p]
        /\ \A q \in Procs : pc[q] # "range_dirty" /\ (Regenerates(q) => loc[q].ix = "MARK")
    BY DEF OriginClean
  <1>3. \A q \in Procs \ {p} : pc'[q] = pc[q] /\ loc'[q] = loc[q]
    BY <1>0, OthersStay
  <1>4. \A e : Afterwards(e) \in {"end", "set_mark"}
    BY DEF Afterwards
  <1>t. Regenerates(p) => loc[p].then \in {"end", "set_mark"}
    BY DEF InOrder
  <1>d. SetDirty({"MARK"}) => ~dirty'["ORIGIN"]
    BY <1>0, <1>2 DEF SetDirty
  <1>i. \A s : ~Instead(p, s)
    BY <1>2 DEF Instead
  <1>5. ~dirty'["ORIGIN"]
    <2>1. CASE Regen(p)
      BY <1>0, <1>2, <2>1 DEF Regen, Read, RegenLock, RegenStat, RegenRead, RegenDone
    <2>2. CASE Post(p) \/ Undel(p)
      BY <1>2, <2>2 DEF Post, PostEntry, PostIx, PostAdd, Undel, UndelEntry, UndelIx, UndelAdd
    <2>3. CASE Del(p)
      BY <1>2, <1>d, <2>3 DEF Del, DelEntry, DelIx, DelLock, SetMark, End
    <2>4. CASE Mark(p)
      BY <1>2, <1>d, <2>4 DEF Mark, MarkWrite, MarkDirty, MarkIxMap, MarkIxLock, MarkIxDir
    <2>5. CASE Delete_Range(p) \/ Die(p)
      BY <1>2, <2>5 DEF Delete_Range, RangeEntries, RangeDirty, Die
    <2> QED
      BY <2>1, <2>2, <2>3, <2>4, <2>5 DEF Step
  <1>6. pc'[p] # "range_dirty" /\ (Regenerates(p)' => loc'[p].ix = "MARK")
    <2>1. CASE Regen(p)
      <3>1. CASE \E k \in Kinds : Read(p, k)
        BY <1>0, <1>2, <3>1 DEF Read, Goto, Kinds, Regenerates, Loc
      <3>2. CASE RegenLock(p) \/ RegenStat(p) \/ RegenRead(p) \/ RegenDone(p)
        <4>1. Regenerates(p) /\ loc[p].ix = "MARK" /\ loc[p].then \in {"end", "set_mark"}
          BY <1>2, <1>t, <3>2 DEF RegenLock, RegenStat, RegenRead, RegenDone, Regenerates
        <4>2. loc' = loc \/ \E n : loc' = [loc EXCEPT ![p].size = n]
          BY <3>2 DEF RegenLock, RegenStat, RegenRead, RegenDone
        <4>3. loc'[p].ix = "MARK"
          BY <1>0, <4>1, <4>2 DEF Loc
        <4>4. \E s \in {"regen_stat", "regen_read", "regen_done", "end", "set_mark"} : pc' = [pc EXCEPT ![p] = s]
          BY <3>2, <4>1 DEF RegenLock, RegenStat, RegenRead, RegenDone, Goto
        <4> QED
          BY <1>0, <4>3, <4>4
      <3> QED
        BY <2>1, <3>1, <3>2 DEF Regen
    <2>2. CASE Post(p)
      BY <1>0, <1>4, <1>i, <2>2 DEF Post, PostEntry, PostIx, PostAdd, Goto, Regenerates
    <2>3. CASE Del(p)
      BY <1>0, <1>4, <1>i, <2>3 DEF Del, DelEntry, DelIx, DelLock, SetMark, End, Goto, Regenerates
    <2>4. CASE Undel(p)
      BY <1>0, <1>i, <2>4 DEF Undel, UndelEntry, UndelIx, UndelAdd, Goto, Regenerates
    <2>5. CASE Mark(p)
      BY <1>0, <2>5 DEF Mark, MarkWrite, MarkDirty, MarkIxMap, MarkIxLock, MarkIxDir, Goto, Regenerates
    <2>6. CASE Delete_Range(p) \/ Die(p)
      BY <1>0, <1>2, <2>6 DEF Delete_Range, RangeEntries, RangeDirty, Begin, Die, Goto, Regenerates
    <2> QED
      BY <2>1, <2>2, <2>3, <2>4, <2>5, <2>6 DEF Step
  <1> QED
    BY <1>2, <1>3, <1>5, <1>6 DEF Regenerates

LEMMA OnlyMarkersThere ==
  ASSUME TypeOK, InOrder, IndexMarkers, NEW p \in Procs, Step(p), tasks' = tasks
  PROVE  IndexMarkers'
  <1>0. pc \in [Procs -> Stages] /\ loc \in [Procs -> Loc]
    BY DEF TypeOK, Loc
  <1>1. \A q \in Procs \ {p} : pc'[q] = pc[q]
    BY <1>0, OthersStay
  <1>2. \A e : Afterwards(e) \in {"end", "set_mark"}
    BY DEF Afterwards
  <1>t. Regenerates(p) => loc[p].then \in {"end", "set_mark"}
    BY DEF InOrder
  <1>3. pc'[p] \in {"ix_lock", "ix_dir"} => pc[p] = "ix_lock" \/ "mark_ix" \in tasks[p]
    <2>1. CASE Regen(p)
      <3>1. \/ \E s \in {"regen_lock", "regen_stat", "regen_read", "regen_done"} : pc' = [pc EXCEPT ![p] = s]
            \/ Regenerates(p) /\ pc' = [pc EXCEPT ![p] = loc[p].then]
        BY <2>1 DEF Regen, Read, RegenLock, RegenStat, RegenRead, RegenDone, Goto, Regenerates
      <3> QED
        BY <1>0, <1>t, <3>1
    <2>2. CASE Post(p) \/ Del(p)
      BY <1>0, <1>2, <2>2 DEF Post, PostEntry, PostIx, PostAdd, Del, DelEntry, DelIx, DelLock, SetMark,
         End, Instead, Goto
    <2>3. CASE Undel(p) \/ Delete_Range(p) \/ Die(p)
      BY <1>0, <2>3 DEF Undel, UndelEntry, UndelIx, UndelAdd, Delete_Range, RangeEntries, RangeDirty, Die,
         Instead, Goto
    <2>4. CASE Mark(p)
      <3>1. \/ pc' = [pc EXCEPT ![p] = "mark_dirty"] \/ pc' = [pc EXCEPT ![p] = "end"]
            \/ pc[p] = "ix_lock"
            \/ {"mark_ix"} \cap tasks[p] # {}
        BY <2>4 DEF Mark, MarkWrite, MarkDirty, MarkIxMap, MarkIxLock, MarkIxDir, Begin, Goto
      <3> QED
        BY <1>0, <3>1
    <2> QED
      BY <2>1, <2>2, <2>3, <2>4 DEF Step
  <1> QED
    BY <1>1, <1>3 DEF IndexMarkers

(* Two who cross: one with a lock of an index and one with that of .DIR.   *)
LEMMA NoCrossing ==
  ASSUME TypeOK, LocksHeld, OriginClean, IndexMarkers,
         \A m \in Mixes : \/ \A p \in Procs : "thread" \notin m[p]
                          \/ \A p \in Procs : m[p] \cap {"range", "mark_ix"} = {},
         NEW p \in Procs, NEW q \in Procs, NEW k \in Kinds,
         lock[k] = q, Wants(q) = "DIR", lock["DIR"] = p, Wants(p) = k
  PROVE  FALSE
  <1>0. tasks \in Mixes /\ pc \in [Procs -> Stages] /\ loc \in [Procs -> Loc]
    BY DEF TypeOK, Loc
  <1>1. loc[p].ix \in Kinds /\ loc[q].ix \in Kinds /\ "DIR" \notin Kinds /\ "none" \notin Kinds
    BY <1>0 DEF Loc, Kinds
  <1>2. "thread" \in tasks[p] /\ k = "ORIGIN"
    <2>1. pc[p] \notin {"mark_dirty", "end", "del_ix", "set_mark", "regen_stat", "regen_read"}
      BY <1>1 DEF Wants
    <2>2. /\ "thread" \in tasks[p]
          /\ pc[p] = "del_lock" \/ (pc[p] = "regen_lock" /\ loc[p].ix = "ORIGIN")
      BY <2>1 DEF LocksHeld
    <2> QED
      BY <2>2 DEF Wants
  <1>3. \A r \in Procs : "range" \notin tasks[r] /\ "mark_ix" \notin tasks[r]
    BY <1>0, <1>2
  <1>4. loc[q].ix = k /\ pc[q] \in {"regen_read", "ix_dir"}
    <2>1. loc[q].ix = k /\ (HasIndex(q) \/ pc[q] \in {"ix_dir", "mark_dirty", "end"})
      BY DEF LocksHeld
    <2> QED
      BY <1>1, <2>1 DEF Wants, HasIndex
  <1>5. CASE pc[q] = "regen_read"
    BY <1>2, <1>3, <1>4, <1>5 DEF OriginClean, Regenerates
  <1>6. CASE pc[q] = "ix_dir"
    BY <1>3, <1>6 DEF IndexMarkers
  <1> QED
    BY <1>4, <1>5, <1>6

(* article.c:172: two processes never wait for each other's locks, unless  *)
(* one deletes a thread while another marks articles in an index or cuts   *)
(* ranges out of .DIR.                                                     *)
THEOREM NobodyCrosses ==
  ASSUME \A m \in Mixes : \/ \A p \in Procs : "thread" \notin m[p]
                          \/ \A p \in Procs : m[p] \cap {"range", "mark_ix"} = {}
  PROVE  Spec => []NoCircularWait
  <1> DEFINE Inv == Core /\ OriginClean /\ IndexMarkers
  <1>1. Init => Inv
    <2>1. Init => OriginClean /\ IndexMarkers
      BY DEF Init, OriginClean, IndexMarkers, Kinds, Regenerates
    <2> QED
      BY <2>1, CoreInit
  <1>2. Inv /\ [Next]_vars => Inv'
    <2> SUFFICES ASSUME Core, OriginClean, IndexMarkers, [Next]_vars
                 PROVE  OriginClean' /\ IndexMarkers'
      BY CoreStep
    <2>1. TypeOK /\ InOrder /\ LocksHeld /\ Fits
      BY DEF Core
    <2>2. ASSUME NEW p \in Procs, Step(p)
          PROVE  OriginClean' /\ IndexMarkers'
      <3>1. tasks' = tasks
        BY <2>1, <2>2, FilesStay
      <3> QED
        BY <2>1, <2>2, <3>1, OnlyRangesDirty, OnlyMarkersThere
    <2>3. CASE Reboot
      <3>1. "ORIGIN" \in Kinds
        BY DEF Kinds
      <3> QED
        BY <2>3, <3>1 DEF Reboot, OriginClean, IndexMarkers, Regenerates
    <2>4. CASE UNCHANGED vars
      BY <2>4 DEF vars, OriginClean, IndexMarkers, Regenerates
    <2> QED
      BY <2>2, <2>3, <2>4, Steps
  <1>3. Inv => NoCircularWait
    <2> SUFFICES ASSUME TypeOK, LocksHeld, OriginClean, IndexMarkers,
                        NEW p \in Procs, NEW q \in Procs, p # q,
                        Wants(p) \in Files, lock[Wants(p)] = q, Wants(q) \in Files, lock[Wants(q)] = p
                 PROVE  FALSE
      BY DEF NoCircularWait, Core
    <2>1. CASE Wants(p) \in Kinds /\ Wants(q) = "DIR"
      BY <2>1, NoCrossing
    <2>2. CASE Wants(q) \in Kinds /\ Wants(p) = "DIR"
      BY <2>2, NoCrossing
    <2>3. CASE Wants(p) \in Kinds /\ Wants(q) \in Kinds
      <3>1. pc[q] \in {"regen_stat", "regen_read", "regen_done", "ix_dir", "mark_dirty", "end"}
        BY <2>3 DEF LocksHeld, HasIndex
      <3> QED
        BY <2>3, <3>1 DEF Wants, Kinds
    <2>4. CASE Wants(p) = "DIR" /\ Wants(q) = "DIR"
      BY <2>4
    <2> QED
      BY <2>1, <2>2, <2>3, <2>4 DEF Files
  <1> HIDE DEF Inv
  <1> QED
    BY <1>1, <1>2, <1>3, PTL DEF Spec

-----------------------------------------------------------------------------
(* .MARK is current. *)
MarkRight ==
  /\ ~dirty["MARK"] => index["MARK"] = Picked("MARK", dir)
  /\ \A p \in Procs : pc[p] = "regen_done" /\ loc[p].ix = "MARK" =>
       SubSeq(index["MARK"], 1, loc[p].size) = Picked("MARK", dir)

(* Who has changed a mark says so, or dies. *)
LEMMA StillSays ==
  ASSUME TypeOK, InOrder, NEW p \in Procs, Step(p), WillSay(p)
  PROVE  WillSay(p)' \/ SetMark(p) \/ MarkDirty(p) \/ RangeDirty(p) \/ Die(p)
  <1>0. pc \in [Procs -> Stages] /\ loc \in [Procs -> Loc]
    BY DEF TypeOK, Loc
  <1>1. Regenerates(p) => loc[p].then \in {"end", "set_mark"}
    BY DEF InOrder
  <1>2. \A e : e.marked => Afterwards(e) = "set_mark"
    BY DEF Afterwards
  <1>3. ASSUME NEW s, Instead(p, s), s = "set_mark"
        PROVE  WillSay(p)'
    BY <1>0, <1>3 DEF Instead, Goto, WillSay, Regenerates, Loc
  <1>4. CASE Regen(p)
    <2>1. Regenerates(p)
      BY <1>4 DEF Regen, Read, RegenLock, RegenStat, RegenRead, RegenDone, WillSay, Regenerates
    <2>2. loc[p].then = "set_mark"
      BY <1>1, <2>1 DEF WillSay, Regenerates
    <2>3. ~(\E k \in Kinds : Read(p, k))
      BY <2>1 DEF Read, Regenerates
    <2>4. loc' = loc \/ \E n : loc' = [loc EXCEPT ![p].size = n]
      BY <1>4, <2>3 DEF Regen, RegenLock, RegenStat, RegenRead, RegenDone
    <2>5. loc'[p].then = "set_mark"
      BY <1>0, <2>2, <2>4 DEF Loc
    <2>6. \E s \in {"regen_stat", "regen_read", "regen_done", "set_mark"} : pc' = [pc EXCEPT ![p] = s]
      BY <1>4, <2>2, <2>3 DEF Regen, RegenLock, RegenStat, RegenRead, RegenDone, Goto
    <2> QED
      BY <1>0, <2>5, <2>6 DEF WillSay, Regenerates
  <1>5. CASE Post(p)
    <2>1. pc[p] \in {"post_ix", "post_add"} /\ loc[p].ent.marked
      BY <1>5 DEF Post, PostEntry, PostIx, PostAdd, Begin, WillSay, Regenerates
    <2>2. \/ Instead(p, Afterwards(loc[p].ent))
          \/ loc' = loc /\ pc' = [pc EXCEPT ![p] = "post_add"]
          \/ loc' = loc /\ pc' = [pc EXCEPT ![p] = Afterwards(loc[p].ent)]
      BY <1>5, <2>1 DEF Post, PostEntry, PostIx, PostAdd, Begin, Goto
    <2> QED
      BY <1>0, <1>2, <1>3, <2>1, <2>2 DEF WillSay
  <1>6. CASE DelIx(p) \/ DelLock(p)
    <2>1. pc[p] \in {"del_ix", "del_lock"} /\ loc[p].ent.marked
      BY <1>6 DEF DelIx, DelLock, WillSay, Regenerates
    <2>2. \/ Instead(p, Afterwards(loc[p].ent))
          \/ pc' = [pc EXCEPT ![p] = Afterwards(loc[p].ent)]
          \/ /\ pc' = [pc EXCEPT ![p] = "del_lock"]
             /\ \E n : loc' = [loc EXCEPT ![p].size = n]
      BY <1>6 DEF DelIx, DelLock, Goto
    <2> QED
      BY <1>0, <1>2, <1>3, <2>1, <2>2 DEF WillSay, Loc
  <1>7. CASE DelEntry(p) \/ End(p) \/ Undel(p)
    BY <1>7 DEF DelEntry, End, Undel, UndelEntry, UndelIx, UndelAdd, Begin, WillSay, Regenerates
  <1>8. CASE Mark(p) \/ Delete_Range(p)
    BY <1>8 DEF Mark, MarkWrite, MarkIxMap, MarkIxLock, MarkIxDir, Delete_Range, RangeEntries, Begin,
       WillSay, Regenerates
  <1> QED
    BY <1>4, <1>5, <1>6, <1>7, <1>8 DEF Step, Del

(* Nothing changes for .MARK. *)
LEMMA Untouched ==
  ASSUME MarkRight, index'["MARK"] = index["MARK"], Picked("MARK", dir') = Picked("MARK", dir),
         dirty["MARK"] => dirty'["MARK"],
         \A q \in Procs : pc'[q] = "regen_done" /\ loc'[q].ix = "MARK" =>
           pc[q] = "regen_done" /\ loc'[q] = loc[q]
  PROVE  MarkRight'
  BY DEF MarkRight

(* The flag of .MARK is set: nobody is about to clear it. *)
LEMMA Told ==
  ASSUME TypeOK, "cleared" \in Windows, NEW ks, "MARK" \in ks, SetDirty(ks), ~missed'["MARK"],
         NEW p \in Procs, pc'[p] # "regen_done",
         \A q \in Procs \ {p} : pc'[q] = pc[q] /\ loc'[q] = loc[q]
  PROVE  MarkRight'
  <1>1. "MARK" \in Kinds
    BY DEF Kinds
  <1>2. dirty'["MARK"] /\ ~AboutToClear("MARK")
    BY <1>1 DEF SetDirty, Miss
  <1>3. \A q \in Procs : ~(pc'[q] = "regen_done" /\ loc'[q].ix = "MARK")
    BY <1>2 DEF AboutToClear
  <1> QED
    BY <1>2, <1>3 DEF MarkRight

(* What got lost stays lost until the index is written again. *)
LEMMA MissesStay ==
  ASSUME TypeOK, NEW p \in Procs, Step(p), NEW k \in Kinds, missed[k], ~missed'[k]
  PROVE  RegenRead(p) /\ dir # <<>> /\ loc[p].ix = k
  <1>0. missed \in [Kinds -> BOOLEAN]
    BY DEF TypeOK
  <1>1. \A w, ks : ~Miss(w, ks)
    BY <1>0 DEF Miss
  <1>2. missed' # missed /\ (\A ks : ~SetDirty(ks)) /\ (\A s : ~Instead(p, s))
    BY <1>1 DEF SetDirty, Instead
  <1>3. CASE RegenRead(p)
    <2>1. dir # <<>>
      BY <1>2, <1>3 DEF RegenRead
    <2>2. \E b : missed' = [missed EXCEPT ![loc[p].ix] = b]
      BY <1>3, <2>1 DEF RegenRead
    <2> QED
      BY <1>0, <1>3, <2>1, <2>2
  <1>4. CASE (\E i \in Kinds : Read(p, i)) \/ RegenLock(p) \/ RegenStat(p) \/ RegenDone(p)
    BY <1>2, <1>4 DEF Read, RegenLock, RegenStat, RegenDone
  <1>5. CASE Post(p) \/ Del(p)
    BY <1>1, <1>2, <1>5 DEF Post, PostEntry, PostIx, PostAdd, Del, DelEntry, DelIx, DelLock, SetMark, End
  <1>6. CASE UndelEntry(p)
    <2>1. PICK e \in deleted :
            missed' = [i \in Kinds |->
              \/ missed[i]
              \/ i = "MARK" /\ e.marked /\ "unmarked" \in Windows
              \/ /\ i = "ORIGIN" /\ "half" \in Windows
                 /\ \E q \in Procs : Removing(q, e.id)]
      BY <1>6 DEF UndelEntry
    <2> QED
      BY <2>1
  <1>7. CASE UndelIx(p) \/ UndelAdd(p)
    BY <1>1, <1>2, <1>7 DEF UndelIx, UndelAdd
  <1>8. CASE Mark(p)
    BY <1>1, <1>2, <1>8 DEF Mark, MarkWrite, MarkDirty, MarkIxMap, MarkIxLock, MarkIxDir
  <1>9. CASE Delete_Range(p) \/ Die(p)
    BY <1>1, <1>2, <1>9 DEF Delete_Range, RangeEntries, RangeDirty, Die
  <1> QED
    BY <1>3, <1>4, <1>5, <1>6, <1>7, <1>8, <1>9 DEF Step, Regen, Undel

(* .MARK is written from a .DIR that is as long as fstat said. *)
LEMMA MarkWritten ==
  ASSUME TypeOK, LocksHeld, "stat" \in Windows, NEW p \in Procs, RegenRead(p),
         dir # <<>>, loc[p].ix = "MARK", ~missed'["MARK"],
         \A q \in Procs \ {p} : pc'[q] = pc[q] /\ loc'[q] = loc[q]
  PROVE  MarkRight'
  <1>0. /\ loc \in [Procs -> Loc] /\ dir \in Seq(Entry) /\ index \in [Kinds -> Seq(Entry)]
        /\ missed \in [Kinds -> BOOLEAN] /\ dirty \in [Kinds -> BOOLEAN] /\ "MARK" \in Kinds
    BY DEF TypeOK, Loc, Kinds
  <1>1. lock["MARK"] = p /\ dirty["MARK"]
    BY DEF RegenRead, LocksHeld, HasIndex
  <1>2. \A q \in Procs \ {p} : ~(pc'[q] = "regen_done" /\ loc'[q].ix = "MARK")
    BY <1>1 DEF LocksHeld, HasIndex
  <1> DEFINE found == Picked("MARK", View(dir, loc[p].size))
             rest == SubSeq(index["MARK"], Len(found) + 1, Len(index["MARK"]))
  <1>3. /\ index' = [index EXCEPT !["MARK"] = found \o rest]
        /\ missed' = [missed EXCEPT !["MARK"] = loc[p].size # Len(dir)]
        /\ loc' = [loc EXCEPT ![p].size = Len(found)] /\ dir' = dir /\ dirty' = dirty
    <2>1. /\ index' = [index EXCEPT !["MARK"] = found \o rest]
          /\ loc' = [loc EXCEPT ![p].size = Len(found)] /\ dir' = dir /\ dirty' = dirty
      BY DEF RegenRead
    <2>2. missed' = [missed EXCEPT !["MARK"] =
               \/ "stat" \in Windows /\ loc[p].size # Len(dir)
               \/ /\ "half" \in Windows /\ "MARK" = "ORIGIN"
                  /\ \E q \in Procs :
                       LET id == loc[q].ent.id IN
                       Adding(q, id) \/ (Removing(q, id) /\ id \in Ids(dir))]
      BY DEF RegenRead
    <2> HIDE DEF found
    <2> QED
      BY <1>0, <2>1, <2>2
  <1>4. loc[p].size = Len(dir)
    BY <1>0, <1>3
  <1>5. found = Picked("MARK", dir) /\ found \in Seq(Entry)
    <2>1. View(dir, loc[p].size) = dir
      BY <1>0, <1>4, ViewType
    <2> QED
      BY <1>0, <2>1, PickedType
  <1>6. index["MARK"] \in Seq(Entry)
    BY <1>0
  <1> HIDE DEF found
  <1>7. rest \in Seq(Entry)
    BY <1>5, <1>6
  <1> HIDE DEF rest
  <1>8. index'["MARK"] = found \o rest /\ loc'[p].size = Len(found)
    BY <1>0, <1>3 DEF Loc
  <1>9. SubSeq(found \o rest, 1, Len(found)) = found
    BY <1>5, <1>7
  <1>10. SubSeq(index'["MARK"], 1, loc'[p].size) = Picked("MARK", dir')
    BY <1>3, <1>5, <1>8, <1>9
  <1> QED
    BY <1>1, <1>2, <1>3, <1>10 DEF MarkRight

LEMMA MarkStays ==
  ASSUME Core, MarkInv, {"cleared", "stat", "unmarked", "death"} \subseteq Windows,
         NEW p \in Procs, Step(p), ~missed'["MARK"], \A q \in Procs : ~WillSay(q)'
  PROVE  MarkRight'
  <1>t. TypeOK /\ InOrder /\ LocksHeld /\ Fits
    BY DEF Core
  <1>0. /\ pc \in [Procs -> Stages] /\ loc \in [Procs -> Loc] /\ dir \in Seq(Entry)
        /\ deleted \subseteq Entry /\ index \in [Kinds -> Seq(Entry)] /\ dirty \in [Kinds -> BOOLEAN]
        /\ "MARK" \in Kinds
    BY <1>t DEF TypeOK, Loc, Kinds
  <1>1. \A q \in Procs \ {p} : pc'[q] = pc[q] /\ loc'[q] = loc[q]
    BY <1>0, OthersStay
  <1>a. \A e : Afterwards(e) \in {"end", "set_mark"} /\ (e.marked => Afterwards(e) = "set_mark")
    BY DEF Afterwards
  <1>r. Regenerates(p) => loc[p].then \in {"end", "set_mark"}
    BY <1>t DEF InOrder
  <1>s. ASSUME NEW ks, "MARK" \in ks, SetDirty(ks), pc'[p] # "regen_done" PROVE MarkRight'
    BY <1>1, <1>s, <1>t, Told
  <1>2. CASE RegenRead(p) /\ dir # <<>> /\ loc[p].ix = "MARK"
    BY <1>1, <1>2, <1>t, MarkWritten
  <1>3. CASE SetMark(p) \/ MarkDirty(p) \/ RangeDirty(p)
    <2>1. pc' = [pc EXCEPT ![p] = "end"] /\ \E ks : "MARK" \in ks /\ SetDirty(ks)
      BY <1>0, <1>3 DEF SetMark, MarkDirty, RangeDirty, Goto
    <2> QED
      BY <1>0, <1>s, <2>1
  <1>4. CASE Die(p) /\ WillSay(p)
    <2>1. Owes(p, "MARK")
      BY <1>4, <1>t DEF WillSay, Owes, InOrder, Regenerates
    <2>2. missed'["MARK"]
      BY <1>0, <1>4, <2>1 DEF Die, Miss
    <2> QED
      BY <2>2
  <1>5. ASSUME ~(RegenRead(p) /\ dir # <<>> /\ loc[p].ix = "MARK"),
               ~(SetMark(p) \/ MarkDirty(p) \/ RangeDirty(p)), ~(Die(p) /\ WillSay(p))
        PROVE  MarkRight'
    <2>m. ~missed["MARK"]
      BY <1>0, <1>5, <1>t, MissesStay
    <2>1. ~missed["MARK"] /\ ~WillSay(p) /\ \A q \in Procs \ {p} : ~WillSay(q)
      BY <1>1, <1>5, <1>t, <2>m, StillSays DEF WillSay, Regenerates
    <2>2. MarkRight
      BY <2>1 DEF MarkInv, MarkRight
    <2>3. ASSUME index'["MARK"] = index["MARK"], Picked("MARK", dir') = Picked("MARK", dir),
                 dirty["MARK"] => dirty'["MARK"], pc'[p] # "regen_done" \/ loc'[p].ix # "MARK"
          PROVE  MarkRight'
      BY <1>1, <2>2, <2>3, Untouched
    <2>4. CASE Regen(p)
      <3>1. CASE RegenDone(p) /\ loc[p].ix = "MARK"
        <4>1. pc[p] = "regen_done" /\ index' = [index EXCEPT !["MARK"] = SubSeq(@, 1, loc[p].size)] /\ dir' = dir
          BY <3>1 DEF RegenDone
        <4>2. index'["MARK"] = Picked("MARK", dir')
          BY <1>0, <2>2, <3>1, <4>1 DEF MarkRight
        <4>3. lock["MARK"] = p
          BY <1>t, <3>1, <4>1 DEF LocksHeld, HasIndex
        <4>4. \A q \in Procs \ {p} : ~(pc[q] = "regen_done" /\ loc[q].ix = "MARK")
          BY <1>t, <4>3 DEF LocksHeld, HasIndex
        <4>5. pc'[p] # "regen_done"
          BY <1>0, <1>r, <3>1 DEF RegenDone, Goto, Regenerates
        <4> QED
          BY <1>1, <4>2, <4>4, <4>5 DEF MarkRight
      <3>2. CASE RegenDone(p) /\ loc[p].ix # "MARK"
        <4>1. pc'[p] # "regen_done"
          BY <1>0, <1>r, <3>2 DEF RegenDone, Goto, Regenerates
        <4> QED
          BY <1>0, <2>3, <3>2, <4>1 DEF RegenDone
      <3>3. CASE RegenRead(p)
        <4>1. CASE dir = <<>>
          <5>1. pc'[p] # "regen_done"
            BY <1>0, <1>r, <3>3, <4>1 DEF RegenRead, Goto, Regenerates
          <5> QED
            BY <2>3, <3>3, <4>1, <5>1 DEF RegenRead
        <4>2. CASE dir # <<>>
          <5>1. loc[p].ix # "MARK"
            BY <1>5, <3>3, <4>2
          <5>2. /\ \E s : index' = [index EXCEPT ![loc[p].ix] = s]
                /\ \E n : loc' = [loc EXCEPT ![p].size = n]
                /\ dir' = dir /\ dirty' = dirty
            BY <3>3, <4>2 DEF RegenRead
          <5>3. index'["MARK"] = index["MARK"] /\ loc'[p].ix # "MARK"
            BY <1>0, <5>1, <5>2 DEF Loc
          <5> QED
            BY <2>3, <5>2, <5>3
        <4> QED
          BY <4>1, <4>2
      <3>4. CASE (\E k \in Kinds : Read(p, k)) \/ RegenLock(p) \/ RegenStat(p)
        <4>1. pc'[p] # "regen_done"
          <5>1. RegenLock(p) => loc[p].then \in {"end", "set_mark"}
            BY <1>r DEF RegenLock, Regenerates
          <5> QED
            BY <1>0, <3>4, <5>1 DEF Read, RegenLock, RegenStat, Goto
        <4>2. index' = index /\ dir' = dir /\ dirty' = dirty
          BY <3>4 DEF Read, RegenLock, RegenStat
        <4> QED
          BY <2>3, <4>1, <4>2
      <3> QED
        BY <2>4, <3>1, <3>2, <3>3, <3>4 DEF Regen
    <2>5. CASE PostEntry(p)
      <3>1. PICK root \in BOOLEAN, marked \in BOOLEAN :
              LET e == [id |-> lastid + 1, root |-> root, marked |-> marked] IN
              /\ dir' = Append(dir, e) /\ loc' = [loc EXCEPT ![p].ent = e]
              /\ pc' = [pc EXCEPT ![p] = IF root THEN "post_ix" ELSE Afterwards(e)]
        BY <2>5 DEF PostEntry, Goto
      <3> DEFINE e == [id |-> lastid + 1, root |-> root, marked |-> marked]
      <3>2. e \in Entry /\ e.marked = marked
        BY <1>t DEF Entry, TypeOK
      <3>3. /\ dir' = Append(dir, e) /\ loc' = [loc EXCEPT ![p].ent = e]
            /\ pc' = [pc EXCEPT ![p] = IF root THEN "post_ix" ELSE Afterwards(e)]
        BY <3>1
      <3> HIDE DEF e
      <3>4. ~e.marked
        BY <1>0, <1>a, <3>3 DEF WillSay, Loc
      <3>5. Picked("MARK", dir') = Picked("MARK", dir)
        BY <1>0, <3>2, <3>3, <3>4, PickedAppend DEF Belongs
      <3>6. pc'[p] # "regen_done"
        BY <1>0, <1>a, <3>3
      <3>7. index' = index /\ dirty' = dirty
        BY <2>5 DEF PostEntry
      <3> QED
        BY <2>3, <3>5, <3>6, <3>7
    <2>6. CASE DelEntry(p)
      <3>1. PICK i \in DOMAIN dir :
              /\ dir' = RemoveAt(dir, i) /\ loc' = [loc EXCEPT ![p].ent = dir[i]]
              /\ pc' = [pc EXCEPT ![p] = IF dir[i].root THEN "del_ix" ELSE Afterwards(dir[i])]
        BY <2>6 DEF DelEntry, Goto
      <3>2. ~dir[i].marked
        BY <1>0, <1>a, <3>1 DEF WillSay, Loc
      <3>3. Picked("MARK", dir') = Picked("MARK", dir)
        BY <1>0, <3>1, <3>2, RemovedUnseen DEF Belongs
      <3>4. pc'[p] # "regen_done"
        BY <1>0, <1>a, <3>1
      <3>5. index' = index /\ dirty' = dirty
        BY <2>6 DEF DelEntry
      <3> QED
        BY <2>3, <3>3, <3>4, <3>5
    <2>7. CASE UndelEntry(p)
      <3>1. PICK e \in deleted :
              LET new == IF dir = <<>> THEN [e EXCEPT !.id = lastid + 1, !.root = TRUE] ELSE e IN
              /\ Insert(new)
              /\ missed' = [k \in Kinds |->
                   \/ missed[k]
                   \/ k = "MARK" /\ e.marked /\ "unmarked" \in Windows
                   \/ /\ k = "ORIGIN" /\ "half" \in Windows
                      /\ \E q \in Procs : Removing(q, e.id)]
        BY <2>7 DEF UndelEntry
      <3> DEFINE new == IF dir = <<>> THEN [e EXCEPT !.id = lastid + 1, !.root = TRUE] ELSE e
      <3>2. ~e.marked
        BY <1>0, <3>1
      <3>3. new \in Entry /\ ~new.marked
        <4>1. e \in Entry /\ lastid + 1 \in Nat
          BY <1>t DEF TypeOK
        <4> QED
          BY <3>2, <4>1, EntryChanged
      <3>4. Insert(new)
        BY <3>1
      <3> HIDE DEF new
      <3>5. Picked("MARK", dir') = Picked("MARK", dir)
        <4>1. CASE dir = <<>> /\ dir' = <<new>>
          <5>1. dir' = Append(dir, new)
            BY <4>1
          <5> QED
            BY <1>0, <3>3, <5>1, PickedAppend DEF Belongs
        <4>2. CASE \E i \in Gaps(dir, new.id) : dir' = InsertAt(dir, i, new)
          <5>1. PICK i \in 1 .. Len(dir) + 1 : dir' = InsertAt(dir, i, new)
            BY <4>2 DEF Gaps
          <5> QED
            BY <1>0, <3>3, <5>1, InsertedUnseen DEF Belongs
        <4> QED
          BY <3>4, <4>1, <4>2 DEF Insert
      <3>6. pc'[p] # "regen_done" /\ index' = index /\ dirty' = dirty
        BY <1>0, <2>7 DEF UndelEntry, Goto
      <3> QED
        BY <2>3, <3>5, <3>6
    <2>8. CASE PostIx(p) \/ PostAdd(p) \/ DelIx(p) \/ DelLock(p) \/ End(p) \/ UndelIx(p) \/ UndelAdd(p)
      <3>1. pc'[p] # "regen_done"
        BY <1>0, <1>a, <2>8 DEF PostIx, PostAdd, DelIx, DelLock, End, UndelIx, UndelAdd, Instead, Goto
      <3>2. dir' = dir /\ dirty' = dirty
        BY <2>8 DEF PostIx, PostAdd, DelIx, DelLock, End, UndelIx, UndelAdd
      <3>3. index' = index \/ \E s : index' = [index EXCEPT !["ORIGIN"] = s]
        BY <2>8 DEF PostIx, PostAdd, DelIx, DelLock, End, UndelIx, UndelAdd
      <3>4. index'["MARK"] = index["MARK"]
        BY <1>0, <3>3
      <3> QED
        BY <2>3, <3>1, <3>2, <3>4
    <2>9. CASE MarkWrite(p) \/ RangeEntries(p)
      <3>1. pc'[p] \in {"mark_dirty", "range_dirty"}
        BY <1>0, <2>9 DEF MarkWrite, RangeEntries, Goto
      <3> QED
        BY <3>1 DEF WillSay
    <2>10. CASE \E k \in Kinds : MarkIxMap(p, k)
      <3>1. pc'[p] # "regen_done" /\ dir' = dir /\ dirty' = dirty /\ index' = index
        BY <1>0, <2>10 DEF MarkIxMap, Goto
      <3> QED
        BY <2>3, <3>1
    <2>11. CASE MarkIxLock(p)
      <3>1. /\ dir' = dir /\ pc'[p] # "regen_done"
            /\ SetDirty({"MARK"}) \/ (index' = index /\ dirty' = dirty)
        BY <1>0, <2>11 DEF MarkIxLock, Goto
      <3> QED
        BY <1>s, <2>3, <3>1
    <2>12. CASE MarkIxDir(p)
      <3>1. \/ pc' = [pc EXCEPT ![p] = "mark_dirty"]
            \/ pc' = [pc EXCEPT ![p] = "end"] /\ dir' = dir
        BY <2>12 DEF MarkIxDir, Goto
      <3>2. pc'[p] # "mark_dirty"
        BY DEF WillSay
      <3>3. index' = index /\ dirty' = dirty
        BY <2>12 DEF MarkIxDir
      <3> QED
        BY <1>0, <2>3, <3>1, <3>2, <3>3
    <2>13. CASE Die(p)
      BY <1>0, <2>3, <2>13 DEF Die, Goto
    <2> QED
      BY <1>5, <2>4, <2>5, <2>6, <2>7, <2>8, <2>9, <2>10, <2>11, <2>12, <2>13
         DEF Step, Post, Del, Undel, Mark, Delete_Range
  <1> QED
    BY <1>2, <1>3, <1>4, <1>5

(* bcache.c:667, 724: a clean .MARK lists the marked articles of .DIR, in  *)
(* its order, when nobody is at work, whoever did what before, if no       *)
(* change of a mark fell into one of the four windows that concern it.     *)
THEOREM MarkIsCurrent ==
  ASSUME {"cleared", "stat", "unmarked", "death"} \subseteq Windows
  PROVE  Spec => []MarkCurrent
  <1>1. Init => Core /\ MarkInv
    <2>1. Init => MarkInv
      BY DEF Init, MarkInv, Kinds
    <2> QED
      BY <2>1, CoreInit
  <1>2. Core /\ MarkInv /\ [Next]_vars => Core' /\ MarkInv'
    <2> SUFFICES ASSUME Core, MarkInv, [Next]_vars PROVE MarkInv'
      BY CoreStep
    <2>1. ASSUME NEW p \in Procs, Step(p) PROVE MarkInv'
      <3>1. ~missed'["MARK"] /\ (\A q \in Procs : ~WillSay(q)') => MarkRight'
        BY <2>1, MarkStays
      <3> QED
        BY <3>1 DEF MarkInv, MarkRight
    <2>2. CASE Reboot
      <3>1. missed'["MARK"] = (missed["MARK"] \/ dirty["MARK"])
        BY <2>2 DEF Reboot, Miss, Kinds
      <3>2. dir' = dir /\ index' = index /\ pc' = pc /\ loc' = loc
        BY <2>2 DEF Reboot
      <3> QED
        BY <3>1, <3>2 DEF MarkInv, WillSay, Regenerates
    <2>3. CASE UNCHANGED vars
      BY <2>3 DEF vars, MarkInv, WillSay, Regenerates
    <2> QED
      BY <2>1, <2>2, <2>3, Steps
  <1>3. Core /\ MarkInv => MarkCurrent
    BY DEF MarkInv, MarkCurrent, Quiet, WillSay, Regenerates
  <1> QED
    BY <1>1, <1>2, <1>3, PTL DEF Spec

-----------------------------------------------------------------------------
(* Files whose ids rise. *)
LEMMA IdsAre ==
  ASSUME NEW s, NEW id
  PROVE  id \in Ids(s) <=> \E i \in DOMAIN s : s[i].id = id
  BY DEF Ids, Range

LEMMA RisingRemove ==
  ASSUME NEW s \in Seq(Entry), NEW i \in DOMAIN s, Rising(s)
  PROVE  LET t == RemoveAt(s, i) IN
         /\ Rising(t) /\ Range(t) = Range(s) \ {s[i]} /\ Ids(t) = Ids(s) \ {s[i].id}
  <1> DEFINE t == RemoveAt(s, i)  n == Len(s)
  <1>0. n \in Nat /\ i \in 1 .. n /\ DOMAIN s = 1 .. n /\ \A j \in 1 .. n : s[j].id \in Nat
    <2>1. \A j \in 1 .. n : s[j] \in Entry
      OBVIOUS
    <2> QED
      BY <2>1 DEF Entry
  <1> DEFINE from(k) == IF k < i THEN k ELSE k + 1
  <1>1. /\ DOMAIN t = 1 .. n - 1
        /\ \A k \in DOMAIN t : t[k] = s[from(k)]
    BY DEF RemoveAt
  <1> HIDE DEF t
  <1>2. \A k \in DOMAIN t : from(k) \in DOMAIN s \ {i}
    BY <1>0, <1>1
  <1>3. \A k, l \in DOMAIN t : k < l => from(k) < from(l)
    BY <1>0, <1>1
  <1>4. \A j \in DOMAIN s \ {i} : \E k \in DOMAIN t : from(k) = j
    <2> TAKE j \in DOMAIN s \ {i}
    <2>1. CASE j < i
      BY <1>0, <1>1, <2>1
    <2>2. CASE j > i
      <3>1. j - 1 \in DOMAIN t /\ from(j - 1) = j
        BY <1>0, <1>1, <2>2
      <3> HIDE DEF from
      <3> QED
        BY <3>1
    <2> QED
      BY <1>0, <2>1, <2>2
  <1> HIDE DEF from
  <1>5. Rising(t)
    BY <1>1, <1>2, <1>3 DEF Rising
  <1>6. \A j \in DOMAIN s \ {i} : s[j].id # s[i].id
    <2> TAKE j \in DOMAIN s \ {i}
    <2>1. s[j].id \in Nat /\ s[i].id \in Nat /\ (j < i \/ i < j)
      BY <1>0
    <2>2. s[j].id < s[i].id \/ s[i].id < s[j].id
      BY <2>1 DEF Rising
    <2> QED
      BY <2>1, <2>2
  <1>7. Range(t) = Range(s) \ {s[i]}
    BY <1>1, <1>2, <1>4, <1>6 DEF Range
  <1>8. \A e \in Range(s) : e.id = s[i].id => e = s[i]
    BY <1>6 DEF Range
  <1>9. Ids(t) = Ids(s) \ {s[i].id}
    <2>1. s[i] \in Range(s)
      BY DEF Range
    <2> QED
      BY <1>7, <1>8, <2>1 DEF Ids
  <1> QED
    BY <1>5, <1>7, <1>9 DEF t

LEMMA RisingInsert ==
  ASSUME NEW s \in Seq(Entry), NEW e \in Entry, NEW i \in Gaps(s, e.id), Rising(s)
  PROVE  LET t == InsertAt(s, i, e) IN
         /\ Rising(t) /\ Range(t) = Range(s) \cup {e} /\ Ids(t) = Ids(s) \cup {e.id}
         /\ e.id \notin Ids(s)
  <1> DEFINE t == InsertAt(s, i, e)  n == Len(s)
  <1>0. /\ n \in Nat /\ i \in 1 .. n + 1 /\ DOMAIN s = 1 .. n /\ e.id \in Nat
        /\ \A j \in 1 .. n : s[j].id \in Nat
    <2>1. \A j \in 1 .. n : s[j] \in Entry
      OBVIOUS
    <2> QED
      BY <2>1 DEF Entry, Gaps
  <1>g. (i > 1 => s[i - 1].id < e.id) /\ (i <= n => e.id < s[i].id)
    BY DEF Gaps
  <1>1. /\ DOMAIN t = 1 .. n + 1
        /\ \A k \in 1 .. i - 1 : t[k] = s[k]
        /\ t[i] = e
        /\ \A k \in i + 1 .. n + 1 : t[k] = s[k - 1]
    <2> DEFINE a == SubSeq(s, 1, i - 1)  b == SubSeq(s, i, Len(s))
    <2>1. a \in Seq(Entry) /\ Len(a) = i - 1 /\ \A k \in 1 .. i - 1 : a[k] = s[k]
      BY <1>0
    <2>2. b \in Seq(Entry) /\ Len(b) = n - i + 1 /\ \A k \in 1 .. n - i + 1 : b[k] = s[i - 1 + k]
      BY <1>0
    <2>3. t = Append(a, e) \o b
      BY <1>0, InsertAtType
    <2> HIDE DEF a, b, t
    <2>4. Append(a, e) \in Seq(Entry) /\ Len(Append(a, e)) = i
          /\ Append(a, e)[i] = e /\ \A k \in 1 .. i - 1 : Append(a, e)[k] = s[k]
      BY <1>0, <2>1
    <2> DEFINE c == Append(a, e)
    <2> HIDE DEF c
    <2>5. Len(c) + Len(b) = n + 1
      BY <1>0, <2>2, <2>4 DEF c
    <2>6. t \in Seq(Entry) /\ Len(t) = n + 1
          /\ \A k \in 1 .. n + 1 : t[k] = IF k <= i THEN c[k] ELSE b[k - i]
      <3>1. /\ c \o b \in Seq(Entry) /\ Len(c \o b) = Len(c) + Len(b)
            /\ \A k \in 1 .. Len(c) + Len(b) : (c \o b)[k] = IF k <= Len(c) THEN c[k] ELSE b[k - Len(c)]
        BY <2>2, <2>4, ConcatProperties DEF c
      <3> HIDE DEF n
      <3> QED
        BY <2>3, <2>4, <2>5, <3>1 DEF c
    <2>7. \A k \in i + 1 .. n + 1 : t[k] = s[k - 1]
      <3> TAKE k \in i + 1 .. n + 1
      <3>1. k \in 1 .. n + 1 /\ ~(k <= i) /\ k - i \in 1 .. n - i + 1 /\ i - 1 + (k - i) = k - 1
        BY <1>0
      <3> QED
        BY <2>2, <2>6, <3>1
    <2>8. \A k \in 1 .. i : t[k] = c[k]
      BY <1>0, <2>6
    <2>9. i \in 1 .. i /\ \A k \in 1 .. i - 1 : k \in 1 .. i
      BY <1>0
    <2> QED
      BY <2>4, <2>6, <2>7, <2>8, <2>9 DEF c
  <1> HIDE DEF t
  <1>2. \A j \in 1 .. i - 1 : s[j].id < e.id
    <2> TAKE j \in 1 .. i - 1
    <2>1. i > 1 /\ i - 1 \in 1 .. n /\ j \in 1 .. n /\ (j < i - 1 \/ j = i - 1)
      BY <1>0
    <2>2. s[j].id <= s[i - 1].id
      BY <1>0, <2>1 DEF Rising
    <2> QED
      BY <1>0, <1>g, <2>1, <2>2
  <1>3. \A j \in i .. n : e.id < s[j].id
    <2> TAKE j \in i .. n
    <2>1. i <= n /\ i \in 1 .. n /\ j \in 1 .. n /\ (i < j \/ j = i)
      BY <1>0
    <2>2. s[i].id <= s[j].id
      BY <1>0, <2>1 DEF Rising
    <2> QED
      BY <1>0, <1>g, <2>1, <2>2
  <1>4. ASSUME NEW k \in DOMAIN t, NEW l \in DOMAIN t, k < l PROVE t[k].id < t[l].id
    <2>0. k \in 1 .. n + 1 /\ l \in 1 .. n + 1
      BY <1>1
    <2>1. CASE l < i
      <3>1. k \in 1 .. i - 1 /\ l \in 1 .. i - 1 /\ k \in 1 .. n /\ l \in 1 .. n
        BY <1>0, <1>4, <2>0, <2>1
      <3> QED
        BY <1>0, <1>1, <1>4, <3>1 DEF Rising
    <2>2. CASE l = i
      <3>1. k \in 1 .. i - 1
        BY <1>0, <1>4, <2>0, <2>2
      <3> QED
        BY <1>1, <1>2, <2>2, <3>1
    <2>3. CASE l > i
      <3>1. l \in i + 1 .. n + 1 /\ l - 1 \in i .. n /\ l - 1 \in 1 .. n
        BY <1>0, <2>0, <2>3
      <3>2. t[l] = s[l - 1] /\ e.id < s[l - 1].id
        BY <1>1, <1>3, <3>1
      <3>3. CASE k < i
        <4>1. k \in 1 .. i - 1 /\ k \in 1 .. n /\ k < l - 1
          BY <1>0, <2>0, <2>3, <3>3
        <4> QED
          BY <1>0, <1>1, <3>1, <3>2, <4>1 DEF Rising
      <3>4. CASE k = i
        BY <1>1, <3>2, <3>4
      <3>5. CASE k > i
        <4>1. k \in i + 1 .. n + 1 /\ k - 1 \in 1 .. n /\ k - 1 < l - 1
          BY <1>0, <1>4, <2>0, <3>5
        <4>2. t[k] = s[k - 1]
          BY <1>1, <4>1
        <4> QED
          BY <1>0, <3>1, <3>2, <4>1, <4>2 DEF Rising
      <3> QED
        BY <1>0, <2>0, <3>3, <3>4, <3>5
    <2> QED
      BY <1>0, <2>0, <2>1, <2>2, <2>3
  <1>5. Rising(t)
    BY <1>4 DEF Rising
  <1>6. \A k \in DOMAIN t : t[k] \in Range(s) \cup {e}
    <2> TAKE k \in DOMAIN t
    <2>1. (k \in 1 .. i - 1 /\ k \in 1 .. n) \/ k = i \/ (k \in i + 1 .. n + 1 /\ k - 1 \in 1 .. n)
      BY <1>0, <1>1
    <2> QED
      BY <1>0, <1>1, <2>1 DEF Range
  <1>7. \A j \in DOMAIN s : \E k \in DOMAIN t : t[k] = s[j]
    <2> TAKE j \in DOMAIN s
    <2>1. CASE j < i
      <3>1. j \in 1 .. i - 1 /\ j \in 1 .. n + 1
        BY <1>0, <2>1
      <3> QED
        BY <1>1, <3>1
    <2>2. CASE ~(j < i)
      <3>1. j + 1 \in i + 1 .. n + 1 /\ j + 1 \in 1 .. n + 1 /\ (j + 1) - 1 = j
        BY <1>0, <2>2
      <3> QED
        BY <1>1, <3>1
    <2> QED
      BY <2>1, <2>2
  <1>8. Range(t) = Range(s) \cup {e}
    <2>1. i \in DOMAIN t /\ t[i] = e
      BY <1>0, <1>1
    <2> QED
      BY <1>6, <1>7, <2>1 DEF Range
  <1>9. e.id \notin Ids(s)
    <2>1. \A j \in DOMAIN s : s[j].id # e.id
      <3> TAKE j \in DOMAIN s
      <3>1. j \in 1 .. i - 1 \/ j \in i .. n
        BY <1>0
      <3> QED
        BY <1>0, <1>2, <1>3, <3>1
    <2> QED
      BY <2>1, IdsAre
  <1> QED
    BY <1>5, <1>8, <1>9 DEF t, Ids

LEMMA RisingAppend ==
  ASSUME NEW s \in Seq(Entry), NEW e \in Entry, Rising(s), \A f \in Range(s) : f.id < e.id
  PROVE  LET t == Append(s, e) IN
         /\ Rising(t) /\ Range(t) = Range(s) \cup {e} /\ Ids(t) = Ids(s) \cup {e.id}
  <1> DEFINE t == Append(s, e)  n == Len(s)
  <1>0. n \in Nat /\ DOMAIN s = 1 .. n
    OBVIOUS
  <1>1. DOMAIN t = 1 .. n + 1 /\ (\A i \in 1 .. n : t[i] = s[i]) /\ t[n + 1] = e
    BY <1>0
  <1> HIDE DEF t
  <1>2. \A i \in 1 .. n + 1 : i \in 1 .. n \/ i = n + 1
    BY <1>0
  <1>3. Rising(t)
    <2> SUFFICES ASSUME NEW i \in 1 .. n + 1, NEW j \in 1 .. n + 1, i < j PROVE t[i].id < t[j].id
      BY <1>1 DEF Rising
    <2>1. i \in 1 .. n
      BY <1>0
    <2>2. CASE j \in 1 .. n
      BY <1>0, <1>1, <2>1, <2>2 DEF Rising
    <2>3. CASE j = n + 1
      BY <1>0, <1>1, <2>1, <2>3 DEF Range
    <2> QED
      BY <1>2, <2>2, <2>3
  <1>4. Range(t) = Range(s) \cup {e}
    <2>1. n + 1 \in 1 .. n + 1 /\ 1 .. n \subseteq 1 .. n + 1
      BY <1>0
    <2> QED
      BY <1>0, <1>1, <1>2, <2>1 DEF Range
  <1> QED
    BY <1>3, <1>4 DEF t, Ids

LEMMA RisingCut ==
  ASSUME NEW s \in Seq(Entry), NEW i \in DOMAIN s, NEW j \in DOMAIN s, i <= j, Rising(s)
  PROVE  LET t == SubSeq(s, 1, i - 1) \o SubSeq(s, j + 1, Len(s)) IN
         /\ Rising(t) /\ Range(t) = Range(s) \ {s[k] : k \in i .. j}
  <1> DEFINE t == SubSeq(s, 1, i - 1) \o SubSeq(s, j + 1, Len(s))  n == Len(s)
             a == SubSeq(s, 1, i - 1)  b == SubSeq(s, j + 1, Len(s))
  <1>0. n \in Nat /\ i \in 1 .. n /\ j \in 1 .. n /\ DOMAIN s = 1 .. n /\ \A k \in 1 .. n : s[k].id \in Nat
    <2>1. \A k \in 1 .. n : s[k] \in Entry
      OBVIOUS
    <2>2. \A k \in 1 .. n : s[k].id \in Nat
      BY <2>1 DEF Entry
    <2>3. n \in Nat /\ DOMAIN s = 1 .. n
      OBVIOUS
    <2> QED
      BY <2>2, <2>3
  <1> DEFINE m == n - (j - i + 1)  from(k) == IF k < i THEN k ELSE k + (j - i + 1)
  <1>1. DOMAIN t = 1 .. m /\ \A k \in 1 .. m : t[k] = s[from(k)]
    <2>1. a \in Seq(Entry) /\ Len(a) = i - 1 /\ \A k \in 1 .. i - 1 : a[k] = s[k]
      BY <1>0
    <2>2. b \in Seq(Entry) /\ Len(b) = n - j /\ \A k \in 1 .. n - j : b[k] = s[j + k]
      <3>1. j + 1 \in 1 .. n + 1 /\ n - j \in Nat
        BY <1>0
      <3>2. b = [k \in 1 .. n - j |-> s[j + k]]
        BY <1>0, <3>1
      <3>3. \A k \in 1 .. n - j : s[j + k] \in Entry
        BY <1>0
      <3> DEFINE r == n - j
      <3> HIDE DEF b, r
      <3>4. r \in Nat /\ b = [k \in 1 .. r |-> s[j + k]] /\ \A k \in 1 .. r : s[j + k] \in Entry
        BY <3>1, <3>2, <3>3 DEF r
      <3>5. b \in Seq(Entry) /\ Len(b) = r /\ \A k \in 1 .. r : b[k] = s[j + k]
        BY <3>4
      <3> QED
        BY <3>5 DEF r
    <2> HIDE DEF a, b
    <2>3. Len(a) + Len(b) = m
      BY <1>0, <2>1, <2>2
    <2>4. a \o b \in Seq(Entry) /\ Len(a \o b) = m
          /\ \A k \in 1 .. m : (a \o b)[k] = IF k <= i - 1 THEN a[k] ELSE b[k - (i - 1)]
      <3>1. /\ a \o b \in Seq(Entry) /\ Len(a \o b) = Len(a) + Len(b)
            /\ \A k \in 1 .. Len(a) + Len(b) : (a \o b)[k] = IF k <= Len(a) THEN a[k] ELSE b[k - Len(a)]
        BY <2>1, <2>2, ConcatProperties
      <3> HIDE DEF m
      <3> QED
        BY <2>1, <2>3, <3>1
    <2>5. t = a \o b
      BY DEF a, b
    <2> HIDE DEF t
    <2>6. \A k \in 1 .. m : t[k] = s[from(k)]
      <3> TAKE k \in 1 .. m
      <3>1. CASE k < i
        <4>1. k \in 1 .. i - 1 /\ k <= i - 1
          BY <1>0, <3>1
        <4> QED
          BY <2>1, <2>4, <2>5, <3>1, <4>1
      <3>2. CASE ~(k < i)
        <4>1. ~(k <= i - 1) /\ k - (i - 1) \in 1 .. n - j /\ j + (k - (i - 1)) = k + (j - i + 1)
          BY <1>0, <3>2
        <4> QED
          BY <2>2, <2>4, <2>5, <3>2, <4>1
      <3> QED
        BY <3>1, <3>2
    <2> QED
      BY <2>4, <2>5, <2>6
  <1> HIDE DEF t
  <1>2. \A k \in 1 .. m : from(k) \in (1 .. n) \ (i .. j)
    BY <1>0
  <1>3. \A k, l \in 1 .. m : k < l => from(k) < from(l)
    BY <1>0
  <1>4. \A k \in (1 .. n) \ (i .. j) : \E l \in 1 .. m : from(l) = k
    <2> TAKE k \in (1 .. n) \ (i .. j)
    <2>1. CASE k < i
      BY <1>0, <2>1
    <2>2. CASE k > j
      <3>1. k - (j - i + 1) \in 1 .. m /\ from(k - (j - i + 1)) = k
        BY <1>0, <2>2
      <3> HIDE DEF from
      <3> QED
        BY <3>1
    <2> QED
      BY <1>0, <2>1, <2>2
  <1> HIDE DEF from, m
  <1>5. Rising(t)
    BY <1>0, <1>1, <1>2, <1>3 DEF Rising
  <1>6. \A k \in 1 .. n, l \in i .. j : s[k] = s[l] => k \in i .. j
    <2> SUFFICES ASSUME NEW k \in 1 .. n, NEW l \in i .. j, s[k] = s[l], k \notin i .. j PROVE FALSE
      OBVIOUS
    <2>1. l \in 1 .. n /\ (k < l \/ l < k)
      BY <1>0
    <2>2. s[k].id < s[l].id \/ s[l].id < s[k].id
      BY <1>0, <2>1 DEF Rising
    <2> QED
      BY <1>0, <2>1, <2>2
  <1>7. Range(t) = Range(s) \ {s[k] : k \in i .. j}
    <2>1. Range(t) = {s[k] : k \in (1 .. n) \ (i .. j)}
      BY <1>1, <1>2, <1>4 DEF Range
    <2>2. Range(s) = {s[k] : k \in 1 .. n}
      BY <1>0 DEF Range
    <2> QED
      BY <1>6, <2>1, <2>2
  <1> QED
    BY <1>5, <1>7 DEF t

LEMMA RisingPicked ==
  ASSUME NEW k, NEW s \in Seq(Entry), Rising(s)
  PROVE  /\ Picked(k, s) \in Seq(Entry) /\ Rising(Picked(k, s))
         /\ Range(Picked(k, s)) = {x \in Range(s) : Belongs(k, x)}
  <1> DEFINE Good(l) == /\ Rising(Picked(k, l))
                        /\ Range(Picked(k, l)) = {x \in Range(l) : Belongs(k, x)}
             S == {n \in Nat : \E l \in Seq(Entry) : Len(l) = n /\ Rising(l) /\ ~Good(l)}
  <1>1. CASE S = {}
    BY <1>1, PickedType
  <1>2. CASE S # {}
    <2>1. PICK n \in S : \A m \in S : n <= m
      BY <1>2, LeastNat
    <2>2. PICK l \in Seq(Entry) : Len(l) = n /\ Rising(l) /\ ~Good(l)
      BY <2>1
    <2>3. CASE l = <<>>
      <3>1. Picked(k, l) = <<>>
        BY <2>3, PickedEmpty
      <3>2. Rising(<<>>) /\ Range(<<>>) = {}
        BY DEF Rising, Range
      <3> QED
        BY <2>2, <2>3, <3>1, <3>2
    <2>4. CASE l # <<>>
      <3> DEFINE r == SubSeq(l, 1, Len(l) - 1)  e == l[Len(l)]
      <3>1. r \in Seq(Entry) /\ Len(r) = n - 1 /\ n - 1 \in Nat /\ e \in Entry
            /\ l = Append(r, e)
        BY <2>2, <2>4
      <3>0. n \in Nat /\ ~(n <= n - 1)
        BY <2>1
      <3> HIDE DEF r, e
      <3>2. (\A i \in 1 .. n - 1 : l[i] = r[i]) /\ l[n] = e /\ DOMAIN l = 1 .. n /\ DOMAIN r = 1 .. n - 1
        BY <3>0, <3>1, <2>2
      <3>3. Rising(r)
        BY <2>2, <3>0, <3>2 DEF Rising
      <3>4. \A f \in Range(r) : f.id < e.id
        <4>1. \A i \in 1 .. n - 1 : i \in 1 .. n /\ n \in 1 .. n /\ i < n
          BY <3>0, <3>1
        <4>2. \A i \in 1 .. n - 1 : l[i].id < l[n].id
          BY <2>2, <3>2, <4>1 DEF Rising
        <4>3. \A i \in 1 .. n - 1 : r[i].id < e.id
          BY <3>2, <4>2
        <4> QED
          BY <3>2, <4>3 DEF Range
      <3>5. Good(r)
        <4>1. n - 1 \notin S
          BY <2>1, <3>0, <3>1
        <4> QED
          BY <3>1, <3>3, <4>1
      <3>6. Range(l) = Range(r) \cup {e}
        BY <3>1, <3>3, <3>4, RisingAppend
      <3>7. Picked(k, l) = IF Belongs(k, e) THEN Append(Picked(k, r), e) ELSE Picked(k, r)
        BY <3>1, PickedAppend
      <3>8. Picked(k, r) \in Seq(Entry)
        BY <3>1, PickedType
      <3>9. CASE Belongs(k, e)
        <4>1. \A f \in Range(Picked(k, r)) : f.id < e.id
          BY <3>4, <3>5
        <4>2. /\ Rising(Append(Picked(k, r), e))
              /\ Range(Append(Picked(k, r), e)) = Range(Picked(k, r)) \cup {e}
          BY <3>1, <3>5, <3>8, <4>1, RisingAppend
        <4>3. Good(l)
          BY <3>5, <3>6, <3>7, <3>9, <4>2
        <4> QED
          BY <2>2, <4>3
      <3>10. CASE ~Belongs(k, e)
        <4>1. Good(l)
          BY <3>5, <3>6, <3>7, <3>10
        <4> QED
          BY <2>2, <4>1
      <3> QED
        BY <3>9, <3>10
    <2> QED
      BY <2>3, <2>4
  <1> QED
    BY <1>1, <1>2

(* A mark is set or cleared in a file. *)
RootIds(s) == {e.id : e \in {x \in Range(s) : x.root}}

LEMMA SameButMarks ==
  ASSUME NEW s, NEW t, Rising(s), DOMAIN t = DOMAIN s,
         \A j \in DOMAIN s : t[j].id = s[j].id /\ t[j].root = s[j].root
  PROVE  /\ Rising(t) /\ Ids(t) = Ids(s)
         /\ RootIds(t) = RootIds(s)
  <1>1. Rising(t)
    BY DEF Rising
  <1>2. Ids(t) = Ids(s)
    <2>1. \A id : id \in Ids(t) <=> id \in Ids(s)
      BY IdsAre
    <2> QED
      BY <2>1
  <1>3. \A u : RootIds(u) = {u[j].id : j \in {l \in DOMAIN u : u[l].root}}
    BY DEF RootIds, Range
  <1>4. {t[j].id : j \in {l \in DOMAIN t : t[l].root}} = {s[j].id : j \in {l \in DOMAIN s : s[l].root}}
    OBVIOUS
  <1> QED
    BY <1>1, <1>2, <1>3, <1>4

LEMMA RisingMarked ==
  ASSUME NEW s \in Seq(Entry), NEW i \in DOMAIN s, NEW b \in BOOLEAN, Rising(s),
         NEW t, t = [s EXCEPT ![i].marked = b]
  PROVE  /\ Rising(t) /\ Ids(t) = Ids(s)
         /\ RootIds(t) = RootIds(s)
  <1>1. \A j \in DOMAIN s : s[j] \in Entry
    OBVIOUS
  <1>2. DOMAIN t = DOMAIN s /\ \A j \in DOMAIN s : t[j].id = s[j].id /\ t[j].root = s[j].root
    BY <1>1 DEF Entry
  <1> QED
    BY <1>2, SameButMarks

(* A file that rises has as many entries as ids. *)
LEMMA RisingCounts ==
  ASSUME NEW s \in Seq(Entry), Rising(s)
  PROVE  IsFiniteSet(Ids(s)) /\ Cardinality(Ids(s)) = Len(s)
  <1> DEFINE f == [i \in 1 .. Len(s) |-> s[i].id]
  <1>1. Len(s) \in Nat /\ DOMAIN s = 1 .. Len(s) /\ \A i \in 1 .. Len(s) : s[i].id \in Nat
    <2>1. \A i \in 1 .. Len(s) : s[i] \in Entry
      OBVIOUS
    <2> QED
      BY <2>1 DEF Entry
  <1>2. \A i, j \in 1 .. Len(s) : f[i] = f[j] => i = j
    <2> SUFFICES ASSUME NEW i \in 1 .. Len(s), NEW j \in 1 .. Len(s), s[i].id = s[j].id, i # j PROVE FALSE
      OBVIOUS
    <2>1. i < j \/ j < i
      BY <1>1
    <2>2. s[i].id < s[j].id \/ s[j].id < s[i].id
      BY <1>1, <2>1 DEF Rising
    <2> QED
      BY <1>1, <2>2
  <1>3. f \in Bijection(1 .. Len(s), Ids(s))
    <2>1. f \in [1 .. Len(s) -> Ids(s)] /\ \A id \in Ids(s) : \E i \in 1 .. Len(s) : f[i] = id
      BY <1>1, IdsAre
    <2> HIDE DEF f
    <2> QED
      BY <1>2, <2>1, Fun_IsBij
  <1> HIDE DEF f
  <1>4. IsFiniteSet(1 .. Len(s)) /\ Cardinality(1 .. Len(s)) = Len(s)
    BY <1>1, FS_Interval
  <1>5. ExistsBijection(1 .. Len(s), Ids(s))
    BY <1>3 DEF ExistsBijection
  <1> QED
    BY <1>4, <1>5, FS_Bijection

(* Whose work is unfinished: only the three who change .DIR by one entry   *)
(* begin such work.                                                        *)
LEMMA WorkStays ==
  ASSUME TypeOK, InOrder, NEW p \in Procs, Step(p), ~PostEntry(p), ~UndelEntry(p), ~DelEntry(p)
  PROVE  /\ pc'[p] \in ToAdd => pc[p] \in ToAdd /\ loc'[p].ent = loc[p].ent
         /\ pc'[p] \in ToRemove => pc[p] \in ToRemove /\ loc'[p].ent = loc[p].ent
  <1>0. pc \in [Procs -> Stages] /\ loc \in [Procs -> Loc]
    BY DEF TypeOK, Loc
  <1>1. \A e : Afterwards(e) \in {"end", "set_mark"}
    BY DEF Afterwards
  <1>r. Regenerates(p) => loc[p].then \in {"end", "set_mark"}
    BY DEF InOrder
  <1>i. ASSUME NEW s, Instead(p, s) PROVE pc'[p] = "regen_lock"
    BY <1>0, <1>i DEF Instead, Goto
  <1>2. CASE Regen(p)
    <2>1. \/ \E s \in {"regen_lock", "regen_stat", "regen_read", "regen_done"} : pc' = [pc EXCEPT ![p] = s]
          \/ Regenerates(p) /\ pc' = [pc EXCEPT ![p] = loc[p].then]
      BY <1>2 DEF Regen, Read, RegenLock, RegenStat, RegenRead, RegenDone, Goto, Regenerates
    <2> QED
      BY <1>0, <1>r, <2>1 DEF ToAdd, ToRemove
  <1>3. CASE PostIx(p) \/ PostAdd(p)
    <2>1. \/ pc'[p] = "regen_lock"
          \/ pc[p] = "post_ix" /\ pc' = [pc EXCEPT ![p] = "post_add"] /\ loc' = loc
          \/ pc' = [pc EXCEPT ![p] = Afterwards(loc[p].ent)]
      BY <1>i, <1>3 DEF PostIx, PostAdd, Goto
    <2> QED
      BY <1>0, <1>1, <2>1 DEF ToAdd, ToRemove
  <1>4. CASE DelIx(p) \/ DelLock(p)
    <2>1. \/ pc'[p] = "regen_lock"
          \/ /\ pc[p] = "del_ix" /\ pc' = [pc EXCEPT ![p] = "del_lock"]
             /\ \E n : loc' = [loc EXCEPT ![p].size = n]
          \/ pc' = [pc EXCEPT ![p] = Afterwards(loc[p].ent)]
      BY <1>i, <1>4 DEF DelIx, DelLock, Goto
    <2> QED
      BY <1>0, <1>1, <2>1 DEF ToAdd, ToRemove, Loc
  <1>5. CASE UndelIx(p) \/ UndelAdd(p)
    <2>1. \/ pc'[p] = "regen_lock"
          \/ pc[p] = "undel_ix" /\ pc' = [pc EXCEPT ![p] = "undel_add"] /\ loc' = loc
          \/ pc' = [pc EXCEPT ![p] = "end"]
      BY <1>i, <1>5 DEF UndelIx, UndelAdd, Goto
    <2> QED
      BY <1>0, <2>1 DEF ToAdd, ToRemove
  <1>6. CASE SetMark(p) \/ End(p) \/ Mark(p) \/ Delete_Range(p) \/ Die(p)
    <2>1. \E s \in {"end", "idle", "mark_dirty", "ix_lock", "ix_dir", "range_dirty"} : pc' = [pc EXCEPT ![p] = s]
      BY <1>6 DEF SetMark, End, Mark, MarkWrite, MarkDirty, MarkIxMap, MarkIxLock, MarkIxDir,
         Delete_Range, RangeEntries, RangeDirty, Die, Goto
    <2> QED
      BY <1>0, <2>1 DEF ToAdd, ToRemove
  <1> QED
    BY <1>2, <1>3, <1>4, <1>5, <1>6 DEF Step, Post, Del, Undel

(* What .DIR lists changes only where an entry comes or goes.              *)
LEMMA ListStays ==
  ASSUME TypeOK, Rising(dir), NEW p \in Procs, Step(p),
         ~PostEntry(p), ~UndelEntry(p), ~DelEntry(p), ~RangeEntries(p)
  PROVE  /\ Rising(dir') /\ Ids(dir') = Ids(dir) /\ Derived("ORIGIN")' = Derived("ORIGIN")
         /\ deleted' = deleted /\ lastid' \in Nat /\ lastid <= lastid'
  <1>0. dir \in Seq(Entry) /\ lastid \in Nat /\ loc \in [Procs -> Loc]
    BY DEF TypeOK, Loc
  <1>1. deleted' = deleted /\ (lastid' = lastid \/ lastid' = lastid + 1)
    <2>1. CASE Regen(p) \/ Mark(p) \/ Die(p)
      BY <2>1 DEF Regen, Read, RegenLock, RegenStat, RegenRead, RegenDone, Mark, MarkWrite, MarkDirty,
         MarkIxMap, MarkIxLock, MarkIxDir, Die
    <2>2. CASE Post(p) \/ Del(p) \/ Undel(p) \/ Delete_Range(p)
      BY <2>2 DEF Post, PostIx, PostAdd, Del, DelIx, DelLock, SetMark, End, Undel, UndelIx, UndelAdd,
         Delete_Range, RangeDirty
    <2> QED
      BY <2>1, <2>2 DEF Step
  <1>2. dir' = dir \/ \E i \in DOMAIN dir, b \in BOOLEAN : dir' = [dir EXCEPT ![i].marked = b]
    <2>1. CASE Regen(p) \/ Die(p) \/ Post(p) \/ Del(p) \/ Undel(p) \/ Delete_Range(p)
      BY <2>1 DEF Regen, Read, RegenLock, RegenStat, RegenRead, RegenDone, Die, Post, PostIx, PostAdd,
         Del, DelIx, DelLock, SetMark, End, Undel, UndelIx, UndelAdd, Delete_Range, RangeDirty
    <2>2. CASE MarkDirty(p) \/ (\E k \in Kinds : MarkIxMap(p, k)) \/ MarkIxLock(p)
      BY <2>2 DEF MarkDirty, MarkIxMap, MarkIxLock
    <2>3. CASE MarkWrite(p)
      <3>1. PICK i \in DOMAIN dir : dir' = [dir EXCEPT ![i].marked = ~@]
        BY <2>3 DEF MarkWrite
      <3>2. dir' = [dir EXCEPT ![i].marked = ~dir[i].marked]
        BY <3>1
      <3>3. (~dir[i].marked) \in BOOLEAN
        OBVIOUS
      <3> QED
        BY <3>2, <3>3
    <2>4. CASE MarkIxDir(p)
      <3>1. dir' = dir \/ \E i \in DOMAIN dir : dir' = [dir EXCEPT ![i].marked = ~loc[p].ent.marked]
        BY <2>4 DEF MarkIxDir, Hits
      <3>2. (~loc[p].ent.marked) \in BOOLEAN
        OBVIOUS
      <3> QED
        BY <3>1, <3>2
    <2> QED
      BY <2>1, <2>2, <2>3, <2>4 DEF Step, Mark
  <1>3. Rising(dir') /\ Ids(dir') = Ids(dir) /\ Derived("ORIGIN")' = Derived("ORIGIN")
    <2>1. Derived("ORIGIN") = RootIds(dir) /\ Derived("ORIGIN")' = RootIds(dir')
      BY DEF Derived, Belongs, RootIds
    <2>2. CASE dir' = dir
      BY <2>1, <2>2
    <2>3. CASE \E i \in DOMAIN dir, b \in BOOLEAN : dir' = [dir EXCEPT ![i].marked = b]
      <3>1. PICK i \in DOMAIN dir, b \in BOOLEAN : dir' = [dir EXCEPT ![i].marked = b]
        BY <2>3
      <3>2. /\ Rising(dir') /\ Ids(dir') = Ids(dir)
            /\ RootIds(dir') = RootIds(dir)
        <4>1. \A j \in DOMAIN dir : dir[j] \in Entry
          BY <1>0
        <4>2. DOMAIN dir' = DOMAIN dir /\ \A j \in DOMAIN dir : dir'[j].id = dir[j].id /\ dir'[j].root = dir[j].root
          BY <3>1, <4>1 DEF Entry
        <4> QED
          BY <1>0, <4>2, SameButMarks
      <3> QED
        BY <2>1, <3>2
    <2> QED
      BY <1>2, <2>2, <2>3
  <1> QED
    BY <1>0, <1>1, <1>3

(* An entry comes or goes. *)
LEMMA Posted ==
  ASSUME TypeOK, IdsInv, NEW p \in Procs, PostEntry(p)
  PROVE  /\ pc[p] = "idle" /\ index' = index /\ dirty' = dirty /\ missed' = missed /\ deleted' = deleted
         /\ lastid' = lastid + 1
         /\ \E e \in Entry :
              /\ e.id = lastid + 1 /\ loc'[p].ent = e
              /\ pc'[p] = IF e.root THEN "post_ix" ELSE Afterwards(e)
              /\ Rising(dir') /\ Range(dir') = Range(dir) \cup {e}
  <1>0. dir \in Seq(Entry) /\ lastid \in Nat /\ pc \in [Procs -> Stages] /\ loc \in [Procs -> Loc]
    BY DEF TypeOK, Loc
  <1>1. PICK root \in BOOLEAN, marked \in BOOLEAN :
          LET e == [id |-> lastid + 1, root |-> root, marked |-> marked] IN
          /\ dir' = Append(dir, e) /\ loc' = [loc EXCEPT ![p].ent = e]
          /\ pc' = [pc EXCEPT ![p] = IF root THEN "post_ix" ELSE Afterwards(e)]
    BY DEF PostEntry, Goto
  <1> DEFINE e == [id |-> lastid + 1, root |-> root, marked |-> marked]
  <1>2. e \in Entry /\ e.id = lastid + 1 /\ e.root = root
    BY <1>0 DEF Entry
  <1>3. /\ dir' = Append(dir, e) /\ loc' = [loc EXCEPT ![p].ent = e]
        /\ pc' = [pc EXCEPT ![p] = IF root THEN "post_ix" ELSE Afterwards(e)]
    BY <1>1
  <1> HIDE DEF e
  <1>4. \A f \in Range(dir) : f.id < e.id
    <2>1. \A i \in DOMAIN dir : dir[i] \in Entry
      BY <1>0
    <2>2. \A f \in Range(dir) : f.id \in Nat /\ f.id <= lastid
      BY <2>1 DEF Range, Entry, IdsInv
    <2> QED
      BY <1>0, <1>2, <2>2
  <1>5. Rising(dir') /\ Range(dir') = Range(dir) \cup {e}
    BY <1>0, <1>2, <1>3, <1>4, RisingAppend DEF IdsInv
  <1>6. loc'[p].ent = e /\ pc'[p] = IF e.root THEN "post_ix" ELSE Afterwards(e)
    BY <1>0, <1>2, <1>3 DEF Loc
  <1> QED
    BY <1>2, <1>5, <1>6 DEF PostEntry, Begin

LEMMA Deleted ==
  ASSUME TypeOK, IdsInv, NEW p \in Procs, DelEntry(p)
  PROVE  /\ pc[p] = "idle" /\ index' = index /\ dirty' = dirty /\ lastid' = lastid
         /\ \E e \in Range(dir) :
              /\ deleted' = deleted \cup {e} /\ loc'[p].ent = e
              /\ pc'[p] = IF e.root THEN "del_ix" ELSE Afterwards(e)
              /\ Rising(dir') /\ Range(dir') = Range(dir) \ {e}
              /\ IF \E q \in Procs : Adding(q, e.id) THEN Miss("half", {"ORIGIN"}) ELSE missed' = missed
  <1>0. dir \in Seq(Entry) /\ pc \in [Procs -> Stages] /\ loc \in [Procs -> Loc]
    BY DEF TypeOK, Loc
  <1>1. PICK i \in DOMAIN dir :
          /\ dir' = RemoveAt(dir, i) /\ deleted' = deleted \cup {dir[i]}
          /\ loc' = [loc EXCEPT ![p].ent = dir[i]]
          /\ pc' = [pc EXCEPT ![p] = IF dir[i].root THEN "del_ix" ELSE Afterwards(dir[i])]
          /\ IF \E q \in Procs : Adding(q, dir[i].id) THEN Miss("half", {"ORIGIN"}) ELSE missed' = missed
    BY DEF DelEntry, Goto
  <1>2. Rising(dir') /\ Range(dir') = Range(dir) \ {dir[i]}
    BY <1>0, <1>1, RisingRemove DEF IdsInv
  <1>3. loc'[p].ent = dir[i] /\ pc'[p] = IF dir[i].root THEN "del_ix" ELSE Afterwards(dir[i])
    BY <1>0, <1>1 DEF Loc
  <1>4. dir[i] \in Range(dir)
    BY DEF Range
  <1>5. pc[p] = "idle" /\ index' = index /\ dirty' = dirty /\ lastid' = lastid
    BY DEF DelEntry, Begin
  <1> QED
    BY <1>1, <1>2, <1>3, <1>4, <1>5

LEMMA Recovered ==
  ASSUME TypeOK, IdsInv, NEW p \in Procs, UndelEntry(p)
  PROVE  /\ pc[p] = "idle" /\ index' = index /\ dirty' = dirty
         /\ \E e \in deleted, new \in Entry :
              /\ deleted' = deleted \ {e} /\ loc'[p].ent = new
              /\ (new.id = e.id /\ lastid' = lastid) \/ (new.id = lastid + 1 /\ lastid' = lastid + 1)
              /\ new.id \notin Ids(dir)
              /\ pc'[p] = IF new.root THEN "undel_ix" ELSE "end"
              /\ Rising(dir') /\ Range(dir') = Range(dir) \cup {new}
              /\ missed'["ORIGIN"] =
                   (missed["ORIGIN"] \/ ("half" \in Windows /\ \E q \in Procs : Removing(q, e.id)))
  <1>0. /\ dir \in Seq(Entry) /\ lastid \in Nat /\ deleted \subseteq Entry
        /\ pc \in [Procs -> Stages] /\ loc \in [Procs -> Loc]
    BY DEF TypeOK, Loc
  <1>1. PICK e \in deleted :
          LET new == IF dir = <<>> THEN [e EXCEPT !.id = lastid + 1, !.root = TRUE] ELSE e IN
          /\ Insert(new) /\ deleted' = deleted \ {e}
          /\ lastid' = IF dir = <<>> THEN new.id ELSE lastid
          /\ loc' = [loc EXCEPT ![p].ent = new]
          /\ pc' = [pc EXCEPT ![p] = IF new.root THEN "undel_ix" ELSE "end"]
          /\ missed' = [k \in Kinds |->
               \/ missed[k]
               \/ k = "MARK" /\ e.marked /\ "unmarked" \in Windows
               \/ /\ k = "ORIGIN" /\ "half" \in Windows
                  /\ \E q \in Procs : Removing(q, e.id)]
    BY DEF UndelEntry, Goto
  <1> DEFINE new == IF dir = <<>> THEN [e EXCEPT !.id = lastid + 1, !.root = TRUE] ELSE e
  <1>2. /\ new \in Entry
        /\ dir = <<>> => new.id = lastid + 1
        /\ dir # <<>> => new.id = e.id
    <2>1. e \in Entry /\ lastid + 1 \in Nat
      BY <1>0
    <2> QED
      BY <2>1 DEF Entry
  <1>3. /\ Insert(new) /\ lastid' = (IF dir = <<>> THEN new.id ELSE lastid)
        /\ loc' = [loc EXCEPT ![p].ent = new]
        /\ pc' = [pc EXCEPT ![p] = IF new.root THEN "undel_ix" ELSE "end"]
    BY <1>1
  <1> HIDE DEF new
  <1>4. Rising(dir') /\ Range(dir') = Range(dir) \cup {new} /\ new.id \notin Ids(dir)
    <2>1. CASE dir = <<>> /\ dir' = <<new>>
      <3>1. Rising(<<>>) /\ Range(<<>>) = {} /\ Ids(<<>>) = {}
        BY DEF Rising, Range, Ids
      <3>2. dir' = Append(dir, new)
        BY <2>1
      <3> QED
        BY <1>0, <1>2, <2>1, <3>1, <3>2, RisingAppend
    <2>2. CASE \E i \in Gaps(dir, new.id) : dir' = InsertAt(dir, i, new)
      BY <1>0, <1>2, <2>2, RisingInsert DEF IdsInv
    <2> QED
      BY <1>3, <2>1, <2>2 DEF Insert
  <1>5. loc'[p].ent = new /\ pc'[p] = IF new.root THEN "undel_ix" ELSE "end"
    BY <1>0, <1>3 DEF Loc
  <1>6. (new.id = e.id /\ lastid' = lastid) \/ (new.id = lastid + 1 /\ lastid' = lastid + 1)
    BY <1>2, <1>3
  <1>7. missed'["ORIGIN"] =
          (missed["ORIGIN"] \/ ("half" \in Windows /\ \E q \in Procs : Removing(q, e.id)))
    <2>1. "ORIGIN" \in Kinds
      BY DEF Kinds
    <2> QED
      BY <1>1, <2>1
  <1>8. pc[p] = "idle" /\ index' = index /\ dirty' = dirty /\ deleted' = deleted \ {e}
    BY <1>1 DEF UndelEntry, Begin
  <1> QED
    BY <1>2, <1>4, <1>5, <1>6, <1>7, <1>8

LEMMA RangeDeleted ==
  ASSUME TypeOK, IdsInv, NEW p \in Procs, RangeEntries(p)
  PROVE  /\ lastid' = lastid /\ pc'[p] = "range_dirty" /\ loc' = loc /\ pc[p] = "idle"
         /\ \E cut \in SUBSET Range(dir) :
              /\ deleted' = deleted \cup cut /\ Rising(dir') /\ Range(dir') = Range(dir) \ cut
              /\ IF \E q \in Procs, e \in cut : Adding(q, e.id)
                 THEN Miss("half", {"ORIGIN"}) ELSE missed' = missed
  <1>0. dir \in Seq(Entry) /\ pc \in [Procs -> Stages]
    BY DEF TypeOK
  <1>1. PICK i \in DOMAIN dir, j \in DOMAIN dir :
          /\ i <= j
          /\ dir' = SubSeq(dir, 1, i - 1) \o SubSeq(dir, j + 1, Len(dir))
          /\ deleted' = deleted \cup {dir[k] : k \in i .. j}
          /\ IF \E q \in Procs, k \in i .. j : Adding(q, dir[k].id)
             THEN Miss("half", {"ORIGIN"}) ELSE missed' = missed
    BY DEF RangeEntries
  <1> DEFINE cut == {dir[k] : k \in i .. j}
  <1>2. Rising(dir') /\ Range(dir') = Range(dir) \ cut
    BY <1>0, <1>1, RisingCut DEF IdsInv
  <1>3. cut \in SUBSET Range(dir)
    <2>1. i .. j \subseteq DOMAIN dir
      BY <1>0, <1>1
    <2> QED
      BY <2>1 DEF Range
  <1>4. (\E q \in Procs, k \in i .. j : Adding(q, dir[k].id)) <=> \E q \in Procs, e \in cut : Adding(q, e.id)
    OBVIOUS
  <1>5. deleted' = deleted \cup cut
        /\ IF \E q \in Procs, e \in cut : Adding(q, e.id)
           THEN Miss("half", {"ORIGIN"}) ELSE missed' = missed
    BY <1>1, <1>4
  <1>6. lastid' = lastid /\ pc'[p] = "range_dirty" /\ loc' = loc /\ pc[p] = "idle"
    BY <1>0 DEF RangeEntries, Goto, Begin
  <1> HIDE DEF cut
  <1> QED
    BY <1>2, <1>3, <1>5, <1>6

-----------------------------------------------------------------------------
LEMMA IdsStay ==
  ASSUME TypeOK, InOrder, Fits, IdsInv, NEW p \in Procs, Step(p)
  PROVE  IdsInv'
  <1>0. /\ dir \in Seq(Entry) /\ dir' \in Seq(Entry) /\ deleted \subseteq Entry
        /\ lastid \in Nat /\ lastid' \in Nat /\ pc \in [Procs -> Stages] /\ loc \in [Procs -> Loc]
    <2>1. dir' \in Seq(Entry) /\ lastid' \in Nat
      BY FilesStay
    <2> QED
      BY <2>1 DEF TypeOK, Loc
  <1>1. \A q \in Procs \ {p} : pc'[q] = pc[q] /\ loc'[q] = loc[q]
    BY <1>0, OthersStay
  <1>2. /\ Rising(dir) /\ \A e \in Range(dir) \cup deleted : e.id \in Nat /\ e.id <= lastid
        /\ \A e \in deleted : e.id \notin Ids(dir) /\ \A f \in deleted : e.id = f.id => e = f
        /\ \A q \in Procs : pc[q] \in ToAdd \cup ToRemove => loc[q].ent.id <= lastid
        /\ \A q \in Procs : loc[q].ent.id \in Nat
    <2>1. \A i \in DOMAIN dir : dir[i] \in Entry
      BY <1>0
    <2>2. \A e \in Range(dir) \cup deleted : e.id \in Nat
      BY <1>0, <2>1 DEF Range, Entry
    <2>3. \A q \in Procs : loc[q].ent.id \in Nat
      BY <1>0 DEF Loc, Entry
    <2> QED
      BY <2>2, <2>3 DEF IdsInv, Pending, Obsolete
  <1>d. \A e \in Range(dir) : e.id \in Ids(dir)
    BY DEF Ids
  <1>3. ASSUME lastid <= lastid', Rising(dir'), \A e \in Range(dir') \cup deleted' : e.id <= lastid',
               \A e \in deleted' : e.id \notin Ids(dir') /\ \A f \in deleted' : e.id = f.id => e = f,
               pc'[p] \in ToAdd \cup ToRemove => loc'[p].ent.id <= lastid'
        PROVE  IdsInv'
    <2>1. \A q \in Procs : pc'[q] \in ToAdd \cup ToRemove => loc'[q].ent.id <= lastid'
      <3> SUFFICES ASSUME NEW q \in Procs \ {p}, pc'[q] \in ToAdd \cup ToRemove
                   PROVE  loc'[q].ent.id <= lastid'
        BY <1>3
      <3> QED
        BY <1>0, <1>1, <1>2, <1>3
    <2> QED
      BY <1>3, <2>1 DEF IdsInv, Pending, Obsolete
  <1>u. \A e : Afterwards(e) \notin ToAdd \cup ToRemove
    BY DEF Afterwards, ToAdd, ToRemove
  <1>4. CASE PostEntry(p)
    <2>1. PICK e \in Entry :
              /\ e.id = lastid + 1 /\ loc'[p].ent = e
              /\ Rising(dir') /\ Range(dir') = Range(dir) \cup {e}
      BY <1>4, Posted
    <2>2. lastid' = lastid + 1 /\ deleted' = deleted
      BY <1>4, Posted
    <2>3. Ids(dir') = Ids(dir) \cup {e.id}
      BY <2>1 DEF Ids
    <2> QED
      BY <1>0, <1>2, <1>3, <2>1, <2>2, <2>3
  <1>5. CASE DelEntry(p)
    <2>1. PICK e \in Range(dir) :
              /\ deleted' = deleted \cup {e} /\ loc'[p].ent = e
              /\ Rising(dir') /\ Range(dir') = Range(dir) \ {e}
      BY <1>5, Deleted
    <2>2. lastid' = lastid
      BY <1>5, Deleted
    <2>3. Ids(dir') = Ids(dir) \ {e.id}
      <3>1. \A f, g \in Range(dir) : f.id = g.id => f = g
        <4> SUFFICES ASSUME NEW i \in DOMAIN dir, NEW j \in DOMAIN dir, dir[i].id = dir[j].id, i # j
                     PROVE  FALSE
          BY DEF Range
        <4>1. i < j \/ j < i
          BY <1>0
        <4>2. dir[i].id \in Nat /\ dir[j].id \in Nat
          BY <1>2 DEF Range
        <4> QED
          BY <1>2, <4>1, <4>2 DEF Rising
      <3> QED
        BY <2>1, <3>1 DEF Ids
    <2> QED
      BY <1>0, <1>2, <1>3, <1>d, <2>1, <2>2, <2>3
  <1>6. CASE UndelEntry(p)
    <2>1. PICK e \in deleted, new \in Entry :
              /\ deleted' = deleted \ {e} /\ loc'[p].ent = new
              /\ (new.id = e.id /\ lastid' = lastid) \/ (new.id = lastid + 1 /\ lastid' = lastid + 1)
              /\ Rising(dir') /\ Range(dir') = Range(dir) \cup {new}
      BY <1>6, Recovered
    <2>2. Ids(dir') = Ids(dir) \cup {new.id}
      BY <2>1 DEF Ids
    <2>3. \A f \in deleted \ {e} : f.id # new.id
      BY <1>0, <1>2, <2>1
    <2>4. new.id <= lastid' /\ lastid <= lastid'
      BY <1>0, <1>2, <2>1
    <2>5. \A f \in Range(dir') \cup deleted' : f.id <= lastid'
      BY <1>0, <1>2, <2>1, <2>4
    <2> QED
      BY <1>2, <1>3, <2>1, <2>2, <2>3, <2>4, <2>5
  <1>7. CASE RangeEntries(p)
    <2>1. PICK cut \in SUBSET Range(dir) :
              /\ deleted' = deleted \cup cut /\ Rising(dir') /\ Range(dir') = Range(dir) \ cut
      BY <1>7, RangeDeleted
    <2>2. lastid' = lastid /\ pc'[p] = "range_dirty"
      BY <1>7, RangeDeleted
    <2>3. "range_dirty" \notin ToAdd \cup ToRemove
      BY DEF ToAdd, ToRemove
    <2>4. \A f, g \in Range(dir) : f.id = g.id => f = g
      <3> SUFFICES ASSUME NEW i \in DOMAIN dir, NEW j \in DOMAIN dir, dir[i].id = dir[j].id, i # j
                   PROVE  FALSE
        BY DEF Range
      <3>1. i < j \/ j < i
        BY <1>0
      <3>2. dir[i].id \in Nat /\ dir[j].id \in Nat
        BY <1>2 DEF Range
      <3> QED
        BY <1>2, <3>1, <3>2 DEF Rising
    <2>5. \A e \in cut : e.id \notin Ids(dir')
      BY <2>1, <2>4 DEF Ids
    <2>6. Ids(dir') \subseteq Ids(dir)
      BY <2>1 DEF Ids
    <2>7. \A e \in deleted' : e.id \notin Ids(dir') /\ \A f \in deleted' : e.id = f.id => e = f
      BY <1>2, <1>d, <2>1, <2>4, <2>5, <2>6
    <2> QED
      BY <1>0, <1>2, <1>3, <2>1, <2>2, <2>3, <2>7
  <1>8. CASE ~PostEntry(p) /\ ~DelEntry(p) /\ ~UndelEntry(p) /\ ~RangeEntries(p)
    <2>1. /\ Rising(dir') /\ Ids(dir') = Ids(dir)
          /\ deleted' = deleted /\ lastid <= lastid'
      BY <1>2, <1>8, ListStays
    <2>2. pc'[p] \in ToAdd \cup ToRemove => loc'[p].ent.id <= lastid
      BY <1>2, <1>8, WorkStays
    <2>3. \A e \in Range(dir') : e.id <= lastid
      <3>1. \A e \in Range(dir') : e.id \in Ids(dir)
        BY <2>1 DEF Ids
      <3> QED
        BY <1>2, <3>1 DEF Ids
    <2>4. loc'[p].ent.id \in Nat
      <3>1. loc' \in [Procs -> Loc]
        BY PlacesStay
      <3> QED
        BY <3>1 DEF Loc, Entry
    <2>5. \A e \in Range(dir') : e.id \in Nat
      <3>1. \A i \in DOMAIN dir' : dir'[i] \in Entry
        BY <1>0
      <3> QED
        BY <3>1 DEF Range, Entry
    <2>6. \A e \in Range(dir') \cup deleted' : e.id <= lastid'
      BY <1>0, <1>2, <2>1, <2>3, <2>5
    <2>7. pc'[p] \in ToAdd \cup ToRemove => loc'[p].ent.id <= lastid'
      BY <1>0, <2>1, <2>2, <2>4
    <2> QED
      BY <1>2, <1>3, <2>1, <2>6, <2>7
  <1> QED
    BY <1>4, <1>5, <1>6, <1>7, <1>8

(* The same read entry by entry. *)
LEMMA OriginArticles ==
  /\ Derived("ORIGIN") = {x.id : x \in {y \in Range(dir) : y.root}}
  /\ Derived("ORIGIN")' = {x.id : x \in {y \in Range(dir') : y.root}}
  BY DEF Derived, Belongs

LEMMA WorkIs ==
  /\ WorkInv <=>
       (~missed["ORIGIN"] =>
          /\ \A q \in Procs : pc[q] \in ToAdd => loc[q].ent.id \in Derived("ORIGIN")
          /\ \A q, r \in Procs : pc[q] \in ToAdd /\ pc[r] \in ToAdd /\ loc[q].ent.id = loc[r].ent.id => q = r
          /\ \A q \in Procs : pc[q] \in ToRemove => loc[q].ent.id \notin Ids(dir))
  /\ WorkInv' <=>
       (~missed'["ORIGIN"] =>
          /\ \A q \in Procs : pc'[q] \in ToAdd => loc'[q].ent.id \in Derived("ORIGIN")'
          /\ \A q, r \in Procs :
               pc'[q] \in ToAdd /\ pc'[r] \in ToAdd /\ loc'[q].ent.id = loc'[r].ent.id => q = r
          /\ \A q \in Procs : pc'[q] \in ToRemove => loc'[q].ent.id \notin Ids(dir'))
  <1>1. /\ Pending = {q \in Procs : pc[q] \in ToAdd} /\ Pending' = {q \in Procs : pc'[q] \in ToAdd}
        /\ Obsolete = {q \in Procs : pc[q] \in ToRemove}
        /\ Obsolete' = {q \in Procs : pc'[q] \in ToRemove}
        /\ IdsOf(Pending) = {loc[q].ent.id : q \in Pending}
        /\ IdsOf(Pending)' = {loc'[q].ent.id : q \in Pending'}
        /\ IdsOf(Obsolete) = {loc[q].ent.id : q \in Obsolete}
        /\ IdsOf(Obsolete)' = {loc'[q].ent.id : q \in Obsolete'}
    BY DEF Pending, Obsolete, IdsOf
  <1>2. /\ \A A : IdsOf(Pending) \subseteq A <=> \A q \in Procs : pc[q] \in ToAdd => loc[q].ent.id \in A
        /\ \A A : IdsOf(Pending)' \subseteq A <=> \A q \in Procs : pc'[q] \in ToAdd => loc'[q].ent.id \in A
    BY <1>1
  <1>d. \A A, B : (A \cap B = {}) <=> \A x \in A : x \notin B
    OBVIOUS
  <1>3. /\ \A A : (IdsOf(Obsolete) \cap A = {}) <=>
                 \A q \in Procs : pc[q] \in ToRemove => loc[q].ent.id \notin A
        /\ \A A : (IdsOf(Obsolete)' \cap A = {}) <=>
                 \A q \in Procs : pc'[q] \in ToRemove => loc'[q].ent.id \notin A
    <2>1. /\ \A A : (\A x \in IdsOf(Obsolete) : x \notin A) <=>
                   \A q \in Procs : pc[q] \in ToRemove => loc[q].ent.id \notin A
          /\ \A A : (\A x \in IdsOf(Obsolete)' : x \notin A) <=>
                   \A q \in Procs : pc'[q] \in ToRemove => loc'[q].ent.id \notin A
      BY <1>1
    <2> QED
      BY <1>d, <2>1
  <1>4. Ids(dir)' = Ids(dir')
    BY DEF Ids
  <1>p. /\ (\A q, r \in Pending : loc[q].ent.id = loc[r].ent.id => q = r) <=>
             \A q, r \in Procs :
               pc[q] \in ToAdd /\ pc[r] \in ToAdd /\ loc[q].ent.id = loc[r].ent.id => q = r
        /\ (\A q, r \in Pending' : loc'[q].ent.id = loc'[r].ent.id => q = r) <=>
             \A q, r \in Procs :
               pc'[q] \in ToAdd /\ pc'[r] \in ToAdd /\ loc'[q].ent.id = loc'[r].ent.id => q = r
    BY <1>1
  <1>a. /\ IdsOf(Pending) \subseteq Derived("ORIGIN") <=>
             \A q \in Procs : pc[q] \in ToAdd => loc[q].ent.id \in Derived("ORIGIN")
        /\ IdsOf(Pending)' \subseteq Derived("ORIGIN")' <=>
             \A q \in Procs : pc'[q] \in ToAdd => loc'[q].ent.id \in Derived("ORIGIN")'
    BY <1>2
  <1>r. /\ (IdsOf(Obsolete) \cap Ids(dir) = {}) <=>
             \A q \in Procs : pc[q] \in ToRemove => loc[q].ent.id \notin Ids(dir)
        /\ (IdsOf(Obsolete)' \cap Ids(dir)' = {}) <=>
             \A q \in Procs : pc'[q] \in ToRemove => loc'[q].ent.id \notin Ids(dir)'
    BY <1>3
  <1>5. WorkInv <=>
       (~missed["ORIGIN"] =>
          /\ IdsOf(Pending) \subseteq Derived("ORIGIN")
          /\ \A q, r \in Pending : loc[q].ent.id = loc[r].ent.id => q = r
          /\ IdsOf(Obsolete) \cap Ids(dir) = {})
    BY DEF WorkInv
  <1>6. WorkInv' <=>
       (~missed'["ORIGIN"] =>
          /\ IdsOf(Pending)' \subseteq Derived("ORIGIN")'
          /\ \A q, r \in Pending' : loc'[q].ent.id = loc'[r].ent.id => q = r
          /\ IdsOf(Obsolete)' \cap Ids(dir)' = {})
    BY DEF WorkInv
  <1> QED
    BY <1>4, <1>5, <1>6, <1>a, <1>p, <1>r

(* Ids tell the articles of .DIR apart. *)
LEMMA ApartById ==
  ASSUME TypeOK, IdsInv
  PROVE  /\ \A f, g \in Range(dir) : f.id = g.id => f = g
         /\ \A f \in Range(dir) : f.id \in Nat /\ f.id <= lastid
         /\ \A q \in Procs : loc[q].ent.id \in Nat
         /\ \A q \in Procs : pc[q] \in ToAdd \cup ToRemove => loc[q].ent.id <= lastid
  <1>0. dir \in Seq(Entry) /\ loc \in [Procs -> Loc]
    BY DEF TypeOK, Loc
  <1>1. \A i \in DOMAIN dir : dir[i].id \in Nat
    <2>1. \A i \in DOMAIN dir : dir[i] \in Entry
      BY <1>0
    <2> QED
      BY <2>1 DEF Entry
  <1>2. \A f, g \in Range(dir) : f.id = g.id => f = g
    <2> SUFFICES ASSUME NEW i \in DOMAIN dir, NEW j \in DOMAIN dir, dir[i].id = dir[j].id, i # j
                 PROVE  FALSE
      BY DEF Range
    <2>1. i < j \/ j < i
      BY <1>0
    <2> QED
      BY <1>1, <2>1 DEF Rising, IdsInv
  <1>3. \A f \in Range(dir) : f.id \in Nat /\ f.id <= lastid
    BY <1>1 DEF Range, IdsInv
  <1>4. \A q \in Procs : loc[q].ent.id \in Nat
    BY <1>0 DEF Loc, Entry
  <1> QED
    BY <1>2, <1>3, <1>4 DEF IdsInv, Pending, Obsolete

(* What begins, and what .DIR then lists.                                  *)
LEMMA WorkStay ==
  ASSUME Core, IdsInv, WorkInv, "half" \in Windows, NEW p \in Procs, Step(p)
  PROVE  WorkInv'
  <1>t. TypeOK /\ InOrder /\ Fits
    BY DEF Core
  <1>0. /\ pc \in [Procs -> Stages] /\ loc \in [Procs -> Loc] /\ missed \in [Kinds -> BOOLEAN]
        /\ lastid \in Nat /\ "ORIGIN" \in Kinds
    BY <1>t DEF TypeOK, Loc, Kinds
  <1>1. \A q \in Procs \ {p} : pc'[q] = pc[q] /\ loc'[q] = loc[q]
    BY <1>0, <1>t, OthersStay
  <1>u. \A e : Afterwards(e) \notin ToAdd \cup ToRemove
    BY DEF Afterwards, ToAdd, ToRemove
  <1> SUFFICES ASSUME ~missed'["ORIGIN"]
               PROVE  /\ \A q \in Procs : pc'[q] \in ToAdd => loc'[q].ent.id \in Derived("ORIGIN")'
                      /\ \A q, r \in Procs :
                           pc'[q] \in ToAdd /\ pc'[r] \in ToAdd /\ loc'[q].ent.id = loc'[r].ent.id => q = r
                      /\ \A q \in Procs : pc'[q] \in ToRemove => loc'[q].ent.id \notin Ids(dir')
    BY WorkIs
  <1>2. CASE RegenRead(p) /\ dir # <<>> /\ loc[p].ix = "ORIGIN"
    <2>1. /\ pc' = [pc EXCEPT ![p] = "regen_done"] /\ dir' = dir
          /\ missed' = [missed EXCEPT !["ORIGIN"] =
               \/ "stat" \in Windows /\ loc[p].size # Len(dir)
               \/ /\ "half" \in Windows /\ "ORIGIN" = "ORIGIN"
                  /\ \E q \in Procs :
                       LET id == loc[q].ent.id IN
                       Adding(q, id) \/ (Removing(q, id) /\ id \in Ids(dir))]
      BY <1>2 DEF RegenRead, Goto
    <2>2. \A q \in Procs : pc[q] \notin ToAdd /\ (pc[q] \in ToRemove => loc[q].ent.id \notin Ids(dir))
      BY <1>0, <2>1 DEF Adding, Removing
    <2>3. pc'[p] \notin ToAdd /\ pc'[p] \notin ToRemove
      BY <1>0, <2>1 DEF ToAdd, ToRemove
    <2> QED
      BY <1>1, <2>1, <2>2, <2>3
  <1>3. ASSUME ~(RegenRead(p) /\ dir # <<>> /\ loc[p].ix = "ORIGIN")
        PROVE  /\ \A q \in Procs : pc'[q] \in ToAdd => loc'[q].ent.id \in Derived("ORIGIN")'
               /\ \A q, r \in Procs :
                    pc'[q] \in ToAdd /\ pc'[r] \in ToAdd /\ loc'[q].ent.id = loc'[r].ent.id => q = r
               /\ \A q \in Procs : pc'[q] \in ToRemove => loc'[q].ent.id \notin Ids(dir')
    <2>m. ~missed["ORIGIN"]
      BY <1>0, <1>3, <1>t, MissesStay
    <2>w. /\ \A q \in Procs : pc[q] \in ToAdd => loc[q].ent.id \in Derived("ORIGIN")
          /\ \A q, r \in Procs : pc[q] \in ToAdd /\ pc[r] \in ToAdd /\ loc[q].ent.id = loc[r].ent.id => q = r
          /\ \A q \in Procs : pc[q] \in ToRemove => loc[q].ent.id \notin Ids(dir)
      BY <2>m, WorkIs
    <2>a. /\ \A f, g \in Range(dir) : f.id = g.id => f = g
          /\ \A f \in Range(dir) : f.id \in Nat /\ f.id <= lastid
          /\ \A q \in Procs : loc[q].ent.id \in Nat
          /\ \A q \in Procs : pc[q] \in ToAdd \cup ToRemove => loc[q].ent.id <= lastid
      BY <1>t, ApartById
    <2>n. ~(lastid + 1 <= lastid)
      BY <1>0
    <2>d. Derived("ORIGIN") \subseteq Ids(dir)
      BY OriginArticles DEF Ids
    <2>h. ASSUME Miss("half", {"ORIGIN"}) PROVE FALSE
      BY <1>0, <2>h DEF Miss
    <2>1. CASE PostEntry(p)
      <3>1. PICK e \in Entry :
              /\ e.id = lastid + 1 /\ loc'[p].ent = e
              /\ pc'[p] = IF e.root THEN "post_ix" ELSE Afterwards(e)
              /\ Range(dir') = Range(dir) \cup {e}
        BY <1>t, <2>1, Posted
      <3>2. Ids(dir') = Ids(dir) \cup {e.id} /\ Derived("ORIGIN") \subseteq Derived("ORIGIN")'
        BY <3>1, OriginArticles DEF Ids
      <3>3. pc'[p] \notin ToRemove /\ (pc'[p] \in ToAdd => e.root)
        BY <1>u, <3>1 DEF ToRemove
      <3>4. pc'[p] \in ToAdd => loc'[p].ent.id \in Derived("ORIGIN")'
        BY <3>1, <3>3, OriginArticles
      <3>5. \A q \in Procs \ {p} : pc[q] \in ToAdd \cup ToRemove => loc[q].ent.id # e.id
        BY <2>a, <2>n, <3>1
      <3> QED
        BY <1>1, <2>w, <3>1, <3>2, <3>3, <3>4, <3>5
    <2>2. CASE DelEntry(p)
      <3>1. PICK e \in Range(dir) :
              /\ loc'[p].ent = e
              /\ pc'[p] = IF e.root THEN "del_ix" ELSE Afterwards(e)
              /\ Range(dir') = Range(dir) \ {e}
              /\ IF \E q \in Procs : Adding(q, e.id) THEN Miss("half", {"ORIGIN"}) ELSE missed' = missed
        BY <1>t, <2>2, Deleted
      <3>2. \A q \in Procs : pc[q] \in ToAdd => loc[q].ent.id # e.id
        BY <2>h, <3>1 DEF Adding
      <3>3. Ids(dir') \subseteq Ids(dir) /\ e.id \notin Ids(dir')
        BY <2>a, <3>1 DEF Ids
      <3>4. \A id \in Derived("ORIGIN") : id # e.id => id \in Derived("ORIGIN")'
        BY <3>1, OriginArticles
      <3>5. pc'[p] \notin ToAdd
        BY <1>u, <3>1 DEF ToAdd
      <3> QED
        BY <1>1, <2>w, <3>1, <3>2, <3>3, <3>4, <3>5
    <2>3. CASE UndelEntry(p)
      <3>1. PICK e \in deleted, new \in Entry :
              /\ loc'[p].ent = new
              /\ (new.id = e.id /\ lastid' = lastid) \/ (new.id = lastid + 1 /\ lastid' = lastid + 1)
              /\ new.id \notin Ids(dir)
              /\ pc'[p] = IF new.root THEN "undel_ix" ELSE "end"
              /\ Range(dir') = Range(dir) \cup {new}
              /\ missed'["ORIGIN"] =
                   (missed["ORIGIN"] \/ ("half" \in Windows /\ \E q \in Procs : Removing(q, e.id)))
        BY <1>t, <2>3, Recovered
      <3>2. Ids(dir') = Ids(dir) \cup {new.id} /\ Derived("ORIGIN") \subseteq Derived("ORIGIN")'
        BY <3>1, OriginArticles DEF Ids
      <3>3. pc'[p] \notin ToRemove /\ (pc'[p] \in ToAdd => new.root)
        BY <3>1 DEF ToAdd, ToRemove
      <3>4. pc'[p] \in ToAdd => loc'[p].ent.id \in Derived("ORIGIN")'
        BY <3>1, <3>3, OriginArticles
      <3>5. \A q \in Procs \ {p} : pc[q] \in ToAdd => loc[q].ent.id # new.id
        BY <2>d, <2>w, <3>1
      <3>6. \A q \in Procs \ {p} : pc[q] \in ToRemove => loc[q].ent.id # new.id
        <4> SUFFICES ASSUME NEW q \in Procs \ {p}, pc[q] \in ToRemove, loc[q].ent.id = new.id
                     PROVE  FALSE
          OBVIOUS
        <4>1. CASE new.id = e.id
          <5>1. Removing(q, e.id)
            BY <4>1 DEF Removing
          <5> QED
            BY <3>1, <5>1
        <4>2. CASE new.id = lastid + 1
          BY <2>a, <2>n, <4>2
        <4> QED
          BY <3>1, <4>1, <4>2
      <3> QED
        BY <1>1, <2>w, <3>1, <3>2, <3>3, <3>4, <3>5, <3>6
    <2>4. CASE RangeEntries(p)
      <3>1. PICK cut \in SUBSET Range(dir) :
              /\ Range(dir') = Range(dir) \ cut
              /\ IF \E q \in Procs, e \in cut : Adding(q, e.id)
                 THEN Miss("half", {"ORIGIN"}) ELSE missed' = missed
        BY <1>t, <2>4, RangeDeleted
      <3>2. \A q \in Procs : pc[q] \in ToAdd => \A e \in cut : loc[q].ent.id # e.id
        BY <2>h, <3>1 DEF Adding
      <3>3. Ids(dir') \subseteq Ids(dir)
        BY <3>1 DEF Ids
      <3>4. \A id \in Derived("ORIGIN") : (\A e \in cut : id # e.id) => id \in Derived("ORIGIN")'
        BY <3>1, OriginArticles
      <3>5. pc'[p] = "range_dirty"
        BY <1>t, <2>4, RangeDeleted
      <3>6. pc'[p] \notin ToAdd /\ pc'[p] \notin ToRemove
        BY <3>5 DEF ToAdd, ToRemove
      <3> QED
        BY <1>1, <2>w, <3>2, <3>3, <3>4, <3>6
    <2>5. CASE ~PostEntry(p) /\ ~DelEntry(p) /\ ~UndelEntry(p) /\ ~RangeEntries(p)
      <3>1. Ids(dir') = Ids(dir) /\ Derived("ORIGIN")' = Derived("ORIGIN")
        BY <1>t, <2>5, ListStays DEF IdsInv
      <3>2. /\ pc'[p] \in ToAdd => pc[p] \in ToAdd /\ loc'[p].ent = loc[p].ent
            /\ pc'[p] \in ToRemove => pc[p] \in ToRemove /\ loc'[p].ent = loc[p].ent
        BY <1>t, <2>5, WorkStays
      <3> QED
        BY <1>1, <2>w, <3>1, <3>2
    <2> QED
      BY <2>1, <2>2, <2>3, <2>4, <2>5
  <1> QED
    BY <1>2, <1>3

(* .ORIGIN is current. *)
OriginRight ==
  /\ ~dirty["ORIGIN"] =>
       Lists(index["ORIGIN"], Derived("ORIGIN"), IdsOf(Pending), IdsOf(Obsolete))
  /\ \A p \in Procs : pc[p] = "regen_done" /\ loc[p].ix = "ORIGIN" =>
       Lists(SubSeq(index["ORIGIN"], 1, loc[p].size),
             Derived("ORIGIN"), IdsOf(Pending), IdsOf(Obsolete))

(* What there is to add and to take out, when p begins such work or ends it. *)
LEMMA WorkIds ==
  ASSUME NEW p \in Procs, \A q \in Procs \ {p} : pc'[q] = pc[q] /\ loc'[q] = loc[q]
  PROVE  /\ pc[p] \notin ToAdd /\ pc'[p] \notin ToAdd => IdsOf(Pending)' = IdsOf(Pending)
         /\ pc[p] \in ToAdd /\ pc'[p] \in ToAdd /\ loc'[p].ent = loc[p].ent =>
              IdsOf(Pending)' = IdsOf(Pending)
         /\ pc[p] \notin ToAdd /\ pc'[p] \in ToAdd =>
              IdsOf(Pending)' = IdsOf(Pending) \cup {loc'[p].ent.id}
         /\ pc[p] \in ToAdd /\ pc'[p] \notin ToAdd =>
              /\ loc[p].ent.id \in IdsOf(Pending)
              /\ IdsOf(Pending)' = {loc[q].ent.id : q \in Pending \ {p}}
         /\ pc[p] \notin ToRemove /\ pc'[p] \notin ToRemove => IdsOf(Obsolete)' = IdsOf(Obsolete)
         /\ pc[p] \in ToRemove /\ pc'[p] \in ToRemove /\ loc'[p].ent = loc[p].ent =>
              IdsOf(Obsolete)' = IdsOf(Obsolete)
         /\ pc[p] \notin ToRemove /\ pc'[p] \in ToRemove =>
              IdsOf(Obsolete)' = IdsOf(Obsolete) \cup {loc'[p].ent.id}
         /\ pc[p] \in ToRemove /\ pc'[p] \notin ToRemove =>
              IdsOf(Obsolete) \ {loc[p].ent.id} \subseteq IdsOf(Obsolete)'
  <1>1. /\ Pending = {q \in Procs : pc[q] \in ToAdd} /\ Pending' = {q \in Procs : pc'[q] \in ToAdd}
        /\ Obsolete = {q \in Procs : pc[q] \in ToRemove}
        /\ Obsolete' = {q \in Procs : pc'[q] \in ToRemove}
        /\ IdsOf(Pending) = {loc[q].ent.id : q \in Pending}
        /\ IdsOf(Pending)' = {loc'[q].ent.id : q \in Pending'}
        /\ IdsOf(Obsolete) = {loc[q].ent.id : q \in Obsolete}
        /\ IdsOf(Obsolete)' = {loc'[q].ent.id : q \in Obsolete'}
    BY DEF Pending, Obsolete, IdsOf
  <1>2. Pending \ {p} = Pending' \ {p} /\ Obsolete \ {p} = Obsolete' \ {p}
    BY <1>1
  <1>3. \A q \in Procs \ {p} : loc'[q].ent.id = loc[q].ent.id
    OBVIOUS
  <1>4. /\ {loc'[q].ent.id : q \in Pending' \ {p}} = {loc[q].ent.id : q \in Pending \ {p}}
        /\ {loc'[q].ent.id : q \in Obsolete' \ {p}} = {loc[q].ent.id : q \in Obsolete \ {p}}
    BY <1>1, <1>2, <1>3
  <1>5. /\ p \in Pending <=> pc[p] \in ToAdd
        /\ p \in Pending' <=> pc'[p] \in ToAdd
        /\ p \in Obsolete <=> pc[p] \in ToRemove
        /\ p \in Obsolete' <=> pc'[p] \in ToRemove
    BY <1>1
  <1>6. /\ p \notin Pending => IdsOf(Pending) = {loc[q].ent.id : q \in Pending \ {p}}
        /\ p \in Pending => IdsOf(Pending) = {loc[q].ent.id : q \in Pending \ {p}} \cup {loc[p].ent.id}
        /\ p \notin Pending' => IdsOf(Pending)' = {loc'[q].ent.id : q \in Pending' \ {p}}
        /\ p \in Pending' => IdsOf(Pending)' = {loc'[q].ent.id : q \in Pending' \ {p}} \cup {loc'[p].ent.id}
    BY <1>1
  <1>7. /\ p \notin Obsolete => IdsOf(Obsolete) = {loc[q].ent.id : q \in Obsolete \ {p}}
        /\ p \in Obsolete => IdsOf(Obsolete) = {loc[q].ent.id : q \in Obsolete \ {p}} \cup {loc[p].ent.id}
        /\ p \notin Obsolete' => IdsOf(Obsolete)' = {loc'[q].ent.id : q \in Obsolete' \ {p}}
        /\ p \in Obsolete' => IdsOf(Obsolete)' = {loc'[q].ent.id : q \in Obsolete' \ {p}} \cup {loc'[p].ent.id}
    BY <1>1
  <1> HIDE DEF Pending, Obsolete
  <1> QED
    BY <1>4, <1>5, <1>6, <1>7

(* Nothing changes for .ORIGIN. *)
LEMMA OriginUntouched ==
  ASSUME OriginRight, index'["ORIGIN"] = index["ORIGIN"], dirty["ORIGIN"] => dirty'["ORIGIN"],
         Derived("ORIGIN")' = Derived("ORIGIN"),
         IdsOf(Pending)' = IdsOf(Pending), IdsOf(Obsolete)' = IdsOf(Obsolete),
         \A q \in Procs : pc'[q] = "regen_done" /\ loc'[q].ix = "ORIGIN" =>
           pc[q] = "regen_done" /\ loc'[q] = loc[q]
  PROVE  OriginRight'
  <1>1. /\ ~dirty'["ORIGIN"] =>
            Lists(index'["ORIGIN"], Derived("ORIGIN")', IdsOf(Pending)', IdsOf(Obsolete)')
        /\ \A q \in Procs : pc'[q] = "regen_done" /\ loc'[q].ix = "ORIGIN" =>
             Lists(SubSeq(index'["ORIGIN"], 1, loc'[q].size),
                   Derived("ORIGIN")', IdsOf(Pending)', IdsOf(Obsolete)')
    BY DEF OriginRight
  <1> QED
    BY <1>1 DEF OriginRight, Lists, Rising, Ids

(* An article comes to .DIR or goes, .ORIGIN stays: all its files are as    *)
(* right as before.                                                         *)
LEMMA OriginWaits ==
  ASSUME OriginRight, index' = index, dirty' = dirty,
         NEW p \in Procs, pc'[p] # "regen_done",
         \A q \in Procs \ {p} : pc'[q] = pc[q] /\ loc'[q] = loc[q],
         \A f : Lists(f, Derived("ORIGIN"), IdsOf(Pending), IdsOf(Obsolete)) =>
                Lists(f, Derived("ORIGIN")', IdsOf(Pending)', IdsOf(Obsolete)')
  PROVE  OriginRight'
  <1>1. /\ ~dirty'["ORIGIN"] =>
            Lists(index'["ORIGIN"], Derived("ORIGIN")', IdsOf(Pending)', IdsOf(Obsolete)')
        /\ \A q \in Procs : pc'[q] = "regen_done" /\ loc'[q].ix = "ORIGIN" =>
             Lists(SubSeq(index'["ORIGIN"], 1, loc'[q].size),
                   Derived("ORIGIN")', IdsOf(Pending)', IdsOf(Obsolete)')
    BY DEF OriginRight
  <1> QED
    BY <1>1 DEF OriginRight, Lists, Rising, Ids

(* Nobody is writing .ORIGIN again: only what is in it counts. *)
LEMMA OriginAlone ==
  ASSUME \A q \in Procs : ~(pc'[q] = "regen_done" /\ loc'[q].ix = "ORIGIN"),
         ~dirty'["ORIGIN"] =>
            Lists(index'["ORIGIN"], Derived("ORIGIN")', IdsOf(Pending)', IdsOf(Obsolete)')
  PROVE  OriginRight'
  BY DEF OriginRight, Lists, Rising, Ids

(* .ORIGIN is written from a .DIR that is as long as fstat said.            *)
LEMMA OriginWritten ==
  ASSUME Core, IdsInv, {"stat", "half"} \subseteq Windows, NEW p \in Procs, Step(p), RegenRead(p),
         dir # <<>>, loc[p].ix = "ORIGIN", ~missed'["ORIGIN"]
  PROVE  OriginRight'
  <1>t. TypeOK /\ InOrder /\ LocksHeld /\ Fits
    BY DEF Core
  <1>0. /\ loc \in [Procs -> Loc] /\ dir \in Seq(Entry) /\ index \in [Kinds -> Seq(Entry)]
        /\ missed \in [Kinds -> BOOLEAN] /\ dirty \in [Kinds -> BOOLEAN] /\ "ORIGIN" \in Kinds
        /\ pc \in [Procs -> Stages] /\ pc[p] = "regen_read"
    BY <1>t DEF TypeOK, Loc, Kinds, RegenRead
  <1>o. \A q \in Procs \ {p} : pc'[q] = pc[q] /\ loc'[q] = loc[q]
    BY <1>0, OthersStay
  <1>1. lock["ORIGIN"] = p /\ dirty["ORIGIN"]
    BY <1>0, <1>t DEF LocksHeld, HasIndex
  <1>2. \A q \in Procs \ {p} : ~(pc'[q] = "regen_done" /\ loc'[q].ix = "ORIGIN")
    BY <1>1, <1>o, <1>t DEF LocksHeld, HasIndex
  <1> DEFINE found == Picked("ORIGIN", View(dir, loc[p].size))
             rest == SubSeq(index["ORIGIN"], Len(found) + 1, Len(index["ORIGIN"]))
             lost == \E q \in Procs :
                       LET id == loc[q].ent.id IN
                       Adding(q, id) \/ (Removing(q, id) /\ id \in Ids(dir))
  <1>3. /\ index' = [index EXCEPT !["ORIGIN"] = found \o rest]
        /\ missed' = [missed EXCEPT !["ORIGIN"] =
               \/ "stat" \in Windows /\ loc[p].size # Len(dir)
               \/ "half" \in Windows /\ "ORIGIN" = "ORIGIN" /\ lost]
        /\ loc' = [loc EXCEPT ![p].size = Len(found)] /\ dir' = dir /\ dirty' = dirty
        /\ pc' = [pc EXCEPT ![p] = "regen_done"]
    BY DEF RegenRead, Goto
  <1> HIDE DEF lost
  <1>4. loc[p].size = Len(dir) /\ ~lost
    BY <1>0, <1>3
  <1>5. found = Picked("ORIGIN", dir)
    <2>1. View(dir, loc[p].size) = dir
      BY <1>0, <1>4, ViewType
    <2> QED
      BY <1>0, <2>1
  <1>6. /\ found \in Seq(Entry) /\ Rising(found)
        /\ Range(found) = {x \in Range(dir) : Belongs("ORIGIN", x)}
    <2>1. Rising(dir)
      BY DEF IdsInv
    <2> QED
      BY <1>0, <1>5, <2>1, RisingPicked
  <1>7. index["ORIGIN"] \in Seq(Entry)
    BY <1>0
  <1> HIDE DEF found
  <1>8. rest \in Seq(Entry)
    BY <1>6, <1>7
  <1> HIDE DEF rest
  <1>9. index'["ORIGIN"] = found \o rest /\ loc'[p].size = Len(found)
    BY <1>0, <1>3 DEF Loc
  <1>10. SubSeq(index'["ORIGIN"], 1, loc'[p].size) = found
    BY <1>6, <1>8, <1>9
  <1>11. Ids(found) = Derived("ORIGIN")'
    BY <1>3, <1>6 DEF Ids, Derived
  <1>12. IdsOf(Pending)' = {}
    <2>1. \A q \in Procs : pc'[q] \notin ToAdd
      <3>1. \A q \in Procs : pc[q] \notin ToAdd
        BY <1>4 DEF lost, Adding
      <3> QED
        BY <1>0, <1>o, <1>3, <3>1 DEF ToAdd
    <2> QED
      BY <2>1 DEF Pending, IdsOf
  <1>13. Lists(found, Derived("ORIGIN")', IdsOf(Pending)', IdsOf(Obsolete)')
    BY <1>6, <1>11, <1>12 DEF Lists
  <1>14. /\ ~dirty'["ORIGIN"] =>
            Lists(index'["ORIGIN"], Derived("ORIGIN")', IdsOf(Pending)', IdsOf(Obsolete)')
         /\ \A q \in Procs : pc'[q] = "regen_done" /\ loc'[q].ix = "ORIGIN" =>
             Lists(SubSeq(index'["ORIGIN"], 1, loc'[q].size),
                   Derived("ORIGIN")', IdsOf(Pending)', IdsOf(Obsolete)')
    BY <1>1, <1>2, <1>3, <1>10, <1>13
  <1> QED
    BY <1>14 DEF OriginRight, Lists, Rising, Ids

(* What adding and taking out does to a file that is right.                *)
LEMMA ListsOneMore ==
  ASSUME NEW f, NEW D, NEW A, NEW R, Lists(f, D, A, R), NEW id, id \notin D, id \notin R
  PROVE  Lists(f, D \cup {id}, A \cup {id}, R)
  <1>1. id \notin Ids(f)
    BY DEF Lists
  <1> QED
    BY <1>1 DEF Lists
LEMMA ListsOneLess ==
  ASSUME NEW f, NEW D, NEW A, NEW R, Lists(f, D, A, R), NEW id, NEW D2, D2 \subseteq D, D \subseteq D2 \cup {id}
  PROVE  Lists(f, D2, A, R \cup {id})
  BY DEF Lists
LEMMA ListsAdded ==
  ASSUME NEW f, NEW D, NEW A, NEW R, Lists(f, D, A, R), NEW id \in D, NEW A2, id \notin A2,
         A2 \subseteq A, A \subseteq A2 \cup {id},
         NEW g, Rising(g), Ids(g) = Ids(f) \cup {id}
  PROVE  Lists(g, D, A2, R)
  BY DEF Lists
LEMMA ListsTaken ==
  ASSUME NEW f, NEW D, NEW A, NEW R, Lists(f, D, A, R), NEW id, id \notin D, NEW R2, R \ {id} \subseteq R2,
         NEW g, Rising(g), Ids(g) = Ids(f) \ {id}
  PROVE  Lists(g, D, A, R2)
  BY DEF Lists

(* What p has to add is added by nobody else.                              *)
LEMMA OneAdds ==
  ASSUME WorkInv, ~missed["ORIGIN"], NEW p \in Procs, pc[p] \in ToAdd, pc'[p] \notin ToAdd,
         \A q \in Procs \ {p} : pc'[q] = pc[q] /\ loc'[q] = loc[q]
  PROVE  /\ loc[p].ent.id \in IdsOf(Pending) /\ loc[p].ent.id \notin IdsOf(Pending)'
         /\ IdsOf(Pending)' \subseteq IdsOf(Pending)
         /\ IdsOf(Pending) \subseteq IdsOf(Pending)' \cup {loc[p].ent.id}
         /\ loc[p].ent.id \in Derived("ORIGIN")
  <1>1. IdsOf(Pending)' = {loc[q].ent.id : q \in Pending \ {p}} /\ p \in Pending
    BY WorkIds DEF Pending
  <1>2. IdsOf(Pending) = {loc[q].ent.id : q \in Pending}
    BY DEF IdsOf
  <1>3. \A q \in Pending \ {p} : loc[q].ent.id # loc[p].ent.id
    BY <1>1 DEF WorkInv
  <1>4. IdsOf(Pending) \subseteq Derived("ORIGIN")
    BY DEF WorkInv
  <1> QED
    BY <1>1, <1>2, <1>3, <1>4

(* An article comes to .DIR or goes.                                       *)
LEMMA OriginWaited ==
  ASSUME Core, IdsInv, WorkInv, OriginRight, "half" \in Windows, NEW p \in Procs, Step(p),
         ~missed["ORIGIN"], ~missed'["ORIGIN"], PostEntry(p) \/ DelEntry(p) \/ UndelEntry(p)
  PROVE  OriginRight'
  <1>t. TypeOK /\ InOrder /\ LocksHeld /\ Fits
    BY DEF Core
  <1>0. /\ pc \in [Procs -> Stages] /\ loc \in [Procs -> Loc] /\ lastid \in Nat
        /\ missed \in [Kinds -> BOOLEAN] /\ "ORIGIN" \in Kinds
    BY <1>t DEF TypeOK, Loc, Kinds
  <1>1. \A q \in Procs \ {p} : pc'[q] = pc[q] /\ loc'[q] = loc[q]
    BY <1>0, OthersStay
  <1>u. \A e : Afterwards(e) \notin ToAdd \cup ToRemove /\ Afterwards(e) # "regen_done"
    BY DEF Afterwards, ToAdd, ToRemove
  <1>i. /\ pc[p] = "idle" /\ index' = index /\ dirty' = dirty
        /\ pc[p] \notin ToAdd /\ pc[p] \notin ToRemove
    BY <1>t, Posted, Deleted, Recovered DEF ToAdd, ToRemove
  <1> DEFINE D == Derived("ORIGIN")  A == IdsOf(Pending)  R == IdsOf(Obsolete)
  <1>b. \A id \in D \cup R : id \in Nat /\ id <= lastid
    <2>1. \A id \in D : id \in Nat /\ id <= lastid
      BY <1>t, ApartById, OriginArticles
    <2>2. \A id \in R : id \in Nat /\ id <= lastid
      BY <1>t, ApartById DEF IdsOf, Obsolete
    <2> QED
      BY <2>1, <2>2
  <1>n. lastid + 1 \notin D \cup R
    <2>1. ~(lastid + 1 <= lastid)
      BY <1>0
    <2> QED
      BY <1>b, <2>1
  <1>2. CASE PostEntry(p)
    <2>1. PICK e \in Entry :
            /\ e.id = lastid + 1 /\ loc'[p].ent = e
            /\ pc'[p] = IF e.root THEN "post_ix" ELSE Afterwards(e)
            /\ Range(dir') = Range(dir) \cup {e}
      BY <1>t, <1>2, Posted
    <2>2. CASE e.root
      <3>1. pc'[p] \in ToAdd /\ pc'[p] \notin ToRemove /\ pc'[p] # "regen_done"
        BY <2>1, <2>2 DEF ToAdd, ToRemove
      <3>2. D' = D \cup {e.id}
        BY <2>1, <2>2, OriginArticles
      <3>3. A' = A \cup {e.id} /\ R' = R
        BY <1>1, <1>i, <2>1, <3>1, WorkIds
      <3>4. e.id \notin D /\ e.id \notin R
        BY <1>n, <2>1
      <3> HIDE DEF D, A, R
      <3>5. \A f : Lists(f, D, A, R) => Lists(f, D', A', R')
        BY <3>2, <3>3, <3>4, ListsOneMore
      <3> QED
        BY <1>1, <1>i, <3>1, <3>5, OriginWaits DEF D, A, R
    <2>3. CASE ~e.root
      <3>1. pc'[p] \notin ToAdd /\ pc'[p] \notin ToRemove /\ pc'[p] # "regen_done"
        BY <1>u, <2>1, <2>3
      <3>2. D' = D
        BY <2>1, <2>3, OriginArticles
      <3>3. A' = A /\ R' = R
        BY <1>1, <1>i, <3>1, WorkIds
      <3> QED
        BY <1>1, <1>i, <3>1, <3>2, <3>3, OriginWaits
    <2> QED
      BY <2>2, <2>3
  <1>3. CASE DelEntry(p)
    <2>1. PICK e \in Range(dir) :
            /\ loc'[p].ent = e
            /\ pc'[p] = IF e.root THEN "del_ix" ELSE Afterwards(e)
            /\ Range(dir') = Range(dir) \ {e}
      BY <1>t, <1>3, Deleted
    <2>2. D' \subseteq D /\ D \subseteq D' \cup {e.id} /\ (~e.root => D' = D)
      BY <2>1, OriginArticles
    <2>3. CASE e.root
      <3>1. pc'[p] \notin ToAdd /\ pc'[p] \in ToRemove /\ pc'[p] # "regen_done"
        BY <2>1, <2>3 DEF ToAdd, ToRemove
      <3>2. A' = A /\ R' = R \cup {e.id}
        BY <1>1, <1>i, <2>1, <3>1, WorkIds
      <3> HIDE DEF D, A, R
      <3>3. \A f : Lists(f, D, A, R) => Lists(f, D', A', R')
        BY <2>2, <3>2, ListsOneLess
      <3> QED
        BY <1>1, <1>i, <3>1, <3>3, OriginWaits DEF D, A, R
    <2>4. CASE ~e.root
      <3>1. pc'[p] \notin ToAdd /\ pc'[p] \notin ToRemove /\ pc'[p] # "regen_done"
        BY <1>u, <2>1, <2>4
      <3>2. A' = A /\ R' = R
        BY <1>1, <1>i, <3>1, WorkIds
      <3> QED
        BY <1>1, <1>i, <2>2, <2>4, <3>1, <3>2, OriginWaits
    <2> QED
      BY <2>3, <2>4
  <1>4. CASE UndelEntry(p)
    <2>1. PICK e \in deleted, new \in Entry :
            /\ loc'[p].ent = new
            /\ (new.id = e.id /\ lastid' = lastid) \/ (new.id = lastid + 1 /\ lastid' = lastid + 1)
            /\ new.id \notin Ids(dir)
            /\ pc'[p] = IF new.root THEN "undel_ix" ELSE "end"
            /\ Range(dir') = Range(dir) \cup {new}
            /\ missed'["ORIGIN"] =
                 (missed["ORIGIN"] \/ ("half" \in Windows /\ \E q \in Procs : Removing(q, e.id)))
      BY <1>t, <1>4, Recovered
    <2>2. CASE new.root
      <3>1. pc'[p] \in ToAdd /\ pc'[p] \notin ToRemove /\ pc'[p] # "regen_done"
        BY <2>1, <2>2 DEF ToAdd, ToRemove
      <3>2. D' = D \cup {new.id}
        BY <2>1, <2>2, OriginArticles
      <3>3. A' = A \cup {new.id} /\ R' = R
        BY <1>1, <1>i, <2>1, <3>1, WorkIds
      <3>4. new.id \notin D
        BY <2>1, OriginArticles DEF Ids
      <3>5. new.id \notin R
        <4>1. CASE new.id = e.id
          <5>1. \A q \in Procs : ~Removing(q, e.id)
            BY <2>1
          <5> QED
            BY <4>1, <5>1 DEF Removing, IdsOf, Obsolete
        <4>2. CASE new.id = lastid + 1
          BY <1>n, <4>2
        <4> QED
          BY <2>1, <4>1, <4>2
      <3> HIDE DEF D, A, R
      <3>6. \A f : Lists(f, D, A, R) => Lists(f, D', A', R')
        BY <3>2, <3>3, <3>4, <3>5, ListsOneMore
      <3> QED
        BY <1>1, <1>i, <3>1, <3>6, OriginWaits DEF D, A, R
    <2>3. CASE ~new.root
      <3>1. pc'[p] \notin ToAdd /\ pc'[p] \notin ToRemove /\ pc'[p] # "regen_done"
        BY <2>1, <2>3 DEF ToAdd, ToRemove
      <3>2. D' = D
        BY <2>1, <2>3, OriginArticles
      <3>3. A' = A /\ R' = R
        BY <1>1, <1>i, <3>1, WorkIds
      <3> QED
        BY <1>1, <1>i, <3>1, <3>2, <3>3, OriginWaits
    <2> QED
      BY <2>2, <2>3
  <1> QED
    BY <1>2, <1>3, <1>4

(* An entry of .ORIGIN comes or goes, under its lock.                      *)
LEMMA OriginChanged ==
  ASSUME Core, IdsInv, WorkInv, OriginRight, {"stale", "order", "empty"} \subseteq Windows,
         NEW p \in Procs, Step(p),
         ~missed["ORIGIN"], ~missed'["ORIGIN"], PostAdd(p) \/ UndelAdd(p) \/ DelLock(p)
  PROVE  OriginRight'
  <1>t. TypeOK /\ InOrder /\ LocksHeld /\ Fits
    BY DEF Core
  <1>0. /\ pc \in [Procs -> Stages] /\ loc \in [Procs -> Loc] /\ lastid \in Nat
        /\ missed \in [Kinds -> BOOLEAN] /\ "ORIGIN" \in Kinds /\ index \in [Kinds -> Seq(Entry)]
    BY <1>t DEF TypeOK, Loc, Kinds
  <1>1. \A q \in Procs \ {p} : pc'[q] = pc[q] /\ loc'[q] = loc[q]
    BY <1>0, OthersStay
  <1>u. \A e : Afterwards(e) \notin ToAdd \cup ToRemove /\ Afterwards(e) # "regen_done"
    BY DEF Afterwards, ToAdd, ToRemove
  <1>2. /\ lock["ORIGIN"] = Nobody /\ dir' = dir /\ dirty' = dirty /\ loc' = loc
        /\ pc' = [pc EXCEPT ![p] = IF UndelAdd(p) THEN "end" ELSE Afterwards(loc[p].ent)]
    BY DEF PostAdd, UndelAdd, DelLock, Goto
  <1>3. pc'[p] \notin ToAdd \cup ToRemove /\ pc'[p] # "regen_done"
    BY <1>0, <1>u, <1>2 DEF ToAdd, ToRemove
  <1>4. \A q \in Procs : ~(pc'[q] = "regen_done" /\ loc'[q].ix = "ORIGIN")
    <2>1. \A q \in Procs : ~(pc[q] = "regen_done" /\ loc[q].ix = "ORIGIN")
      BY <1>2, <1>t, NobodyAssumption DEF LocksHeld, HasIndex
    <2> QED
      BY <1>1, <1>3, <2>1
  <1>5. Derived("ORIGIN")' = Derived("ORIGIN")
    BY <1>2, OriginArticles
  <1> DEFINE ix == index["ORIGIN"]  id == loc[p].ent.id
             D == Derived("ORIGIN")  A == IdsOf(Pending)  R == IdsOf(Obsolete)
  <1>6. ix \in Seq(Entry) /\ loc[p].ent \in Entry
    BY <1>0 DEF Loc
  <1>m. \A w \in Windows : ~Miss(w, {"ORIGIN"})
    BY <1>0 DEF Miss
  <1> SUFFICES ASSUME ~dirty'["ORIGIN"]
               PROVE  Lists(index'["ORIGIN"], D', A', R')
    BY <1>4, OriginAlone
  <1>7. Lists(ix, D, A, R) /\ Rising(ix)
    BY <1>2 DEF OriginRight, Lists
  <1>8. CASE PostAdd(p)
    <2>1. pc[p] \in ToAdd /\ pc[p] \notin ToRemove
      BY <1>8 DEF PostAdd, ToAdd, ToRemove
    <2>2. id \in A /\ id \notin A' /\ A' \subseteq A /\ A \subseteq A' \cup {id} /\ id \in D
      BY <1>1, <1>3, <2>1, OneAdds
    <2>3. R' = R
      BY <1>1, <1>3, <2>1, WorkIds
    <2>4. index'["ORIGIN"] = Append(ix, loc[p].ent)
      BY <1>0, <1>8 DEF PostAdd
    <2>5. \A e \in Range(ix) : ~(e.id > id)
      <3>1. (\E e \in Range(ix) : e.id > id) => Miss("order", {"ORIGIN"})
        BY <1>8 DEF PostAdd
      <3> QED
        BY <1>m, <3>1
    <2>6. \A e \in Range(ix) : e.id < id
      <3>1. \A e \in Range(ix) : e.id \in Nat /\ e.id # id
        <4>1. \A i \in DOMAIN ix : ix[i] \in Entry
          BY <1>6
        <4>2. id \notin Ids(ix)
          BY <1>7, <2>2 DEF Lists
        <4> QED
          BY <4>1, <4>2 DEF Range, Entry, Ids
      <3>2. id \in Nat
        BY <1>6 DEF Entry
      <3> QED
        BY <2>5, <3>1, <3>2
    <2> HIDE DEF ix
    <2>7. Rising(index'["ORIGIN"]) /\ Ids(index'["ORIGIN"]) = Ids(ix) \cup {id}
      BY <1>6, <1>7, <2>4, <2>6, RisingAppend
    <2> HIDE DEF D, A, R, id
    <2>8. Lists(index'["ORIGIN"], D, A', R)
      BY <1>7, <2>2, <2>7, ListsAdded
    <2> QED
      BY <1>5, <2>3, <2>8 DEF D
  <1>9. CASE UndelAdd(p)
    <2>1. pc[p] \in ToAdd /\ pc[p] \notin ToRemove
      BY <1>9 DEF UndelAdd, ToAdd, ToRemove
    <2>2. id \in A /\ id \notin A' /\ A' \subseteq A /\ A \subseteq A' \cup {id} /\ id \in D
      BY <1>1, <1>3, <2>1, OneAdds
    <2>3. R' = R
      BY <1>1, <1>3, <2>1, WorkIds
    <2>4. ix # <<>> /\ Hits(ix, id) = {}
      <3>1. Hits(ix, id) = {}
        <4>1. id \notin Ids(ix)
          BY <1>7, <2>2 DEF Lists
        <4> QED
          BY <4>1 DEF Ids, Range, Hits
      <3>2. ix = <<>> => Miss("empty", {"ORIGIN"})
        BY <1>9 DEF UndelAdd
      <3> QED
        BY <1>m, <3>1, <3>2
    <2>5. PICK i \in Gaps(ix, id) : index' = [index EXCEPT !["ORIGIN"] = InsertAt(@, i, loc[p].ent)]
      BY <1>9, <2>4 DEF UndelAdd
    <2>6. index'["ORIGIN"] = InsertAt(ix, i, loc[p].ent)
      BY <1>0, <2>5
    <2> HIDE DEF ix
    <2>7. Rising(index'["ORIGIN"]) /\ Ids(index'["ORIGIN"]) = Ids(ix) \cup {id}
      BY <1>6, <1>7, <2>5, <2>6, RisingInsert
    <2> HIDE DEF D, A, R, id
    <2>8. Lists(index'["ORIGIN"], D, A', R)
      BY <1>7, <2>2, <2>7, ListsAdded
    <2> QED
      BY <1>5, <2>3, <2>8 DEF D
  <1>10. CASE DelLock(p)
    <2>1. pc[p] \in ToRemove /\ pc[p] \notin ToAdd
      BY <1>10 DEF DelLock, ToAdd, ToRemove
    <2>2. A' = A /\ R \ {id} \subseteq R'
      BY <1>1, <1>3, <2>1, WorkIds
    <2>3. id \notin D
      <3>1. id \notin Ids(dir)
        BY <2>1, WorkIs
      <3> QED
        BY <3>1, OriginArticles DEF Ids
    <2>4. View(ix, loc[p].size) = ix
      <3>1. loc[p].size # Len(ix) => Miss("stale", {"ORIGIN"})
        BY <1>10 DEF DelLock
      <3>2. loc[p].size \in Nat /\ loc[p].size = Len(ix)
        BY <1>0, <1>m, <3>1 DEF Loc
      <3> HIDE DEF ix
      <3> QED
        BY <1>6, <3>2, ViewType
    <2>5. Rising(index'["ORIGIN"]) /\ Ids(index'["ORIGIN"]) = Ids(ix) \ {id}
      <3>1. \/ \E i \in Hits(ix, id) : index' = [index EXCEPT !["ORIGIN"] = RemoveAt(ix, i)]
            \/ Gaps(ix, id) # {} /\ index' = index
        BY <1>10, <2>4 DEF DelLock
      <3>2. CASE \E i \in Hits(ix, id) : index' = [index EXCEPT !["ORIGIN"] = RemoveAt(ix, i)]
        <4>1. PICK i \in Hits(ix, id) : index' = [index EXCEPT !["ORIGIN"] = RemoveAt(ix, i)]
          BY <3>2
        <4>2. index'["ORIGIN"] = RemoveAt(ix, i) /\ i \in DOMAIN ix /\ ix[i].id = id
          BY <1>0, <4>1 DEF Hits
        <4> HIDE DEF ix
        <4> QED
          BY <1>6, <1>7, <4>2, RisingRemove
      <3>3. CASE Gaps(ix, id) # {} /\ index' = index
        <4>1. PICK i \in Gaps(ix, id) : TRUE
          BY <3>3
        <4> HIDE DEF ix
        <4>2. id \notin Ids(ix)
          BY <1>6, <1>7, <4>1, RisingInsert
        <4> QED
          BY <1>7, <3>3, <4>2 DEF ix
      <3> QED
        BY <3>1, <3>2, <3>3
    <2> HIDE DEF D, A, R, id, ix
    <2>6. Lists(index'["ORIGIN"], D, A, R')
      BY <1>7, <2>2, <2>3, <2>5, ListsTaken
    <2> QED
      BY <1>5, <2>2, <2>6 DEF D, A
  <1> QED
    BY <1>8, <1>9, <1>10

(* A step that neither begins nor ends work on .ORIGIN, nor changes it.    *)
LEMMA OriginSpared ==
  ASSUME TypeOK, InOrder, Rising(dir), OriginRight, NEW p \in Procs, Step(p),
         ~PostEntry(p), ~UndelEntry(p), ~DelEntry(p), ~RangeEntries(p),
         index'["ORIGIN"] = index["ORIGIN"], dirty["ORIGIN"] => dirty'["ORIGIN"],
         pc[p] \in ToAdd => pc'[p] \in ToAdd, pc[p] \in ToRemove => pc'[p] \in ToRemove,
         ~(pc'[p] = "regen_done" /\ loc'[p].ix = "ORIGIN")
  PROVE  OriginRight'
  <1>0. pc \in [Procs -> Stages] /\ loc \in [Procs -> Loc]
    BY DEF TypeOK, Loc
  <1>1. \A q \in Procs \ {p} : pc'[q] = pc[q] /\ loc'[q] = loc[q]
    BY <1>0, OthersStay
  <1>2. /\ pc'[p] \in ToAdd => pc[p] \in ToAdd /\ loc'[p].ent = loc[p].ent
        /\ pc'[p] \in ToRemove => pc[p] \in ToRemove /\ loc'[p].ent = loc[p].ent
    BY WorkStays
  <1>3. Derived("ORIGIN")' = Derived("ORIGIN")
    BY ListStays
  <1>4. IdsOf(Pending)' = IdsOf(Pending)
    <2>1. \/ pc[p] \notin ToAdd /\ pc'[p] \notin ToAdd
          \/ pc[p] \in ToAdd /\ pc'[p] \in ToAdd /\ loc'[p].ent = loc[p].ent
      BY <1>2
    <2> QED
      BY <1>1, <2>1, WorkIds
  <1>5. IdsOf(Obsolete)' = IdsOf(Obsolete)
    <2>1. \/ pc[p] \notin ToRemove /\ pc'[p] \notin ToRemove
          \/ pc[p] \in ToRemove /\ pc'[p] \in ToRemove /\ loc'[p].ent = loc[p].ent
      BY <1>2
    <2> QED
      BY <1>1, <2>1, WorkIds
  <1>6. \A q \in Procs : pc'[q] = "regen_done" /\ loc'[q].ix = "ORIGIN" =>
          pc[q] = "regen_done" /\ loc'[q] = loc[q]
    BY <1>1
  <1> QED
    BY <1>3, <1>4, <1>5, <1>6, OriginUntouched

(* Who finds .ORIGIN dirty leaves his article to the one who writes it.    *)
LEMMA OriginLeft ==
  ASSUME Core, "cleared" \in Windows, NEW p \in Procs, Step(p), ~missed'["ORIGIN"], NEW s, Instead(p, s),
         dirty' = dirty
  PROVE  OriginRight'
  <1>t. TypeOK
    BY DEF Core
  <1>0. pc \in [Procs -> Stages] /\ loc \in [Procs -> Loc] /\ missed \in [Kinds -> BOOLEAN]
        /\ "ORIGIN" \in Kinds
    BY <1>t DEF TypeOK, Loc, Kinds
  <1>1. \A q \in Procs \ {p} : pc'[q] = pc[q] /\ loc'[q] = loc[q]
    BY <1>0, OthersStay
  <1>2. dirty["ORIGIN"] /\ Miss("cleared", {k \in {"ORIGIN"} : AboutToClear(k)}) /\ pc'[p] = "regen_lock"
    BY <1>0 DEF Instead, Goto
  <1>3. ~AboutToClear("ORIGIN")
    BY <1>0, <1>2 DEF Miss
  <1>4. \A q \in Procs : ~(pc'[q] = "regen_done" /\ loc'[q].ix = "ORIGIN")
    BY <1>1, <1>2, <1>3 DEF AboutToClear
  <1> QED
    BY <1>2, <1>4, OriginAlone

(* delete_range sets the flag. *)
LEMMA OriginDirtied ==
  ASSUME Core, "cleared" \in Windows, NEW p \in Procs, Step(p), ~missed'["ORIGIN"], RangeDirty(p)
  PROVE  OriginRight'
  <1>t. TypeOK
    BY DEF Core
  <1>0. pc \in [Procs -> Stages] /\ loc \in [Procs -> Loc] /\ missed \in [Kinds -> BOOLEAN]
        /\ "ORIGIN" \in Kinds
    BY <1>t DEF TypeOK, Loc, Kinds
  <1>1. \A q \in Procs \ {p} : pc'[q] = pc[q] /\ loc'[q] = loc[q]
    BY <1>0, OthersStay
  <1>2. SetDirty(Kinds) /\ pc'[p] = "end"
    BY <1>0 DEF RangeDirty, Goto
  <1>3. dirty'["ORIGIN"] /\ Miss("cleared", {k \in Kinds : AboutToClear(k)})
    BY <1>0, <1>2 DEF SetDirty
  <1>4. ~AboutToClear("ORIGIN")
    BY <1>0, <1>3 DEF Miss
  <1>5. \A q \in Procs : ~(pc'[q] = "regen_done" /\ loc'[q].ix = "ORIGIN")
    BY <1>1, <1>2, <1>4 DEF AboutToClear
  <1> QED
    BY <1>3, <1>5, OriginAlone

(* ftruncate: .ORIGIN is what has been written, and becomes clean.         *)
LEMMA OriginFinished ==
  ASSUME Core, Rising(dir), OriginRight, NEW p \in Procs, Step(p), RegenDone(p), loc[p].ix = "ORIGIN"
  PROVE  OriginRight'
  <1>t. TypeOK /\ InOrder /\ LocksHeld
    BY DEF Core
  <1>0. /\ pc \in [Procs -> Stages] /\ loc \in [Procs -> Loc] /\ index \in [Kinds -> Seq(Entry)]
        /\ "ORIGIN" \in Kinds
    BY <1>t DEF TypeOK, Loc, Kinds
  <1>1. \A q \in Procs \ {p} : pc'[q] = pc[q] /\ loc'[q] = loc[q]
    BY <1>0, OthersStay
  <1>2. /\ pc[p] = "regen_done" /\ pc' = [pc EXCEPT ![p] = loc[p].then]
        /\ index'["ORIGIN"] = SubSeq(index["ORIGIN"], 1, loc[p].size) /\ dir' = dir
    BY <1>0 DEF RegenDone, Goto
  <1>3. pc'[p] \in {"end", "set_mark"}
    BY <1>0, <1>2, <1>t DEF InOrder, Regenerates
  <1>4. lock["ORIGIN"] = p
    BY <1>2, <1>t DEF LocksHeld, HasIndex
  <1>5. \A q \in Procs : ~(pc'[q] = "regen_done" /\ loc'[q].ix = "ORIGIN")
    BY <1>1, <1>3, <1>4, <1>t DEF LocksHeld, HasIndex
  <1>6. /\ pc[p] \notin ToAdd /\ pc'[p] \notin ToAdd
        /\ pc[p] \notin ToRemove /\ pc'[p] \notin ToRemove
    BY <1>2, <1>3 DEF ToAdd, ToRemove
  <1>7. IdsOf(Pending)' = IdsOf(Pending) /\ IdsOf(Obsolete)' = IdsOf(Obsolete)
    BY <1>1, <1>6, WorkIds
  <1>8. Derived("ORIGIN")' = Derived("ORIGIN")
    BY <1>2, OriginArticles
  <1>9. Lists(SubSeq(index["ORIGIN"], 1, loc[p].size),
              Derived("ORIGIN"), IdsOf(Pending), IdsOf(Obsolete))
    BY <1>2 DEF OriginRight
  <1> QED
    BY <1>2, <1>5, <1>7, <1>8, <1>9, OriginAlone

(* An article is marked by way of .ORIGIN: the copy has the same id.       *)
LEMMA OriginMarked ==
  ASSUME Core, Rising(dir), OriginRight, NEW p \in Procs, Step(p), MarkIxLock(p), loc[p].ix = "ORIGIN"
  PROVE  OriginRight'
  <1>t. TypeOK /\ InOrder /\ LocksHeld
    BY DEF Core
  <1>0. /\ pc \in [Procs -> Stages] /\ loc \in [Procs -> Loc] /\ index \in [Kinds -> Seq(Entry)]
        /\ dirty \in [Kinds -> BOOLEAN] /\ "ORIGIN" \in Kinds
    BY <1>t DEF TypeOK, Loc, Kinds
  <1>1. \A q \in Procs \ {p} : pc'[q] = pc[q] /\ loc'[q] = loc[q]
    BY <1>0, OthersStay
  <1>2. /\ pc[p] = "ix_lock" /\ lock["ORIGIN"] = Nobody /\ dir' = dir
        /\ pc'[p] \in {"ix_dir", "end"}
    BY <1>0 DEF MarkIxLock, Goto
  <1>3. dirty'["ORIGIN"] = dirty["ORIGIN"]
    <2>1. SetDirty({"MARK"}) \/ dirty' = dirty
      BY DEF MarkIxLock
    <2> QED
      BY <1>0, <2>1 DEF SetDirty
  <1>4. \A q \in Procs : ~(pc'[q] = "regen_done" /\ loc'[q].ix = "ORIGIN")
    <2>1. \A q \in Procs : ~(pc[q] = "regen_done" /\ loc[q].ix = "ORIGIN")
      BY <1>2, <1>t, NobodyAssumption DEF LocksHeld, HasIndex
    <2> QED
      BY <1>1, <1>2, <2>1
  <1>5. /\ pc[p] \notin ToAdd /\ pc'[p] \notin ToAdd
        /\ pc[p] \notin ToRemove /\ pc'[p] \notin ToRemove
    BY <1>2 DEF ToAdd, ToRemove
  <1>6. IdsOf(Pending)' = IdsOf(Pending) /\ IdsOf(Obsolete)' = IdsOf(Obsolete)
    BY <1>1, <1>5, WorkIds
  <1>7. Derived("ORIGIN")' = Derived("ORIGIN")
    BY <1>2, OriginArticles
  <1> DEFINE ix == index["ORIGIN"]
  <1> SUFFICES ASSUME ~dirty'["ORIGIN"]
               PROVE  Lists(index'["ORIGIN"], Derived("ORIGIN")', IdsOf(Pending)', IdsOf(Obsolete)')
    BY <1>4, OriginAlone
  <1>8. Lists(ix, Derived("ORIGIN"), IdsOf(Pending), IdsOf(Obsolete)) /\ Rising(ix)
    BY <1>3 DEF OriginRight, Lists
  <1>9. Rising(index'["ORIGIN"]) /\ Ids(index'["ORIGIN"]) = Ids(ix)
    <2>1. CASE index' = index
      BY <1>8, <2>1
    <2>2. CASE \E i \in Hits(View(ix, loc[p].size), loc[p].ent.id) :
                 ~(i > Len(ix)) /\ index' = [index EXCEPT !["ORIGIN"][i].marked = ~loc[p].ent.marked]
      <3>1. PICK i \in Hits(View(ix, loc[p].size), loc[p].ent.id) :
                 ~(i > Len(ix)) /\ index' = [index EXCEPT !["ORIGIN"][i].marked = ~loc[p].ent.marked]
        BY <2>2
      <3>2. i \in 1 .. loc[p].size /\ loc[p].size \in Nat /\ ix \in Seq(Entry)
        BY <1>0 DEF Hits, View, Loc
      <3>3. i \in DOMAIN ix
        BY <3>1, <3>2
      <3>4. index'["ORIGIN"] = [ix EXCEPT ![i].marked = ~loc[p].ent.marked]
        BY <1>0, <3>1
      <3> DEFINE b == ~loc[p].ent.marked
      <3>5. b \in BOOLEAN
        OBVIOUS
      <3>6. index'["ORIGIN"] = [ix EXCEPT ![i].marked = b]
        BY <3>4
      <3> HIDE DEF b, ix
      <3>7. Rising(index'["ORIGIN"]) /\ Ids(index'["ORIGIN"]) = Ids(ix)
        <4>1. ix \in Seq(Entry) /\ i \in DOMAIN ix /\ b \in BOOLEAN /\ Rising(ix)
          BY <1>8, <3>2, <3>3, <3>5
        <4> QED
          BY <3>6, <4>1, RisingMarked
      <3> QED
        BY <3>7
    <2> QED
      BY <2>1, <2>2 DEF MarkIxLock
  <1>10. Lists(index'["ORIGIN"], Derived("ORIGIN"), IdsOf(Pending), IdsOf(Obsolete))
    BY <1>8, <1>9 DEF Lists
  <1> QED
    BY <1>6, <1>7, <1>10

(* An empty .ORIGIN has nothing to be taken out.                           *)
LEMMA OriginEmpty ==
  ASSUME Core, OriginRight, NEW p \in Procs, Step(p), pc[p] = "del_ix",
         ~dirty["ORIGIN"], index["ORIGIN"] = <<>>, pc' = [pc EXCEPT ![p] = Afterwards(loc[p].ent)],
         dir' = dir, index' = index, dirty' = dirty
  PROVE  OriginRight'
  <1>t. TypeOK /\ LocksHeld
    BY DEF Core
  <1>0. pc \in [Procs -> Stages] /\ loc \in [Procs -> Loc]
    BY <1>t DEF TypeOK, Loc
  <1>1. \A q \in Procs \ {p} : pc'[q] = pc[q] /\ loc'[q] = loc[q]
    BY <1>0, OthersStay
  <1>2. pc'[p] \in {"end", "set_mark"}
    BY <1>0 DEF Afterwards
  <1>3. \A q \in Procs : ~(pc'[q] = "regen_done" /\ loc'[q].ix = "ORIGIN")
    BY <1>1, <1>2, <1>t DEF LocksHeld, HasIndex
  <1>4. pc[p] \notin ToAdd /\ pc'[p] \notin ToAdd
    BY <1>2 DEF ToAdd
  <1>5. IdsOf(Pending)' = IdsOf(Pending)
    BY <1>1, <1>4, WorkIds
  <1>6. Derived("ORIGIN")' = Derived("ORIGIN")
    BY OriginArticles
  <1>7. Lists(<<>>, Derived("ORIGIN"), IdsOf(Pending), IdsOf(Obsolete))
    BY DEF OriginRight
  <1>8. Ids(<<>>) = {}
    BY DEF Ids, Range
  <1>9. Lists(<<>>, Derived("ORIGIN"), IdsOf(Pending), IdsOf(Obsolete)')
    BY <1>7, <1>8 DEF Lists
  <1>10. Lists(index'["ORIGIN"], Derived("ORIGIN")', IdsOf(Pending)', IdsOf(Obsolete)')
    BY <1>5, <1>6, <1>9
  <1> QED
    BY <1>3, <1>10, OriginAlone

OriginWindows == {"cleared", "stat", "half", "stale", "order", "empty", "death"}

(* Nobody dies who still has something to tell of .ORIGIN.                 *)
LEMMA OriginAtPeace ==
  ASSUME TypeOK, "death" \in Windows, NEW p \in Procs, Die(p), ~missed'["ORIGIN"]
  PROVE  pc[p] \notin ToAdd /\ pc[p] \notin ToRemove /\ pc[p] # "range_dirty"
  <1>0. missed \in [Kinds -> BOOLEAN] /\ "ORIGIN" \in Kinds
    BY DEF TypeOK, Kinds
  <1>1. Miss("death", {k \in Kinds : Owes(p, k)})
    BY DEF Die
  <1>2. ~Owes(p, "ORIGIN")
    BY <1>0, <1>1 DEF Miss
  <1> QED
    BY <1>2 DEF Owes, ToAdd, ToRemove

(* Where those go who change .DIR by an entry or a range.                  *)
LEMMA ChangesGo ==
  ASSUME pc \in [Procs -> Stages], NEW p \in Procs
  PROVE  /\ PostEntry(p) => pc'[p] = "post_ix" \/ \E e : pc'[p] = Afterwards(e)
         /\ DelEntry(p) => pc'[p] = "del_ix" \/ \E e : pc'[p] = Afterwards(e)
         /\ UndelEntry(p) => pc'[p] \in {"undel_ix", "end"}
         /\ RangeEntries(p) => pc'[p] = "range_dirty"
  <1>1. ASSUME PostEntry(p) PROVE pc'[p] = "post_ix" \/ \E e : pc'[p] = Afterwards(e)
    <2>1. \E root, e : pc' = [pc EXCEPT ![p] = IF root THEN "post_ix" ELSE Afterwards(e)]
      BY <1>1 DEF PostEntry, Goto
    <2> QED
      BY <2>1
  <1>2. ASSUME DelEntry(p) PROVE pc'[p] = "del_ix" \/ \E e : pc'[p] = Afterwards(e)
    <2>1. \E root, e : pc' = [pc EXCEPT ![p] = IF root THEN "del_ix" ELSE Afterwards(e)]
      BY <1>2 DEF DelEntry, Goto
    <2> QED
      BY <2>1
  <1>3. ASSUME UndelEntry(p) PROVE pc'[p] \in {"undel_ix", "end"}
    <2>1. \E root : pc' = [pc EXCEPT ![p] = IF root THEN "undel_ix" ELSE "end"]
      BY <1>3 DEF UndelEntry, Goto
    <2> QED
      BY <2>1
  <1>4. ASSUME RangeEntries(p) PROVE pc'[p] = "range_dirty"
    BY <1>4 DEF RangeEntries, Goto
  <1> QED
    BY <1>1, <1>2, <1>3, <1>4

(* The steps of a regeneration, but for those that write .ORIGIN.          *)
LEMMA OriginRegenerated ==
  ASSUME Core, Rising(dir), OriginRight, NEW p \in Procs, Step(p), Regen(p),
         ~(RegenRead(p) /\ dir # <<>> /\ loc[p].ix = "ORIGIN")
  PROVE  OriginRight'
  <1>t. TypeOK /\ InOrder /\ LocksHeld
    BY DEF Core
  <1>0. /\ pc \in [Procs -> Stages] /\ loc \in [Procs -> Loc] /\ index \in [Kinds -> Seq(Entry)]
        /\ dirty \in [Kinds -> BOOLEAN] /\ "ORIGIN" \in Kinds
    BY <1>t DEF TypeOK, Loc, Kinds
  <1>1. pc[p] \in {"idle", "regen_lock", "regen_stat", "regen_read", "regen_done"}
    BY DEF Regen, Read, RegenLock, RegenStat, RegenRead, RegenDone
  <1>2. /\ pc[p] \notin ToAdd /\ pc[p] \notin ToRemove
        /\ ~PostEntry(p) /\ ~UndelEntry(p) /\ ~DelEntry(p) /\ ~RangeEntries(p)
    <2>1. CASE pc[p] # "idle"
      BY <1>1, <2>1 DEF ToAdd, ToRemove, PostEntry, UndelEntry, DelEntry, RangeEntries, Begin
    <2>2. CASE pc[p] = "idle"
      <3>1. pc'[p] = "regen_lock"
        BY <1>0, <2>2 DEF Regen, Read, RegenLock, RegenStat, RegenRead, RegenDone, Goto
      <3>2. \A e : Afterwards(e) # "regen_lock"
        BY DEF Afterwards
      <3>3. ~PostEntry(p) /\ ~UndelEntry(p) /\ ~DelEntry(p) /\ ~RangeEntries(p)
        BY <1>0, <3>1, <3>2, ChangesGo
      <3> QED
        BY <2>2, <3>3 DEF ToAdd, ToRemove
    <2> QED
      BY <2>1, <2>2
  <1>3. CASE RegenDone(p) /\ loc[p].ix = "ORIGIN"
    BY <1>3, OriginFinished
  <1>r. Regenerates(p) => loc[p].then \in {"end", "set_mark"}
    BY <1>t DEF InOrder
  <1>4. CASE RegenDone(p) /\ loc[p].ix # "ORIGIN"
    <2>1. index'["ORIGIN"] = index["ORIGIN"] /\ dirty'["ORIGIN"] = dirty["ORIGIN"]
      BY <1>0, <1>4 DEF RegenDone, Loc
    <2>2. pc'[p] # "regen_done"
      BY <1>0, <1>4, <1>r DEF RegenDone, Goto, Regenerates
    <2> QED
      BY <1>2, <1>t, <2>1, <2>2, OriginSpared
  <1>5. CASE RegenRead(p)
    <2>1. index'["ORIGIN"] = index["ORIGIN"] /\ dirty' = dirty
      BY <1>0, <1>5 DEF RegenRead, Loc
    <2>2. ~(pc'[p] = "regen_done" /\ loc'[p].ix = "ORIGIN")
      <3>1. CASE dir = <<>>
        <4>1. pc' = [pc EXCEPT ![p] = loc[p].then] /\ pc[p] = "regen_read"
          BY <1>5, <3>1 DEF RegenRead, Goto
        <4> QED
          BY <1>0, <1>r, <4>1 DEF Regenerates
      <3>2. CASE dir # <<>>
        <4>1. \E n : loc' = [loc EXCEPT ![p].size = n]
          BY <1>5, <3>2 DEF RegenRead
        <4>2. loc'[p].ix = loc[p].ix
          BY <1>0, <4>1 DEF Loc
        <4> QED
          BY <1>5, <3>2, <4>2
      <3> QED
        BY <3>1, <3>2
    <2> QED
      BY <1>2, <1>t, <2>1, <2>2, OriginSpared
  <1>6. CASE (\E k \in Kinds : Read(p, k)) \/ RegenLock(p) \/ RegenStat(p)
    <2>1. index' = index /\ dirty' = dirty
      BY <1>6 DEF Read, RegenLock, RegenStat
    <2>2. pc'[p] # "regen_done"
      BY <1>0, <1>6, <1>r DEF Read, RegenLock, RegenStat, Goto, Regenerates
    <2> QED
      BY <1>2, <1>t, <2>1, <2>2, OriginSpared
  <1> QED
    BY <1>3, <1>4, <1>5, <1>6 DEF Regen

(* The choice between one entry and all of them.                           *)
LEMMA OriginChosen ==
  ASSUME Core, Rising(dir), OriginRight, "cleared" \in Windows, NEW p \in Procs, Step(p),
         ~missed'["ORIGIN"], PostIx(p) \/ UndelIx(p) \/ DelIx(p)
  PROVE  OriginRight'
  <1>t. TypeOK /\ InOrder /\ LocksHeld
    BY DEF Core
  <1>0. pc \in [Procs -> Stages] /\ loc \in [Procs -> Loc]
    BY <1>t DEF TypeOK, Loc
  <1>1. index' = index /\ dirty' = dirty /\ dir' = dir
    BY DEF PostIx, UndelIx, DelIx
  <1>2. /\ pc[p] # "idle"
        /\ ~PostEntry(p) /\ ~UndelEntry(p) /\ ~DelEntry(p) /\ ~RangeEntries(p)
    BY DEF PostIx, UndelIx, DelIx, PostEntry, UndelEntry, DelEntry, RangeEntries, Begin
  <1>3. \/ \E s : Instead(p, s)
        \/ pc[p] = "post_ix" /\ pc' = [pc EXCEPT ![p] = "post_add"]
        \/ pc[p] = "undel_ix" /\ pc' = [pc EXCEPT ![p] = "undel_add"]
        \/ pc[p] = "del_ix" /\ pc' = [pc EXCEPT ![p] = "del_lock"]
        \/ /\ pc[p] = "del_ix" /\ ~dirty["ORIGIN"] /\ index["ORIGIN"] = <<>>
           /\ pc' = [pc EXCEPT ![p] = Afterwards(loc[p].ent)]
    BY DEF PostIx, UndelIx, DelIx, Goto
  <1>4. CASE \E s : Instead(p, s)
    BY <1>1, <1>4, OriginLeft
  <1>5. CASE /\ pc[p] = "del_ix" /\ ~dirty["ORIGIN"] /\ index["ORIGIN"] = <<>>
             /\ pc' = [pc EXCEPT ![p] = Afterwards(loc[p].ent)]
    BY <1>1, <1>5, OriginEmpty
  <1>6. CASE \/ pc[p] = "post_ix" /\ pc' = [pc EXCEPT ![p] = "post_add"]
             \/ pc[p] = "undel_ix" /\ pc' = [pc EXCEPT ![p] = "undel_add"]
             \/ pc[p] = "del_ix" /\ pc' = [pc EXCEPT ![p] = "del_lock"]
    <2>1. /\ pc[p] \in ToAdd => pc'[p] \in ToAdd
          /\ pc[p] \in ToRemove => pc'[p] \in ToRemove
          /\ pc'[p] # "regen_done"
      BY <1>0, <1>6 DEF ToAdd, ToRemove
    <2> QED
      BY <1>1, <1>2, <1>t, <2>1, OriginSpared
  <1> QED
    BY <1>3, <1>4, <1>5, <1>6

(* The steps of those who mark, and the ends of all.                       *)
LEMMA OriginApart ==
  ASSUME Core, Rising(dir), OriginRight, "death" \in Windows, NEW p \in Procs, Step(p),
         ~missed'["ORIGIN"], SetMark(p) \/ End(p) \/ Mark(p) \/ Die(p)
  PROVE  OriginRight'
  <1>t. TypeOK /\ InOrder /\ LocksHeld
    BY DEF Core
  <1>0. /\ pc \in [Procs -> Stages] /\ loc \in [Procs -> Loc] /\ index \in [Kinds -> Seq(Entry)]
        /\ dirty \in [Kinds -> BOOLEAN] /\ "ORIGIN" \in Kinds
    BY <1>t DEF TypeOK, Loc, Kinds
  <1>1. CASE MarkIxLock(p) /\ loc[p].ix = "ORIGIN"
    BY <1>1, OriginMarked
  <1>2. CASE ~(MarkIxLock(p) /\ loc[p].ix = "ORIGIN")
    <2>1. pc'[p] \in {"end", "idle", "mark_dirty", "ix_lock", "ix_dir"}
      BY <1>0 DEF SetMark, End, Mark, MarkWrite, MarkDirty, MarkIxMap, MarkIxLock, MarkIxDir, Die, Goto
    <2>2. pc'[p] # "regen_done"
      BY <2>1
    <2>3. pc[p] \notin ToAdd /\ pc[p] \notin ToRemove
      <3>1. CASE Die(p)
        BY <1>t, <3>1, OriginAtPeace
      <3>2. CASE SetMark(p) \/ End(p) \/ Mark(p)
        BY <3>2 DEF SetMark, End, Mark, MarkWrite, MarkDirty, MarkIxMap, MarkIxLock, MarkIxDir, Begin,
           ToAdd, ToRemove
      <3> QED
        BY <3>1, <3>2
    <2>4. ~PostEntry(p) /\ ~UndelEntry(p) /\ ~DelEntry(p) /\ ~RangeEntries(p)
      <3>1. CASE pc[p] # "idle"
        BY <3>1 DEF PostEntry, UndelEntry, DelEntry, RangeEntries, Begin
      <3>2. CASE pc[p] = "idle"
        <4>1. MarkWrite(p) \/ \E k \in Kinds : MarkIxMap(p, k)
          BY <3>2 DEF SetMark, End, Mark, MarkDirty, MarkIxLock, MarkIxDir, Die
        <4>2. pc'[p] \in {"mark_dirty", "ix_lock"}
          BY <1>0, <4>1 DEF MarkWrite, MarkIxMap, Goto
        <4>3. \A e : Afterwards(e) \notin {"mark_dirty", "ix_lock"}
          BY DEF Afterwards
        <4> QED
          BY <1>0, <4>2, <4>3, ChangesGo
      <3> QED
        BY <3>1, <3>2
    <2>5. index'["ORIGIN"] = index["ORIGIN"]
      <3>1. CASE MarkIxLock(p)
        BY <1>0, <1>2, <3>1 DEF MarkIxLock, Loc
      <3>2. CASE ~MarkIxLock(p)
        BY <3>2 DEF SetMark, End, Mark, MarkWrite, MarkDirty, MarkIxMap, MarkIxDir, Die
      <3> QED
        BY <3>1, <3>2
    <2>6. dirty["ORIGIN"] => dirty'["ORIGIN"]
      <3>1. SetDirty({"MARK"}) \/ dirty' = dirty
        BY DEF SetMark, End, Mark, MarkWrite, MarkDirty, MarkIxMap, MarkIxLock, MarkIxDir, Die
      <3> QED
        BY <1>0, <3>1 DEF SetDirty
    <2> QED
      BY <1>t, <2>2, <2>3, <2>4, <2>5, <2>6, OriginSpared
  <1> QED
    BY <1>1, <1>2

(* Every step of every process.                                            *)
LEMMA OriginStays ==
  ASSUME Core, IdsInv, WorkInv, OriginInv, OriginWindows \subseteq Windows,
         NEW p \in Procs, Step(p), ~missed'["ORIGIN"], \A q \in Procs : pc'[q] # "range_dirty"
  PROVE  OriginRight'
  <1>t. TypeOK /\ InOrder /\ LocksHeld
    BY DEF Core
  <1>0. pc \in [Procs -> Stages] /\ loc \in [Procs -> Loc] /\ "ORIGIN" \in Kinds /\ Rising(dir)
    BY <1>t DEF TypeOK, Loc, Kinds, IdsInv
  <1>w. /\ {"stat", "half"} \subseteq Windows /\ {"stale", "order", "empty"} \subseteq Windows
        /\ "cleared" \in Windows /\ "half" \in Windows /\ "death" \in Windows
    BY DEF OriginWindows
  <1>1. CASE RegenRead(p) /\ dir # <<>> /\ loc[p].ix = "ORIGIN"
    BY <1>1, <1>w, OriginWritten
  <1>2. CASE RangeDirty(p)
    BY <1>2, <1>w, OriginDirtied
  <1>3. CASE ~(RegenRead(p) /\ dir # <<>> /\ loc[p].ix = "ORIGIN") /\ ~RangeDirty(p)
    <2>1. ~missed["ORIGIN"]
      BY <1>0, <1>3, <1>t, MissesStay
    <2>2. \A q \in Procs : pc[q] # "range_dirty"
      <3>1. \A q \in Procs \ {p} : pc'[q] = pc[q]
        BY <1>0, OthersStay
      <3>2. ASSUME pc[p] = "range_dirty" PROVE FALSE
        <4>1. Die(p)
          <5>1. ~Regen(p) /\ ~Post(p)
            BY <3>2 DEF Regen, Read, RegenLock, RegenStat, RegenRead, RegenDone, Post, PostEntry,
               PostIx, PostAdd, Begin
          <5>2. ~Del(p) /\ ~Undel(p)
            BY <3>2 DEF Del, DelEntry, DelIx, DelLock, SetMark, End, Undel, UndelEntry, UndelIx,
               UndelAdd, Begin
          <5>3. ~Mark(p) /\ ~RangeEntries(p)
            BY <3>2 DEF Mark, MarkWrite, MarkDirty, MarkIxMap, MarkIxLock, MarkIxDir, RangeEntries, Begin
          <5> QED
            BY <1>3, <5>1, <5>2, <5>3 DEF Step, Delete_Range
        <4> QED
          BY <1>t, <1>w, <3>2, <4>1, OriginAtPeace
      <3> QED
        BY <3>1, <3>2
    <2>3. OriginRight
      BY <2>1, <2>2 DEF OriginInv, OriginRight
    <2>4. CASE Regen(p)
      BY <1>0, <1>3, <2>3, <2>4, OriginRegenerated
    <2>5. CASE PostEntry(p) \/ DelEntry(p) \/ UndelEntry(p)
      BY <1>w, <2>1, <2>3, <2>5, OriginWaited
    <2>6. CASE PostIx(p) \/ DelIx(p) \/ UndelIx(p)
      BY <1>0, <1>w, <2>3, <2>6, OriginChosen
    <2>7. CASE PostAdd(p) \/ DelLock(p) \/ UndelAdd(p)
      BY <1>w, <2>1, <2>3, <2>7, OriginChanged
    <2>8. CASE SetMark(p) \/ End(p) \/ Mark(p) \/ Die(p)
      BY <1>0, <1>w, <2>3, <2>8, OriginApart
    <2>9. CASE RangeEntries(p)
      BY <1>0, <2>9 DEF RangeEntries, Goto
    <2> QED
      BY <1>3, <2>4, <2>5, <2>6, <2>7, <2>8, <2>9 DEF Step, Post, Del, Undel, Delete_Range
  <1> QED
    BY <1>1, <1>2, <1>3

(* What there is when the model starts.                                    *)
LEMMA OriginInit == Init => IdsInv /\ WorkInv /\ OriginInv
  <1> SUFFICES ASSUME Init PROVE IdsInv /\ WorkInv /\ OriginInv
    OBVIOUS
  <1>1. /\ dir = Old /\ deleted = {} /\ lastid = LastOld /\ "ORIGIN" \in Kinds
        /\ index = [k \in Kinds |-> Picked(k, Old)] /\ \A q \in Procs : pc[q] = "idle"
    BY DEF Init, Kinds
  <1>2. Old \in Seq(Entry) /\ Rising(Old) /\ \A i \in DOMAIN Old : Old[i].id <= LastOld
    BY OldAssumption
  <1>3. Pending = {} /\ Obsolete = {} /\ IdsOf(Pending) = {} /\ IdsOf(Obsolete) = {}
    BY <1>1 DEF Pending, Obsolete, ToAdd, ToRemove, IdsOf
  <1>4. IdsInv
    BY <1>1, <1>2, <1>3 DEF IdsInv, Range
  <1>5. WorkInv
    BY <1>3 DEF WorkInv
  <1>6. Rising(Picked("ORIGIN", Old))
        /\ Range(Picked("ORIGIN", Old)) = {x \in Range(Old) : Belongs("ORIGIN", x)}
    BY <1>2, RisingPicked
  <1>7. index["ORIGIN"] = Picked("ORIGIN", Old)
    BY <1>1
  <1>8. Ids(index["ORIGIN"]) = Derived("ORIGIN")
    BY <1>1, <1>6, <1>7 DEF Ids, Derived
  <1>9. Lists(index["ORIGIN"], Derived("ORIGIN"), IdsOf(Pending), IdsOf(Obsolete))
    BY <1>3, <1>6, <1>7, <1>8 DEF Lists
  <1>10. OriginInv
    BY <1>1, <1>9 DEF OriginInv
  <1> QED
    BY <1>4, <1>5, <1>10

(* bcache.c:667, 724: a clean .ORIGIN lists the first articles of .DIR,    *)
(* each once, when nobody is at work, whoever posted, deleted, recovered   *)
(* or cut before, if nothing fell into one of the seven windows that       *)
(* concern it.                                                             *)
THEOREM OriginIsCurrent ==
  ASSUME {"cleared", "stat", "half", "stale", "order", "empty", "death"} \subseteq Windows
  PROVE  Spec => []OriginCurrent
  <1> DEFINE Inv == Core /\ IdsInv /\ WorkInv /\ OriginInv
  <1>1. Init => Inv
    BY CoreInit, OriginInit
  <1>2. Inv /\ [Next]_vars => Inv'
    <2> SUFFICES ASSUME Core, IdsInv, WorkInv, OriginInv, [Next]_vars
                 PROVE  IdsInv' /\ WorkInv' /\ OriginInv'
      BY CoreStep
    <2>1. ASSUME NEW p \in Procs, Step(p) PROVE IdsInv' /\ WorkInv' /\ OriginInv'
      <3>1. IdsInv'
        BY <2>1, IdsStay DEF Core
      <3>2. WorkInv'
        BY <2>1, WorkStay
      <3>3. ~missed'["ORIGIN"] /\ (\A q \in Procs : pc'[q] # "range_dirty") => OriginRight'
        BY <2>1, OriginStays DEF OriginWindows
      <3>4. OriginInv'
        BY <3>3 DEF OriginInv, OriginRight
      <3> QED
        BY <3>1, <3>2, <3>4
    <2>2. CASE Reboot
      <3>1. missed'["ORIGIN"] = (missed["ORIGIN"] \/ dirty["ORIGIN"])
        BY <2>2 DEF Reboot, Miss, Kinds
      <3>2. /\ dir' = dir /\ deleted' = deleted /\ lastid' = lastid /\ index' = index
            /\ pc' = pc /\ loc' = loc
        BY <2>2 DEF Reboot
      <3>3. Pending' = Pending /\ Obsolete' = Obsolete /\ Derived("ORIGIN")' = Derived("ORIGIN")
            /\ IdsOf(Pending)' = IdsOf(Pending) /\ IdsOf(Obsolete)' = IdsOf(Obsolete)
        BY <3>2 DEF Pending, Obsolete, IdsOf, Derived
      <3>4. IdsInv'
        BY <3>2, <3>3 DEF IdsInv, Ids, Rising
      <3>5. WorkInv'
        BY <3>1, <3>2, <3>3 DEF WorkInv, Ids
      <3>6. OriginInv'
        BY <3>1, <3>2, <3>3 DEF OriginInv, Lists, Ids, Rising
      <3> QED
        BY <3>4, <3>5, <3>6
    <2>3. CASE UNCHANGED vars
      <3>1. /\ dir' = dir /\ deleted' = deleted /\ lastid' = lastid /\ index' = index
            /\ pc' = pc /\ loc' = loc /\ missed' = missed /\ dirty' = dirty
        BY <2>3 DEF vars
      <3>2. Pending' = Pending /\ Obsolete' = Obsolete /\ Derived("ORIGIN")' = Derived("ORIGIN")
            /\ IdsOf(Pending)' = IdsOf(Pending) /\ IdsOf(Obsolete)' = IdsOf(Obsolete)
        BY <3>1 DEF Pending, Obsolete, IdsOf, Derived
      <3>3. IdsInv'
        BY <3>1, <3>2 DEF IdsInv, Ids, Rising
      <3>4. WorkInv'
        BY <3>1, <3>2 DEF WorkInv, Ids
      <3>5. OriginInv'
        BY <3>1, <3>2 DEF OriginInv, Lists, Ids, Rising
      <3> QED
        BY <3>3, <3>4, <3>5
    <2> QED
      BY <2>1, <2>2, <2>3, Steps
  <1>3. Inv => OriginCurrent
    <2> SUFFICES ASSUME Core, OriginInv, Quiet, ~dirty["ORIGIN"], ~missed["ORIGIN"]
                 PROVE  /\ Ids(index["ORIGIN"]) = Derived("ORIGIN")
                        /\ Len(index["ORIGIN"]) = Cardinality(Derived("ORIGIN"))
      BY DEF OriginCurrent
    <2>1. index["ORIGIN"] \in Seq(Entry)
      BY DEF Core, TypeOK, Kinds
    <2>2. IdsOf(Pending) = {} /\ IdsOf(Obsolete) = {}
      BY DEF Quiet, Pending, Obsolete, ToAdd, ToRemove, IdsOf
    <2>3. Lists(index["ORIGIN"], Derived("ORIGIN"), IdsOf(Pending), IdsOf(Obsolete))
      BY DEF OriginInv, Quiet
    <2>4. Ids(index["ORIGIN"]) = Derived("ORIGIN") /\ Rising(index["ORIGIN"])
      BY <2>2, <2>3 DEF Lists
    <2> QED
      BY <2>1, <2>4, RisingCounts
  <1> QED
    BY <1>1, <1>2, <1>3, PTL DEF Spec
=============================================================================
