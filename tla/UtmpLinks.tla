----------------------------- MODULE UtmpLinks -----------------------------
(***************************************************************************)
(* The lists of utmphead as getnewutmpent2 and clear_utmp2 (libBBS/utmp.c) *)
(* keep them: hash chains linked through next, the free slots linked       *)
(* through next as well, from hashhead[0], and a ring linked in both       *)
(* directions through list_next and list_prev.  0 is the null link.        *)
(*                                                                         *)
(* The module implements UtmpTable, which has sequences in their place.    *)
(***************************************************************************)
EXTENDS Naturals, Sequences

CONSTANTS N, Users, Hash, Pids, Garbage      \* as in UtmpTable

ASSUME NAssumption       == N \in Nat \ {0}
ASSUME UsersAssumption   == Users \subseteq Nat \ {0}
ASSUME GarbageAssumption == Garbage \subseteq Users \cup {0} /\ Garbage # {}
ASSUME HashAssumption    == Hash \in [Users -> Nat \ {0}]

VARIABLES
  uinfo,                      \* utmpshm->uinfo
  hashhead, next,             \* the chains
  listhead, list_next, list_prev,   \* the ring
  number

links == <<hashhead, next, listhead, list_next, list_prev>>
vars  == <<uinfo, hashhead, next, listhead, list_next, list_prev, number>>

Slots   == 1 .. N
NoUser  == 0
Buckets == {0} \cup {Hash[u] : u \in Users}
Zeroed(v) == [s \in Slots |-> v]

-----------------------------------------------------------------------------
(* Follow links from a slot: the sequence of slots up to a null link, or,  *)
(* in the ring, up to the slot `stop'.  At most N of them are followed.    *)
Follow(link, from, stop) ==
  LET at[i \in Nat] == IF i = 0 THEN from
                       ELSE LET s == at[i - 1] IN IF s = 0 THEN 0 ELSE link[s]
      ends(n) == n = N \/ at[n] \in {0, stop}
      len == CHOOSE n \in 1 .. N : ends(n) /\ \A i \in 1 .. n - 1 : ~ends(i)
  IN  [i \in 1 .. (IF from = 0 THEN 0 ELSE len) |-> at[i - 1]]

ChainOf(h) == Follow(next, hashhead[h], 0)
RingOf     == Follow(list_next, listhead, listhead)

(* The slot before which user u belongs: the first after listhead that has *)
(* a user id not smaller, or listhead itself when all of them are smaller. *)
Before(u) ==
  LET r == RingOf
      notLess == {i \in DOMAIN r : u <= uinfo[r[i]].user}
  IN  IF notLess = {} THEN listhead
      ELSE r[CHOOSE i \in notLess : \A j \in notLess : i <= j]

-----------------------------------------------------------------------------
(* Mutated forms of definitions below. *)
RingInsert_OneWay(pos, u) ==        \* list_prev of the successor is not set
  IF listhead = 0
  THEN /\ listhead' = pos
       /\ list_prev' = [list_prev EXCEPT ![pos] = pos]
       /\ list_next' = [list_next EXCEPT ![pos] = pos]
  ELSE LET i == Before(u)  p == list_prev[i] IN
       /\ list_prev' = [list_prev EXCEPT ![pos] = p]
       /\ list_next' = [list_next EXCEPT ![pos] = i, ![p] = pos]
       /\ listhead' = IF u <= uinfo[listhead].user THEN pos ELSE listhead
RingInsert_HeadStays(pos, u) ==     \* listhead stays when the slot is first
  IF listhead = 0
  THEN /\ listhead' = pos
       /\ list_prev' = [list_prev EXCEPT ![pos] = pos]
       /\ list_next' = [list_next EXCEPT ![pos] = pos]
  ELSE LET i == Before(u)  p == list_prev[i] IN
       /\ list_prev' = [list_prev EXCEPT ![pos] = p, ![i] = pos]
       /\ list_next' = [list_next EXCEPT ![pos] = i, ![p] = pos]
       /\ listhead' = listhead
Pred_AnyLink(s) == hashhead[Hash[uinfo[s].user]]    \* the loop stops at once
Init_LastLinked ==                  \* the last free slot links to the first
  /\ uinfo = Zeroed([active |-> FALSE, user |-> NoUser, pid |-> 0])
  /\ hashhead = [h \in Buckets |-> IF h = 0 THEN 1 ELSE 0]
  /\ next = [s \in Slots |-> IF s = N THEN 1 ELSE s + 1]
  /\ listhead = 0 /\ list_next = Zeroed(0) /\ list_prev = Zeroed(0)
  /\ number = 0

-----------------------------------------------------------------------------
(* Link slot pos into the ring.  It becomes the head of the ring if the    *)
(* user id of the head is not smaller.                                     *)
RingInsert(pos, u) ==
  IF listhead = 0
  THEN /\ listhead' = pos
       /\ list_prev' = [list_prev EXCEPT ![pos] = pos]
       /\ list_next' = [list_next EXCEPT ![pos] = pos]
  ELSE LET i == Before(u)  p == list_prev[i] IN
       /\ list_prev' = [list_prev EXCEPT ![pos] = p, ![i] = pos]
       /\ list_next' = [list_next EXCEPT ![pos] = i, ![p] = pos]
       /\ listhead' = IF u <= uinfo[listhead].user THEN pos ELSE listhead

(* getnewutmpent2. *)
New(u, p) ==
  LET pos == hashhead[0] IN
  /\ pos # 0
  /\ RingInsert(pos, u)
  /\ uinfo' = [uinfo EXCEPT ![pos] = [active |-> TRUE, user |-> u, pid |-> p]]
  /\ next' = [next EXCEPT ![pos] = hashhead[Hash[u]]]
  /\ hashhead' = [hashhead EXCEPT ![0] = next[pos], ![Hash[u]] = pos]
  /\ number' = number + 1

(* clear_utmp2: the chain of the slot without the slot: its link replaces  *)
(* the link to it, in hashhead or in the slot found before it.             *)
Pred(s) ==
  LET c == ChainOf(Hash[uinfo[s].user])
  IN  c[CHOOSE i \in 1 .. Len(c) - 1 : c[i + 1] = s]
Clear(s) ==
  LET h == Hash[uinfo[s].user]
      first == hashhead[h] = s
      alone == list_next[s] = s
      p == list_prev[s]   n == list_next[s] IN
  /\ hashhead' = IF first THEN [hashhead EXCEPT ![h] = next[s], ![0] = s]
                          ELSE [hashhead EXCEPT ![0] = s]
  /\ next' = IF first THEN [next EXCEPT ![s] = hashhead[0]]
             ELSE [next EXCEPT ![Pred(s)] = next[s], ![s] = hashhead[0]]
  /\ listhead' = IF listhead # s THEN listhead ELSE IF alone THEN 0 ELSE n
  /\ list_next' = [list_next EXCEPT ![p] = n]
  /\ list_prev' = [list_prev EXCEPT ![n] = p]
  /\ number' = IF uinfo[s].active THEN number - 1 ELSE number
  /\ \E u \in Garbage :
       uinfo' = [uinfo EXCEPT ![s] = [active |-> FALSE, user |-> u, pid |-> 0]]

(* resolve_utmp. *)
Init ==
  /\ uinfo = Zeroed([active |-> FALSE, user |-> NoUser, pid |-> 0])
  /\ hashhead = [h \in Buckets |-> IF h = 0 THEN 1 ELSE 0]
  /\ next = [s \in Slots |-> IF s = N THEN 0 ELSE s + 1]
  /\ listhead = 0 /\ list_next = Zeroed(0) /\ list_prev = Zeroed(0)
  /\ number = 0

Next == \/ \E u \in Users, p \in Pids : New(u, p)
        \/ \E s \in Slots : uinfo[s].active /\ Clear(s)

Spec == Init /\ [][Next]_vars

-----------------------------------------------------------------------------
(* Types of the variables. *)
TypeOK ==
  /\ uinfo \in [Slots -> [active : BOOLEAN, user : Users \cup {NoUser},
                          pid : Pids \cup {0}]]
  /\ hashhead \in [Buckets -> 0 .. N] /\ next \in [Slots -> 0 .. N]
  /\ listhead \in 0 .. N
  /\ list_next \in [Slots -> 0 .. N] /\ list_prev \in [Slots -> 0 .. N]
  /\ number \in 0 .. N

(* The ring can be walked both ways: list_prev undoes list_next for the    *)
(* slots in it (utmpcheck.c:147).                                          *)
RingTwoWay ==
  \A s \in Slots : uinfo[s].active =>
    /\ list_prev[list_next[s]] = s
    /\ list_next[list_prev[s]] = s

Table == INSTANCE UtmpTable
           WITH info <- uinfo, ring <- RingOf,
                chain <- [h \in Buckets |-> ChainOf(h)]

(* The links are a correct implementation of chains and a ring. *)
ImplementsTable == Table!TableSpec
TableConsistent == Table!ChainsPartition /\ Table!RingSorted
=============================================================================
