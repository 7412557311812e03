----------------------------- MODULE UtmpTable -----------------------------
(***************************************************************************)
(* The table of the sessions that are online (libBBS/utmp.c): the shared   *)
(* memory segments utmpshm and utmphead, changed only by utmpd, one        *)
(* request at a time and under utmp_lock.                                  *)
(*                                                                         *)
(* The linked lists of utmphead are given here as the sequences they       *)
(* stand for: hashhead/next is chain, listhead/list_next/list_prev is      *)
(* ring.  Module UtmpLinks has the pointers and implements this one.       *)
(***************************************************************************)
EXTENDS Naturals, FiniteSets, SequencesExt

CONSTANTS
  N,          \* USHM_SIZE, the number of slots
  Users,      \* user ids, as numbers in the order of strcasecmp
  Hash,       \* Hash[u]: utmp_hash, the chain of user u
  Pids,       \* what the field pid of a session can be
  Garbage     \* user ids that may be in a local variable not initialized

NoUser == 0                     \* the user id of a slot never used
Slots  == 1 .. N
NoSlot == 0

ASSUME NAssumption     == N \in Nat \ {0}
ASSUME UsersAssumption == Users \subseteq Nat \ {NoUser}
ASSUME GarbageAssumption == Garbage \subseteq Users \cup {NoUser} /\ Garbage # {}
ASSUME HashAssumption  == Hash \in [Users -> Nat \ {0}]

VARIABLES
  info,       \* utmpshm->uinfo: what a slot says of its session
  chain,      \* chain[h]: the slots on hash chain h; chain[0]: the free ones
  ring,       \* the slots in use, in the order of user ids
  number      \* utmphead->number

tableVars == <<info, chain, ring, number>>

Buckets == {0} \cup {Hash[u] : u \in Users}
Active(s) == info[s].active
Online  == {s \in Slots : Active(s)}

-----------------------------------------------------------------------------
(* Mutated forms of definitions below. *)
Place_AtHead(u) == 1                          \* no search in the ring
Free_StaysChained(s) ==                       \* not taken off its hash chain
  /\ chain' = [chain EXCEPT ![0] = <<s>> \o @]
  /\ ring' = RemoveFirst(ring, s)
  /\ number' = IF Active(s) THEN number - 1 ELSE number
  /\ \E u \in Garbage :
       info' = [info EXCEPT ![s] = [active |-> FALSE, user |-> u, pid |-> 0]]
Free_CountsAll(s) ==                          \* number never goes down
  /\ chain' = [chain EXCEPT ![0] = <<s>> \o @,
                            ![Hash[info[s].user]] = RemoveFirst(@, s)]
  /\ ring' = RemoveFirst(ring, s)
  /\ number' = number
  /\ \E u \in Garbage :
       info' = [info EXCEPT ![s] = [active |-> FALSE, user |-> u, pid |-> 0]]

-----------------------------------------------------------------------------
(* The position in the ring before the first session whose user id is not  *)
(* smaller.                                                                *)
Place(u) ==
  LET notLess == {i \in DOMAIN ring : u <= info[ring[i]].user}
  IN  IF notLess = {} THEN Len(ring) + 1
      ELSE CHOOSE i \in notLess : \A j \in notLess : i <= j

(* resolve_utmp: the segments are created, all slots are free. *)
TableInit ==
  /\ info = [s \in Slots |-> [active |-> FALSE, user |-> NoUser, pid |-> 0]]
  /\ chain = [h \in Buckets |-> IF h = 0 THEN [i \in 1 .. N |-> i] ELSE <<>>]
  /\ ring = <<>>
  /\ number = 0

(* getnewutmpent2 where there is a free slot: the slot at the head of the  *)
(* free chain goes into the ring and to the head of its user's chain.      *)
Granted == Head(chain[0])
Alloc(u, p) ==
  /\ chain[0] # <<>>
  /\ info' = [info EXCEPT ![Granted] = [active |-> TRUE, user |-> u, pid |-> p]]
  /\ chain' = [chain EXCEPT ![0] = Tail(@), ![Hash[u]] = <<Granted>> \o @]
  /\ ring' = InsertAt(ring, Place(u), Granted)
  /\ number' = number + 1

(* clear_utmp2: the slot leaves its user's chain and the ring and becomes  *)
(* the head of the free chain.  zeroinfo is a local variable of which only *)
(* some fields are set: uid and userid are what was on the stack.  A slot  *)
(* that is not in use is not refused (the return is commented out).        *)
Unchained(s) ==
  IF info[s].user \in Users
  THEN [chain EXCEPT ![Hash[info[s].user]] = RemoveFirst(@, s)] ELSE chain
Free(s) ==
  /\ chain' = [Unchained(s) EXCEPT ![0] = <<s>> \o @]
  /\ ring' = RemoveFirst(ring, s)
  /\ number' = IF Active(s) THEN number - 1 ELSE number
  /\ \E u \in Garbage :
       info' = [info EXCEPT ![s] = [active |-> FALSE, user |-> u, pid |-> 0]]

-----------------------------------------------------------------------------
(* The table by itself: utmpd takes requests for new sessions and for      *)
(* clearing those there are.                                               *)
TableNext == \/ \E u \in Users, p \in Pids : Alloc(u, p)
             \/ \E s \in Online : Free(s)

TableSpec == TableInit /\ [][TableNext]_tableVars

-----------------------------------------------------------------------------
(* Types of the variables. *)
TableTypeOK ==
  /\ info \in [Slots -> [active : BOOLEAN, user : Users \cup {NoUser},
                         pid : Pids \cup {0}]]
  /\ chain \in [Buckets -> Seq(Slots)]
  /\ ring \in Seq(Slots)
  /\ number \in Nat

(* What utmpcheck (local_utl/utmpcheck.c:91-134) looks for: every slot is  *)
(* on one chain and there once, the free slots on chain 0, a session on    *)
(* the chain of its user.  An apply_utmp for a user then meets all his     *)
(* sessions, and no slot is handed out that is in use.                     *)
ChainsPartition ==
  /\ \A h \in Buckets : IsInjective(chain[h])
  /\ Range(chain[0]) = Slots \ Online
  /\ \A h \in Buckets \ {0} :
       Range(chain[h]) = {s \in Online : Hash[info[s].user] = h}

(* utmpcheck.c:136-153: the ring has the sessions, sorted by user id; and  *)
(* get_utmp_number is how many there are.                                  *)
RingSorted ==
  /\ IsInjective(ring) /\ Range(ring) = Online
  /\ \A i, j \in DOMAIN ring : i < j => info[ring[i]].user <= info[ring[j]].user
  /\ number = Cardinality(Online)
=============================================================================
