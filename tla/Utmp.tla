-------------------------------- MODULE Utmp --------------------------------
(***************************************************************************)
(* Logging in and out: the processes of telnet users, the requests of web  *)
(* visitors and utmpd, which alone changes the table of sessions           *)
(* (libBBS/utmp.c, daemon/miscd.c, src/newmain_single.c, php/bbslib.c).    *)
(*                                                                         *)
(* Clients send utmpd a request and wait five seconds for the answer;      *)
(* utmpd serves the requests in their order, also those whose client has   *)
(* given up.  Others read the table, without the lock, to find and kick    *)
(* the sessions of a user (kick_user_utmp).                                *)
(***************************************************************************)
EXTENDS UtmpTable

CONSTANTS
  Telnet,     \* processes of telnet users; each logs in once
  Web,        \* web visitors; each logs in once
  Kickers,    \* processes that kick sessions of a user
  Choosers,   \* those of them whose user picks one session from a list
  UserOf,     \* the user of a telnet process or web visitor
  Target,     \* Target[k]: the user kicked by k
  MaxKick,    \* the size of kickuser_save
  Casts,      \* the sets of clients of which one comes
  Faults      \* TRUE: processes die, requests time out

Clients == Telnet \cup Web \cup Kickers
NoPid  == 0                 \* the field pid while a web visitor logs in
WebPid == 1                 \* the field pid of a web session

ASSUME ClientAssumption == /\ Telnet \cap Web = {}
                           /\ (Telnet \cup Web) \cap Kickers = {}
                           /\ {NoPid, WebPid} \cap Telnet = {}
                           /\ Pids = Telnet \cup {WebPid}
ASSUME UserOfAssumption == UserOf \in [Telnet \cup Web -> Users]
ASSUME TargetAssumption == Choosers \subseteq Kickers /\ Target \in [Kickers -> Users]
ASSUME CastAssumption   == Casts \subseteq SUBSET Clients
ASSUME KickAssumption   == MaxKick \in Nat \ {0} /\ Faults \in BOOLEAN

VARIABLES
  key,        \* key[s]: utmpkey, known only to the client it was made for
  queue,      \* the requests utmpd has not answered
  sweep,      \* the slot utmpd looks at when it cleans the table, or 0
  granted,    \* the slot it answers with after that
  pc,         \* where each client is
  ent,        \* session->utmpent, the slot a client was given
  hup,        \* the telnet processes that were sent a signal
  at,         \* the slot a kicker reads next
  saved,      \* kickuser_save: the sessions it found
  nth,        \* the one it is kicking
  meant       \* history: the telnet sessions its user had when it began

clientVars == <<pc, ent, hup, at, saved, nth, meant>>
vars == <<info, chain, ring, number, key, queue, sweep, granted,
          pc, ent, hup, at, saved, nth, meant>>

Pid(c) == IF c \in Telnet THEN c ELSE NoPid
NewReq(c) == [op |-> "new", from |-> c, user |-> UserOf[c], pid |-> Pid(c),
              slot |-> NoSlot, nth |-> 0]
ClrReq(c, s, u, p, n) == [op |-> "clr", from |-> c, user |-> u, pid |-> p,
                          slot |-> s, nth |-> n]

Send(r) == queue' = Append(queue, r)
Goto(c, there) == pc' = [pc EXCEPT ![c] = there]
Gone(p) == pc[p] = "gone"

(* What comes after slot s on the chain that s is on. *)
NextOf(s) ==
  LET after == {a \in Buckets \X Slots :
                  /\ a[2] < Len(chain[a[1]]) /\ chain[a[1]][a[2]] = s}
  IN  IF after = {} THEN NoSlot
      ELSE LET a == CHOOSE a \in after : TRUE IN chain[a[1]][a[2] + 1]
FirstOf(u) == IF chain[Hash[u]] = <<>> THEN NoSlot ELSE Head(chain[Hash[u]])

-----------------------------------------------------------------------------
(* Mutated forms of definitions below. *)
MayClear_AnyPid(r) ==               \* the process id is not compared
  r.user = 0 \/ info[r.slot].user = r.user
SweepTakes_Web(s) ==                \* freshtime of web sessions is not compared
  /\ Active(s)
  /\ info[s].pid = WebPid \/ (info[s].pid \in Telnet /\ Gone(info[s].pid))

-----------------------------------------------------------------------------
(* u_enter, www_user_login: getnewutmpent. *)
Enter(c) ==
  /\ c \in Telnet \cup Web /\ pc[c] = "out"
  /\ Send(NewReq(c))
  /\ Goto(c, "wait_new")
  /\ UNCHANGED <<key, sweep, granted, ent, hup, at, saved, nth, meant>>
  /\ UNCHANGED tableVars

(* The web visitor's pid is written into the slot afterwards, by the       *)
(* client, without a lock.                                                 *)
SetPid(w) ==
  /\ w \in Web /\ pc[w] = "set_pid"
  /\ info' = [info EXCEPT ![ent[w]].pid = WebPid]
  /\ Goto(w, "in")
  /\ UNCHANGED <<chain, ring, number, key, queue, sweep, granted, ent, hup,
                 at, saved, nth, meant>>

(* u_exit, also when a signal ends the session (abort_bbs). *)
Leave(t) ==
  /\ t \in Telnet /\ pc[t] = "in"
  /\ Send(ClrReq(t, ent[t], UserOf[t], t, 0))
  /\ Goto(t, "wait_clr")
  /\ UNCHANGED <<key, sweep, granted, ent, hup, at, saved, nth, meant>>
  /\ UNCHANGED tableVars

(* A web visitor clicks on logout: www_user_init accepts the request if    *)
(* slot and key fit together.                                              *)
WebClick(w) ==
  /\ w \in Web /\ pc[w] = "in"
  /\ Goto(w, IF /\ key[ent[w]] = w /\ Active(ent[w])
                /\ info[ent[w]].pid = WebPid
             THEN "leaving" ELSE "gone")
  /\ UNCHANGED <<key, queue, sweep, granted, ent, hup, at, saved, nth, meant>>
  /\ UNCHANGED tableVars

(* www_user_logoff: clear_utmp. *)
WebLogoff(w) ==
  /\ w \in Web /\ pc[w] = "leaving"
  /\ Send(ClrReq(w, ent[w], UserOf[w], WebPid, 0))
  /\ Goto(w, "wait_clr")
  /\ UNCHANGED <<key, sweep, granted, ent, hup, at, saved, nth, meant>>
  /\ UNCHANGED tableVars

(* He clicked twice, and the second request was accepted before the first  *)
(* had cleared the slot.                                                   *)
WebLogoffAgain(w) ==
  /\ w \in Web /\ pc[w] = "leaving"
  /\ \A i \in DOMAIN queue : queue[i].from # w
  /\ Send(ClrReq(w, ent[w], UserOf[w], WebPid, 0))
  /\ UNCHANGED <<key, sweep, granted, pc, ent, hup, at, saved, nth, meant>>
  /\ UNCHANGED tableVars

(* A web visitor just stops clicking. *)
WebAway(w) ==
  /\ w \in Web /\ pc[w] = "in"
  /\ Goto(w, "gone")
  /\ UNCHANGED <<key, queue, sweep, granted, ent, hup, at, saved, nth, meant>>
  /\ UNCHANGED tableVars

(* sendutmpreq gives up after five seconds and returns -1: a telnet        *)
(* process exits, a web request fails, a kicker goes on.                   *)
TimeOut(c) ==
  /\ Faults /\ c \in Clients /\ pc[c] \in {"wait_new", "wait_clr"}
  /\ Goto(c, IF c \in Kickers THEN "kick" ELSE "gone")
  /\ nth' = IF c \in Kickers THEN [nth EXCEPT ![c] = @ + 1] ELSE nth
  /\ UNCHANGED <<key, queue, sweep, granted, ent, hup, at, saved, meant>>
  /\ UNCHANGED tableVars

(* A process dies: killed, or the signal came while its handler was not    *)
(* set to log out (before the login is complete, and in u_exit).           *)
Die(c) ==
  /\ c \in Telnet \cup Web /\ pc[c] \notin {"out", "gone"}
  /\ Faults \/ (c \in hup /\ pc[c] \in {"wait_new", "wait_clr"})
  /\ Goto(c, "gone")
  /\ UNCHANGED <<key, queue, sweep, granted, ent, hup, at, saved, nth, meant>>
  /\ UNCHANGED tableVars

-----------------------------------------------------------------------------
(* utmpd answers the request at the head of the queue; the answer counts   *)
(* if the client still waits for it.                                       *)
Waits(r) ==
  /\ pc[r.from] = (IF r.op = "new" THEN "wait_new" ELSE "wait_clr")
  /\ r.from \in Kickers => r.nth = nth[r.from]

Answer(r, slot) ==
  /\ queue' = Tail(queue)
  /\ pc' = IF ~Waits(r) THEN pc
           ELSE [pc EXCEPT ![r.from] =
                   IF r.from \in Kickers THEN "kick"
                   ELSE IF r.op = "clr" \/ slot = NoSlot THEN "gone"
                   ELSE IF r.from \in Web THEN "set_pid" ELSE "in"]
  /\ ent' = IF Waits(r) /\ r.op = "new" THEN [ent EXCEPT ![r.from] = slot]
            ELSE ent
  /\ nth' = IF Waits(r) /\ r.from \in Kickers
            THEN [nth EXCEPT ![r.from] = @ + 1] ELSE nth
  /\ UNCHANGED <<hup, at, saved, meant>>

(* getnewutmpent2 refuses: no slot is free. *)
Refuse ==
  /\ sweep = 0 /\ queue # <<>> /\ Head(queue).op = "new"
  /\ chain[0] = <<>>
  /\ Answer(Head(queue), NoSlot)
  /\ UNCHANGED <<key, sweep, granted>> /\ UNCHANGED tableVars

(* getnewutmpent2 grants a slot.  When the last cleaning is two minutes    *)
(* ago, a telnet login starts the next one before it is answered.          *)
Grant ==
  /\ sweep = 0 /\ queue # <<>> /\ Head(queue).op = "new"
  /\ LET r == Head(queue) IN
       /\ Alloc(r.user, r.pid)
       /\ key' = [key EXCEPT ![Granted] = r.from]
       /\ \/ /\ Answer(r, Granted)
             /\ UNCHANGED <<sweep, granted>>
          \/ /\ r.from \in Telnet
             /\ sweep' = 1 /\ granted' = Granted
             /\ UNCHANGED queue /\ UNCHANGED clientVars

(* The cleaning takes a session whose process is gone, and a web session   *)
(* that nobody has used for IDLE_TIMEOUT, twenty minutes: www_user_init    *)
(* refreshes the time, and no request waits as long.                       *)
Idle(s)  == \A w \in Web : ent[w] = s =>
              pc[w] = "gone" /\ \A i \in DOMAIN queue : queue[i].from # w
SweepTakes(s) ==
  /\ Active(s)
  /\ \/ info[s].pid = WebPid /\ Idle(s)
     \/ (info[s].pid \in Telnet /\ Gone(info[s].pid))

(* Whether an abandoned web session is idle for long enough is open. *)
SweepSpares(s) == ~SweepTakes(s) \/ info[s].pid = WebPid

SweepOn_TooFar ==                   \* mutated: one slot too many
  IF sweep <= N
  THEN sweep' = sweep + 1 /\ UNCHANGED <<queue, granted>> /\ UNCHANGED clientVars
  ELSE sweep' = 0 /\ granted' = NoSlot /\ Answer(Head(queue), granted)
SweepOn ==
  IF sweep < N
  THEN sweep' = sweep + 1 /\ UNCHANGED <<queue, granted>> /\ UNCHANGED clientVars
  ELSE sweep' = 0 /\ granted' = NoSlot /\ Answer(Head(queue), granted)

SweepClears ==
  /\ sweep # 0 /\ SweepTakes(sweep)
  /\ Free(sweep)
  /\ key' = [key EXCEPT ![sweep] = NoSlot]
  /\ SweepOn

SweepPasses ==
  /\ sweep # 0 /\ SweepSpares(sweep)
  /\ SweepOn
  /\ UNCHANGED key /\ UNCHANGED tableVars

(* clear_utmp3: the slot is cleared only if it is still that session's. *)
MayClear(r) ==
  /\ r.user = 0 \/ info[r.slot].user = r.user
  /\ r.pid = info[r.slot].pid

ServeClear ==
  /\ sweep = 0 /\ queue # <<>> /\ Head(queue).op = "clr"
  /\ MayClear(Head(queue))
  /\ Free(Head(queue).slot)
  /\ key' = [key EXCEPT ![Head(queue).slot] = NoSlot]
  /\ Answer(Head(queue), NoSlot)
  /\ UNCHANGED <<sweep, granted>>

IgnoreClear ==
  /\ sweep = 0 /\ queue # <<>> /\ Head(queue).op = "clr"
  /\ ~MayClear(Head(queue))
  /\ Answer(Head(queue), NoSlot)
  /\ UNCHANGED <<key, sweep, granted>> /\ UNCHANGED tableVars

-----------------------------------------------------------------------------
(* kick_user_utmp for all sessions of a user: apply_utmp follows the chain *)
(* of the user, without a lock, and saves the sessions it finds ...        *)
KickAll(k) ==
  /\ k \in Kickers \ Choosers /\ pc[k] = "out"
  /\ at' = [at EXCEPT ![k] = FirstOf(Target[k])]
  /\ meant' = [meant EXCEPT ![k] =
                 {t \in Telnet : pc[t] = "in" /\ UserOf[t] = Target[k]}]
  /\ Goto(k, "look")
  /\ UNCHANGED <<key, queue, sweep, granted, ent, hup, saved, nth>>
  /\ UNCHANGED tableVars

KickLook(k) ==
  /\ k \in Kickers /\ pc[k] = "look"
  /\ at[k] # NoSlot /\ Len(saved[k]) < MaxKick
  /\ LET s == at[k] IN
       /\ saved' = IF Active(s) /\ info[s].user = Target[k]
                   THEN [saved EXCEPT ![k] =
                           Append(@, [slot |-> s, pid |-> info[s].pid])]
                   ELSE saved
       /\ at' = [at EXCEPT ![k] = NextOf(s)]
  /\ UNCHANGED <<key, queue, sweep, granted, pc, ent, hup, nth, meant>>
  /\ UNCHANGED tableVars

KickLooked(k) ==
  /\ k \in Kickers /\ pc[k] = "look"
  /\ at[k] = NoSlot \/ Len(saved[k]) = MaxKick
  /\ Goto(k, "kick") /\ nth' = [nth EXCEPT ![k] = 1]
  /\ UNCHANGED <<key, queue, sweep, granted, ent, hup, at, saved, meant>>
  /\ UNCHANGED tableVars

(* ... or, when a user has too many sessions and picks one from a list     *)
(* that was shown to him: the slot is remembered, its pid is read when he  *)
(* has answered (multi_user_check).                                        *)
KickList(k) ==
  /\ k \in Choosers /\ pc[k] = "out"
  /\ \E s \in Online : /\ info[s].user = Target[k]
                       /\ at' = [at EXCEPT ![k] = s]
  /\ Goto(k, "listed")
  /\ UNCHANGED <<key, queue, sweep, granted, ent, hup, saved, nth, meant>>
  /\ UNCHANGED tableVars

KickChosen(k) ==
  /\ k \in Kickers /\ pc[k] = "listed"
  /\ saved' = [saved EXCEPT ![k] = <<[slot |-> at[k], pid |-> info[at[k]].pid]>>]
  /\ Goto(k, "kick") /\ nth' = [nth EXCEPT ![k] = 1]
  /\ UNCHANGED <<key, queue, sweep, granted, ent, hup, at, meant>>
  /\ UNCHANGED tableVars

(* Each session saved, if its slot is in use: the process in the slot gets *)
(* a signal, then clear_utmp is asked to clear it ...                      *)
KickSignal(k) ==
  /\ k \in Kickers /\ pc[k] = "kick" /\ nth[k] <= Len(saved[k])
  /\ LET a == saved[k][nth[k]] IN
       /\ Active(a.slot) /\ info[a.slot].pid # NoPid
       /\ hup' = hup \cup ({info[a.slot].pid} \cap Telnet)
       /\ Send(ClrReq(k, a.slot, Target[k], a.pid, nth[k]))
  /\ Goto(k, "wait_clr")
  /\ UNCHANGED <<key, sweep, granted, ent, at, saved, nth, meant>>
  /\ UNCHANGED tableVars

(* ... but where the pid is still 0, kill signals the kicker's own process *)
(* group: it ends.                                                         *)
KickItself(k) ==
  /\ k \in Kickers /\ pc[k] = "kick" /\ nth[k] <= Len(saved[k])
  /\ LET s == saved[k][nth[k]].slot IN Active(s) /\ info[s].pid = NoPid
  /\ Goto(k, "gone")
  /\ UNCHANGED <<key, queue, sweep, granted, ent, hup, at, saved, nth, meant>>
  /\ UNCHANGED tableVars

KickSkip(k) ==
  /\ k \in Kickers /\ pc[k] = "kick" /\ nth[k] <= Len(saved[k])
  /\ ~Active(saved[k][nth[k]].slot)
  /\ nth' = [nth EXCEPT ![k] = @ + 1]
  /\ UNCHANGED <<key, queue, sweep, granted, pc, ent, hup, at, saved, meant>>
  /\ UNCHANGED tableVars

KickDone(k) ==
  /\ k \in Kickers /\ pc[k] = "kick" /\ nth[k] > Len(saved[k])
  /\ Goto(k, "gone")
  /\ UNCHANGED <<key, queue, sweep, granted, ent, hup, at, saved, nth, meant>>
  /\ UNCHANGED tableVars

-----------------------------------------------------------------------------
Init ==
  /\ TableInit
  /\ key = [s \in Slots |-> NoSlot]
  /\ queue = <<>> /\ sweep = 0 /\ granted = NoSlot
  /\ \E cast \in Casts : pc = [c \in Clients |-> IF c \in cast THEN "out" ELSE "gone"]
  /\ ent = [c \in Telnet \cup Web |-> NoSlot]
  /\ hup = {}
  /\ at = [k \in Kickers |-> NoSlot]
  /\ saved = [k \in Kickers |-> <<>>]
  /\ nth = [k \in Kickers |-> 0]
  /\ meant = [k \in Kickers |-> {}]

Login(c)  == Enter(c) \/ SetPid(c)
Logout(c) == Leave(c) \/ WebClick(c) \/ WebLogoff(c) \/ WebLogoffAgain(c)
             \/ WebAway(c)
Utmpd     == \/ Refuse \/ Grant \/ SweepClears \/ SweepPasses
             \/ ServeClear \/ IgnoreClear
Kick(k)   == \/ KickAll(k) \/ KickLook(k) \/ KickLooked(k) \/ KickList(k)
             \/ KickChosen(k) \/ KickSignal(k) \/ KickItself(k) \/ KickSkip(k)
             \/ KickDone(k)

Next == \/ \E c \in Clients :
             Login(c) \/ Logout(c) \/ TimeOut(c) \/ Die(c) \/ Kick(c)
        \/ Utmpd

Spec == Init /\ [][Next]_vars

-----------------------------------------------------------------------------
Request == [op : {"new", "clr"}, from : Clients, user : Users \cup {NoUser},
            pid : Pids \cup {NoPid}, slot : Slots \cup {NoSlot}, nth : Nat]

(* Types of the variables. *)
TypeOK ==
  /\ TableTypeOK
  /\ key \in [Slots -> Telnet \cup Web \cup {NoSlot}]
  /\ queue \in Seq(Request)
  /\ sweep \in 0 .. N /\ granted \in 0 .. N
  /\ pc \in [Clients -> {"out", "wait_new", "set_pid", "in", "leaving", "wait_clr",
                         "look", "listed", "kick", "gone"}]
  /\ ent \in [Telnet \cup Web -> 0 .. N]
  /\ hup \subseteq Telnet
  /\ at \in [Kickers -> 0 .. N]
  /\ saved \in [Kickers -> Seq([slot : Slots, pid : Pids \cup {NoPid}])]
  /\ nth \in [Kickers -> Nat]
  /\ meant \in [Kickers -> SUBSET Telnet]

(* A session has its slot to itself as long as its user does not leave and *)
(* is not kicked: whatever requests of others are late, whoever died,      *)
(* whatever the cleaning takes (clear_utmp3, utmp.c:687-701).              *)
Has(c, s, p) == /\ Active(s) /\ key[s] = c
                /\ info[s].user = UserOf[c] /\ info[s].pid = p
OwnSlot ==
  \A t \in Telnet : pc[t] = "in" /\ t \notin hup => Has(t, ent[t], t)

(* The same for a web session, unless another web session of its user has  *)
(* logged out: to clear_utmp3, which compares the user and the pid, they   *)
(* are the same, since the pid of each is 1.                               *)
OwnWebSlot ==
  \A w \in Web :
    /\ pc[w] = "in"
    /\ \A v \in Web \ {w} : UserOf[v] = UserOf[w] =>
         pc[v] \in {"out", "wait_new", "set_pid", "in"}
    => Has(w, ent[w], WebPid)

(* A slot in use is given back some day: its session goes on, or the       *)
(* cleaning will find that it does not (utmp.c:316-320).                   *)
Reclaimable ==
  \A s \in Online :
    \/ info[s].pid \in Telnet \cup {WebPid}
    \/ pc[key[s]] \in {"wait_new", "set_pid"}

(* Only sessions of the user get the signal: he was asked which of his     *)
(* windows to kick (newmain_single.c:380), or all of his were to be.       *)
KickHitsUser ==
  \A t \in hup : \E k \in Kickers : UserOf[t] = Target[k]

(* kick_user_utmp without an entry kicks all logins of the user            *)
(* (utmp.c:717): when it is through, no session that was there when it     *)
(* began goes on.                                                          *)
AllKicked ==
  [][\A k \in Kickers : KickDone(k) =>
       \A t \in meant[k] : pc[t] = "in" => t \in hup]_vars

=============================================================================
