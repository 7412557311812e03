----------------------------- MODULE UserTable -----------------------------
(***************************************************************************)
(* The accounts: the table of users in shared memory with its hash chains  *)
(* (libBBS/ucache.c), registration and deletion through userd, the daily   *)
(* killd, the copy of the table in the file .PASSWDS (daemon/miscd.c).     *)
(*                                                                         *)
(* Only userd and killd give slots to names and take them away, under the  *)
(* lock of ucache_lock.  Everybody looks names up without it.  Clients     *)
(* wait five seconds for userd and then go on without its answer.          *)
(***************************************************************************)
EXTENDS Naturals, Sequences

CONSTANTS
  Clients,    \* the processes of users and managers
  Mixes,      \* what each process does to which name, a set of functions on Procs
  Names,      \* user ids
  Odd,        \* those that id_invalid refuses but ucache_hash has a chain for
  NameHash,   \* ucache_hash: the chain of each name
  HashSize,   \* UCACHE_HASHSIZE
  MaxUsers,   \* MAXUSERS
  Tables,     \* the contents .PASSWDS may have at the start
  Windows,    \* which windows the properties make an exception of
  Earlier,    \* who holds the accounts of the file
  Nobody

Daemons == {"userd", "killd", "flushd", "power"}
Procs   == Clients \cup Daemons
Tasks   == {"telnet", "web", "delete", "login", "kill", "flush", "reboot"}
AllWindows == {"level", "number", "check", "walk", "copy", "enter", "torn"}

Uids   == 1 .. MaxUsers
None   == "none"                        \* an empty user id
Ids    == Names \cup {None}
People == Clients \cup {Earlier, Nobody}
Chain(n) == IF n = None THEN 0 ELSE NameHash[n]

(* What the model keeps of a userec: who chose its password, the level,    *)
(* numlogins, and whether compute_user_value finds it worth nothing.       *)
Record   == [name : Ids, who : People, level : {0, 1}, logins : Nat, expired : BOOLEAN]
Empty(n) == [name |-> n, who |-> Nobody, level |-> 0, logins |-> 0, expired |-> FALSE]

ASSUME MixesAssumption    == Mixes \subseteq [Procs -> SUBSET (Tasks \X Ids)]
ASSUME NameHashAssumption == HashSize \in Nat \ {0} /\ NameHash \in [Names -> 1 .. HashSize] /\ Odd \subseteq Names
ASSUME MaxUsersAssumption == MaxUsers \in Nat \ {0}
ASSUME TablesAssumption   == Tables \subseteq [Uids -> Record]
ASSUME WindowsAssumption  == Windows \subseteq AllWindows
ASSUME NamesAssumption    == None \notin Names /\ Nobody \notin Procs /\ Clients \cap (Daemons \cup {Earlier}) = {}

VARIABLES
  tasks,      \* tasks[p]: what process p does
  pw,         \* uidshm->passwd
  head, unext,  \* uidshm->hashhead, uidshm->next
  lock,       \* who has the lock
  queue,      \* the connections userd has not served
  ans,        \* its answer to each client
  badname,    \* the names of .badname: those managers have deleted this month
  home,       \* whose files the home of a name holds
  file,       \* .PASSWDS
  pc,         \* where each process is
  loc,        \* its local variables
  holder,     \* history: who a name rightly belongs to
  harmed      \* history: names that met one of Windows; None if .PASSWDS had one twice

userVars == <<tasks, pw, head, unext, lock, queue, ans, badname, home, file, pc, loc, holder, harmed>>

(* name, uid: what it works on; at: the slot a search looks at; slot: how  *)
(* far a walk through the table is; then: where it goes on; seen: history, *)
(* the holder when a search began.                                         *)
Start    == [name |-> None, uid |-> 0, at |-> 0, slot |-> 0, then |-> "idle", seen |-> Nobody]
Pending  == MaxUsers + 1
Failed   == MaxUsers + 2                \* -1

Goto(p, there) == pc' = [pc EXCEPT ![p] = there]
Stop(p)        == Goto(p, IF p \in Clients THEN "over" ELSE "idle") /\ loc' = [loc EXCEPT ![p] = Start]
Does(p, t, n)  == pc[p] = "idle" /\ <<t, n>> \in tasks[p]
Harm(w, ns)    == harmed' = harmed \cup {n \in ns : w \in Windows}

(* The slots from s on, in the order of their chain, then 0. *)
Path(s) ==
  LET at[i \in Nat] == IF i = 0 THEN s
                       ELSE LET t == at[i - 1] IN IF t = 0 THEN 0 ELSE unext[t]
  IN  at
InChain(k) == {Path(head[k])[i] : i \in 0 .. MaxUsers} \ {0}

-----------------------------------------------------------------------------
(* Mutated forms of definitions below. *)
Taken_Never(new) == FALSE       \* no check for a duplicate
Taken_Chain(new) == new # None /\ InChain(Chain(new)) # {}     \* any name of the chain counts
Unlink_Head(num) ==             \* only the first slot of a chain leaves it
  IF head[Chain(pw[num].name)] = num
  THEN head' = [head EXCEPT ![Chain(pw[num].name)] = unext[num]] /\ UNCHANGED unext
  ELSE UNCHANGED <<head, unext>>
Unlink_Cuts(num) ==             \* the rest of the chain goes with it
  IF head[Chain(pw[num].name)] = num
  THEN head' = [head EXCEPT ![Chain(pw[num].name)] = 0] /\ UNCHANGED unext
  ELSE unext' = [s \in Uids |-> IF unext[s] = num THEN 0 ELSE unext[s]] /\ UNCHANGED head
Served_KeepsLock ==             \* the unlock is forgotten
  /\ pc["userd"] = "set_done"
  /\ LET r == Head(queue) IN
     /\ pw' = IF r.op = "NEW" THEN [pw EXCEPT ![loc["userd"].uid] = Empty(r.name)] ELSE pw
     /\ ans' = [c \in Clients |-> IF c # r.from THEN ans[c] ELSE IF r.op = "NEW" THEN loc["userd"].uid ELSE 0]
  /\ queue' = Tail(queue) /\ Stop("userd")
  /\ UNCHANGED <<tasks, head, unext, lock, badname, home, file, holder, harmed>>
NextUser_SkipsFirst ==          \* apply_users begins with the second slot
  IF loc["killd"].slot = MaxUsers THEN Stop("killd")
  ELSE /\ Goto("killd", "k_copy")
       /\ loc' = [loc EXCEPT !["killd"] =
                    [Start EXCEPT !.slot = IF loc["killd"].slot = 0 THEN 2 ELSE loc["killd"].slot + 1]]

-----------------------------------------------------------------------------
(* load_ucache: the chains are built from the records of the file.  prev   *)
(* is the last slot of the free chain.                                     *)
AddEmpty(t, s) ==
  [t EXCEPT !.pw[s].name = IF @ \in Odd THEN @ ELSE None, !.prev = s,
            !.head[0] = IF t.prev = 0 THEN s ELSE @,
            !.next = IF t.prev = 0 THEN @ ELSE [@ EXCEPT ![t.prev] = s]]
AddNamed(t, s) ==
  LET k == Chain(t.pw[s].name) IN [t EXCEPT !.next[s] = t.head[k], !.head[k] = s]

(* Of two records of one name the one with more logins stays.  An earlier  *)
(* one that has to go becomes the whole free chain.                        *)
Evict(t, o) ==
  LET k == Chain(t.pw[o].name) IN
  [t EXCEPT !.head = [t.head EXCEPT ![k] = IF @ = o THEN t.next[o] ELSE @, ![0] = o],
            !.next = [b \in Uids |-> IF b = o THEN 0 ELSE IF t.next[b] = o THEN t.next[o] ELSE t.next[b]],
            !.pw[o].name = None]
FillUcache(t, s) ==
  LET r    == t.pw[s]
      twin == {o \in 1 .. s - 1 : t.pw[o].name = r.name} IN
  IF r.name \in Odd \cup {None} THEN AddEmpty(t, s)
  ELSE IF twin = {} THEN AddNamed(t, s)
  ELSE LET o == CHOOSE x \in twin : TRUE IN
       IF r.logins > t.pw[o].logins THEN AddNamed(Evict(t, o), s) ELSE AddEmpty(t, s)
LoadUcache(records) ==
  LET table[s \in Nat] ==
        IF s = 0
        THEN [pw |-> records, prev |-> 0, head |-> [k \in 0 .. HashSize |-> 0], next |-> [i \in Uids |-> 0]]
        ELSE FillUcache(table[s - 1], s)
  IN  table[MaxUsers]

-----------------------------------------------------------------------------
(* searchuser: a walk along a chain without the lock. *)
LookUp(p, n, there) ==
  /\ loc' = [loc EXCEPT ![p].name = n, ![p].at = head[Chain(n)], ![p].then = there, ![p].seen = holder[n]]
  /\ Goto(p, "walk")
Walk(p) ==
  /\ pc[p] = "walk"
  /\ LET s == loc[p].at IN
     IF s # 0 /\ pw[s].name # loc[p].name
     THEN loc' = [loc EXCEPT ![p].at = unext[s]] /\ UNCHANGED pc
     ELSE loc' = [loc EXCEPT ![p].uid = s, ![p].at = 0] /\ Goto(p, loc[p].then)
  /\ UNCHANGED <<tasks, pw, head, unext, lock, queue, ans, badname, home, file, holder, harmed>>

(* The names of searches that stand on slot s: they are led to another     *)
(* chain with it.                                                          *)
Derailed(s) == {loc[q].name : q \in {x \in Procs : pc[x] = "walk" /\ loc[x].at = s}}

-----------------------------------------------------------------------------
(* setuserid_internal(num, new), under the lock.  The loop that looks for  *)
(* the slot before num starts at next[-1] if the chain is empty; that word *)
(* is the last one of hashhead.                                            *)
Taken(new) == new # None /\ \E s \in InChain(Chain(new)) : pw[s].name = new
After(b)   == IF b = 0 THEN head[HashSize] ELSE unext[b]
Preceding(num) ==
  LET k == Chain(pw[num].name)
  IN  {b \in IF head[k] = 0 THEN {0} \cup InChain(HashSize) ELSE InChain(k) : After(b) = num}
CanSet(num, new) ==
  /\ Chain(new) # Chain(pw[num].name) => ~Taken(new)
  /\ head[Chain(pw[num].name)] = num \/ Preceding(num) # {}
Unlink(num) ==
  LET k == Chain(pw[num].name) IN
  IF head[k] = num
  THEN head' = [head EXCEPT ![k] = unext[num]] /\ UNCHANGED unext
  ELSE \E b \in Preceding(num) :
         IF b = 0 THEN head' = [head EXCEPT ![HashSize] = unext[num]] /\ UNCHANGED unext
         ELSE unext' = [unext EXCEPT ![b] = unext[num]] /\ UNCHANGED head

(* The slot is out of its chain; it is put before the chain of its new     *)
(* name, whose readers see the new name last.                              *)
SetNext(p) ==
  /\ pc[p] = "set_next"
  /\ unext' = [unext EXCEPT ![loc[p].uid] = head[Chain(loc[p].name)]]
  /\ Harm("walk", Derailed(loc[p].uid))
  /\ Goto(p, "set_head")
  /\ UNCHANGED <<tasks, pw, head, lock, queue, ans, badname, home, file, loc, holder>>
SetHead(p) ==
  /\ pc[p] = "set_head"
  /\ head' = [head EXCEPT ![Chain(loc[p].name)] = loc[p].uid]
  /\ Goto(p, "set_name")
  /\ UNCHANGED <<tasks, pw, unext, lock, queue, ans, badname, home, file, loc, holder, harmed>>
SetName(p) ==
  /\ pc[p] = "set_name"
  /\ pw' = [pw EXCEPT ![loc[p].uid].name = loc[p].name]
  /\ Goto(p, "set_done")
  /\ UNCHANGED <<tasks, head, unext, lock, queue, ans, badname, home, file, loc, holder, harmed>>

-----------------------------------------------------------------------------
(* userd. *)

(* Somebody will still delete what is in slot s, whoever has it then, or   *)
(* userd has it in hand and will empty its record.                         *)
Doomed(s) == \/ lock = "userd" /\ loc["userd"].uid = s
             \/ pc["killd"] \in {"k_rm", "k_set", "set_next", "set_head", "set_name"} /\ loc["killd"].uid = s
             \/ \E c \in Clients : pc[c] \in {"d_files", "d_send"} /\ loc[c].uid = s
             \/ \E i \in DOMAIN queue : queue[i].op = "DEL" /\ queue[i].num = s

Answer(a) ==
  /\ ans' = [c \in Clients |-> IF c = Head(queue).from THEN a ELSE ans[c]]
  /\ queue' = Tail(queue)

(* A request is taken, the lock, and for a new user the first slot of the  *)
(* free chain.  What cannot be done is refused at once.                    *)
Serve ==
  /\ pc["userd"] = "idle" /\ queue # <<>> /\ lock = Nobody
  /\ LET r   == Head(queue)
         num == IF r.op = "NEW" THEN head[0] ELSE r.num IN
     IF num # 0 /\ CanSet(num, r.name)
     THEN /\ lock' = "userd" /\ Unlink(num) /\ Goto("userd", "set_next")
          /\ loc' = [loc EXCEPT !["userd"].uid = num, !["userd"].name = r.name]
          /\ Harm("number", {n \in Names : r.op = "NEW" /\ n = r.name /\ Doomed(num)})
          /\ UNCHANGED <<queue, ans>>
     ELSE Answer(IF r.op = "NEW" THEN Failed ELSE 0) /\ UNCHANGED <<lock, head, unext, pc, loc, harmed>>
  /\ UNCHANGED <<tasks, pw, badname, home, file, holder>>

(* For a new user the record is emptied (update_user). *)
Served ==
  /\ pc["userd"] = "set_done"
  /\ LET r == Head(queue) IN
     /\ pw' = IF r.op = "NEW" THEN [pw EXCEPT ![loc["userd"].uid] = Empty(r.name)] ELSE pw
     /\ Answer(IF r.op = "NEW" THEN loc["userd"].uid ELSE 0)
  /\ lock' = Nobody /\ Stop("userd")
  /\ UNCHANGED <<tasks, head, unext, badname, home, file, holder, harmed>>

-----------------------------------------------------------------------------
(* Registration.  new_register of the telnet front looks the name up,      *)
(* removes what is left of a former user, looks it up again and asks.      *)
(* id_invalid refuses some names, bad_user_id those of .badname for a      *)
(* month: for ever, here.                                                  *)
Register(c, n) ==
  /\ Does(c, "telnet", n) /\ n \notin badname \cup Odd /\ LookUp(c, n, "r_home")
  /\ UNCHANGED <<tasks, pw, head, unext, lock, queue, ans, badname, home, file, holder, harmed>>

(* The home of a user who left this month is not given away. *)
Recent(n) == home[n] \in Clients
RHome(c) ==
  /\ pc[c] = "r_home"
  /\ IF loc[c].uid # 0 \/ Recent(loc[c].name) THEN Stop(c) ELSE Goto(c, "r_rm") /\ UNCHANGED loc
  /\ UNCHANGED <<tasks, pw, head, unext, lock, queue, ans, badname, home, file, holder, harmed>>
RRm(c) ==
  /\ pc[c] = "r_rm"
  /\ home' = [home EXCEPT ![loc[c].name] = Nobody]
  /\ Harm("check", {n \in {loc[c].name} : \E s \in Uids : pw[s].name = n})
  /\ LookUp(c, loc[c].name, "r_send")
  /\ UNCHANGED <<tasks, pw, head, unext, lock, queue, ans, badname, file, holder>>

(* bbs_createnewid of the web front removes it at the end. *)
RegisterWeb(c, n) ==
  /\ Does(c, "web", n) /\ n \notin badname \cup Odd /\ LookUp(c, n, "w_send")
  /\ UNCHANGED <<tasks, pw, head, unext, lock, queue, ans, badname, home, file, holder, harmed>>

Send(c, op) ==
  /\ queue' = Append(queue, [op |-> op, from |-> c, num |-> IF op = "DEL" THEN loc[c].uid ELSE 0,
                             name |-> IF op = "NEW" THEN loc[c].name ELSE None])
  /\ ans' = [ans EXCEPT ![c] = Pending]
RSend(c) ==
  /\ pc[c] \in {"r_send", "w_send"}
  /\ IF loc[c].uid # 0 \/ (pc[c] = "w_send" /\ Recent(loc[c].name))
     THEN Stop(c) /\ UNCHANGED <<queue, ans>>
     ELSE Send(c, "NEW") /\ Goto(c, "wait_new") /\ UNCHANGED loc
  /\ UNCHANGED <<tasks, pw, head, unext, lock, badname, home, file, holder, harmed>>

(* Who waits no longer closes his connection; the request stays. *)
Hang(c) == queue' = [i \in DOMAIN queue |-> IF queue[i].from = c THEN [queue[i] EXCEPT !.from = Nobody] ELSE queue[i]]

(* The slot is there, or there is none, or five seconds are over. *)
Answered(c) ==
  /\ pc[c] = "wait_new"
  /\ IF ans[c] \in Uids THEN Goto(c, "r_write") /\ loc' = [loc EXCEPT ![c].uid = ans[c]] ELSE Stop(c)
  /\ Hang(c)
  /\ UNCHANGED <<tasks, pw, head, unext, lock, ans, badname, home, file, holder, harmed>>

(* update_user keeps the name of the slot; then the name is looked up.  An *)
(* account that a manager deletes meanwhile is nobody's.                   *)
RWrite(c) ==
  /\ pc[c] = "r_write"
  /\ pw' = [pw EXCEPT ![loc[c].uid] = [Empty(@.name) EXCEPT !.who = c, !.level = 1]]
  /\ Harm("number", {n \in {pw[loc[c].uid].name} \cap Names : n # loc[c].name \/ pw[loc[c].uid].who # Nobody})
  /\ LookUp(c, loc[c].name, "r_enter")
  /\ UNCHANGED <<tasks, head, unext, lock, queue, ans, badname, home, file, holder>>

(* The account he has found is what he has written, and nobody is about to *)
(* delete it or to give its slot away.                                     *)
HasIt(c) ==
  LET r == pw[loc[c].uid] IN r.name = loc[c].name /\ r.who = c /\ r.level = 1 /\ ~Doomed(loc[c].uid)
REnter(c) ==
  /\ pc[c] = "r_enter"
  /\ IF loc[c].uid = 0 THEN Stop(c) /\ UNCHANGED <<home, holder, harmed>>
     ELSE /\ home'   = [home EXCEPT ![loc[c].name] = IF @ = Nobody \/ <<"web", loc[c].name>> \in tasks[c] THEN c ELSE @]
          /\ holder' = [holder EXCEPT ![loc[c].name] = IF HasIt(c) THEN c ELSE @]
          /\ Harm("enter", {n \in {loc[c].name} : ~HasIt(c)})
          /\ Goto(c, "in") /\ UNCHANGED loc
  /\ UNCHANGED <<tasks, pw, head, unext, lock, queue, ans, badname, file>>

-----------------------------------------------------------------------------
(* What d_user and killauser do to the record once its slot is free again. *)
ClearLevel(s) == pw' = [pw EXCEPT ![s].level = 0] /\ Harm("level", {pw[s].name} \cap Names)

(* d_user: a manager deletes an account.  The name goes to .badname, the   *)
(* files are removed, userd takes the slot back (it is asked for by its    *)
(* number), and the level is cleared.                                      *)
Delete(c, n) ==
  /\ Does(c, "delete", n) /\ LookUp(c, n, "d_files")
  /\ UNCHANGED <<tasks, pw, head, unext, lock, queue, ans, badname, home, file, holder, harmed>>
DFiles(c) ==
  /\ pc[c] = "d_files"
  /\ LET n == IF loc[c].uid = 0 THEN None ELSE pw[loc[c].uid].name IN
     /\ IF loc[c].uid = 0 THEN Stop(c) ELSE Goto(c, "d_send") /\ UNCHANGED loc
     /\ badname' = badname \cup ({n} \cap Names)
     /\ home'   = [x \in Names |-> IF x = n THEN Nobody ELSE home[x]]
     /\ holder' = [x \in Names |-> IF x = n /\ x = loc[c].name THEN Nobody ELSE holder[x]]
  /\ UNCHANGED <<tasks, pw, head, unext, lock, queue, ans, file, harmed>>
DSend(c) ==
  /\ pc[c] = "d_send"
  /\ Send(c, "DEL") /\ Goto(c, "wait_del")
  /\ UNCHANGED <<tasks, pw, head, unext, lock, badname, home, file, loc, holder, harmed>>
DLevel(c) ==
  /\ pc[c] = "wait_del"                 \* answered or not
  /\ ClearLevel(loc[c].uid)
  /\ Hang(c) /\ Stop(c)
  /\ UNCHANGED <<tasks, head, unext, lock, ans, badname, home, file, holder>>

(* A user of the file logs in: his account is worth something again. *)
Login(c, n) ==
  /\ Does(c, "login", n) /\ LookUp(c, n, "l_in")
  /\ UNCHANGED <<tasks, pw, head, unext, lock, queue, ans, badname, home, file, holder, harmed>>
LIn(c) ==
  /\ pc[c] = "l_in"
  /\ IF loc[c].uid = 0 THEN UNCHANGED pw
     ELSE pw' = [pw EXCEPT ![loc[c].uid].expired = FALSE, ![loc[c].uid].logins = 1]
  /\ Stop(c)
  /\ UNCHANGED <<tasks, head, unext, lock, queue, ans, badname, home, file, holder, harmed>>

-----------------------------------------------------------------------------
(* killd: killauser for each slot, once a day. *)
NextUser ==
  IF loc["killd"].slot = MaxUsers THEN Stop("killd")
  ELSE Goto("killd", "k_copy") /\ loc' = [loc EXCEPT !["killd"] = [Start EXCEPT !.slot = loc["killd"].slot + 1]]
KDay ==
  /\ Does("killd", "kill", None)
  /\ NextUser
  /\ UNCHANGED <<tasks, pw, head, unext, lock, queue, ans, badname, home, file, holder, harmed>>

(* The decision is taken on a copy of the record. *)
KCopy ==
  /\ pc["killd"] = "k_copy"
  /\ LET r == pw[loc["killd"].slot] IN
     IF r.name \in Odd \cup {None} \/ ~r.expired THEN NextUser
     ELSE LookUp("killd", r.name, "k_rm")
  /\ UNCHANGED <<tasks, pw, head, unext, lock, queue, ans, badname, home, file, holder, harmed>>

(* Sessions are kicked, files removed.  getuserbynum has no record for 0   *)
(* nor for the last slot; kick_user_utmp does not look at that and dies.   *)
KRm ==
  /\ pc["killd"] = "k_rm"
  /\ LET n == loc["killd"].name
         u == loc["killd"].uid IN
     IF u \in {0, MaxUsers} THEN Stop("killd") /\ UNCHANGED <<home, holder, harmed>>
     ELSE /\ home' = [home EXCEPT ![n] = Nobody]
          /\ holder' = [holder EXCEPT ![n] = IF pw[u].expired THEN Nobody ELSE @]
          /\ Harm("copy", {x \in {n} : ~pw[u].expired \/ holder[n] = Nobody})
          /\ Goto("killd", "k_set") /\ UNCHANGED loc
  /\ UNCHANGED <<tasks, pw, head, unext, lock, queue, ans, badname, file>>
KSet ==
  /\ pc["killd"] = "k_set" /\ lock = Nobody
  /\ IF CanSet(loc["killd"].uid, None)
     THEN /\ lock' = "killd" /\ Unlink(loc["killd"].uid)
          /\ loc' = [loc EXCEPT !["killd"].name = None]
          /\ Goto("killd", "set_next")
     ELSE Goto("killd", "k_level") /\ UNCHANGED <<lock, head, unext, loc>>
  /\ UNCHANGED <<tasks, pw, queue, ans, badname, home, file, holder, harmed>>
KUnlock ==
  /\ pc["killd"] = "set_done"
  /\ lock' = Nobody /\ Goto("killd", "k_level")
  /\ UNCHANGED <<tasks, pw, head, unext, queue, ans, badname, home, file, loc, holder, harmed>>
KLevel ==
  /\ pc["killd"] = "k_level"
  /\ ClearLevel(loc["killd"].slot)
  /\ NextUser
  /\ UNCHANGED <<tasks, head, unext, lock, queue, ans, badname, home, file, holder>>

-----------------------------------------------------------------------------
(* flushd copies the table to the file, record after record. *)
Flush ==
  /\ Does("flushd", "flush", None) \/ pc["flushd"] = "flush"
  /\ LET s == loc["flushd"].slot + 1 IN
     /\ file' = [file EXCEPT ![s] = pw[s]]
     /\ IF s = MaxUsers THEN Goto("flushd", "flushed") /\ UNCHANGED loc
        ELSE Goto("flushd", "flush") /\ loc' = [loc EXCEPT !["flushd"].slot = s]
  /\ UNCHANGED <<tasks, pw, head, unext, lock, queue, ans, badname, home, holder, harmed>>

(* The machine is started again, once; the table is what the file has.  A  *)
(* user whose record was there as a whole keeps his name.                  *)
Copies(n) == {s \in Uids : file[s].name = n}
Twins == {n \in Ids : \E x \in Names : (\E s, t \in Copies(x) : s # t) /\ n \in {x, None}}
Reboot ==
  /\ Does("power", "reboot", None)
  /\ LET t == LoadUcache(file) IN pw' = t.pw /\ head' = t.head /\ unext' = t.next
  /\ pc' = [p \in Procs |-> IF p \in {"flushd", "power"} THEN "over" ELSE "idle"]
  /\ loc' = [p \in Procs |-> Start]
  /\ lock' = Nobody /\ queue' = <<>> /\ ans' = [c \in Clients |-> Pending]
  /\ holder' = [n \in Names |-> IF \E s \in Copies(n) : file[s].who = holder[n] /\ file[s].level = 1 THEN holder[n] ELSE Nobody]
  /\ Harm("torn", Twins)
  /\ UNCHANGED <<tasks, badname, home, file>>

UserInit ==
  /\ tasks \in Mixes /\ file \in Tables
  /\ pw = LoadUcache(file).pw /\ head = LoadUcache(file).head /\ unext = LoadUcache(file).next
  /\ lock = Nobody /\ queue = <<>> /\ ans = [c \in Clients |-> Pending]
  /\ holder = [n \in Names |-> IF \E s \in Uids : pw[s].name = n /\ n \notin Odd THEN Earlier ELSE Nobody]
  /\ home = holder /\ badname = {}
  /\ pc = [p \in Procs |-> "idle"] /\ loc = [p \in Procs |-> Start]
  /\ harmed = Twins \cap {None}

Setuserid(p) == SetNext(p) \/ SetHead(p) \/ SetName(p)
Killauser == KDay \/ KCopy \/ KRm \/ KSet \/ KUnlock \/ KLevel
Client(c) ==
  \/ \E n \in Names : Register(c, n) \/ RegisterWeb(c, n) \/ Delete(c, n) \/ Login(c, n)
  \/ RHome(c) \/ RRm(c) \/ RSend(c) \/ Answered(c) \/ RWrite(c) \/ REnter(c)
  \/ DFiles(c) \/ DSend(c) \/ DLevel(c) \/ LIn(c)

UserNext == \/ \E c \in Clients : Client(c)
        \/ \E p \in Procs : Walk(p) \/ Setuserid(p)
        \/ Serve \/ Served \/ Killauser \/ Flush \/ Reboot

(* The daemons run on; a lock is released by who has it.                   *)
UserSpec == UserInit /\ [][UserNext]_userVars
Fairness == /\ WF_userVars(Serve) /\ WF_userVars(Served) /\ WF_userVars(Killauser)
            /\ \A p \in {"userd", "killd"} : WF_userVars(Walk(p)) /\ WF_userVars(Setuserid(p))
FairSpec == UserSpec /\ Fairness

-----------------------------------------------------------------------------
Points == {"idle", "over", "walk", "set_next", "set_head", "set_name", "set_done",
           "r_home", "r_rm", "r_send", "w_send", "wait_new", "r_write", "r_enter", "in",
           "d_files", "d_send", "wait_del", "l_in",
           "k_copy", "k_rm", "k_set", "k_level", "flush", "flushed"}

(* Types of the variables; who works on the chains has the lock. *)
UserTypeOK ==
  /\ tasks \in Mixes /\ pw \in [Uids -> Record] /\ file \in [Uids -> Record]
  /\ head \in [0 .. HashSize -> 0 .. MaxUsers] /\ unext \in [Uids -> 0 .. MaxUsers]
  /\ lock \in {"userd", "killd", Nobody}
  /\ \A p \in Procs : pc[p] \in {"set_next", "set_head", "set_name", "set_done"} <=> lock = p
  /\ queue \in Seq([op : {"NEW", "DEL"}, from : Clients \cup {Nobody}, num : Nat, name : Ids])
  /\ ans \in [Clients -> 0 .. Failed]
  /\ badname \subseteq Names /\ home \in [Names -> People] /\ holder \in [Names -> People] /\ harmed \subseteq Ids
  /\ pc \in [Procs -> Points]
  /\ \A p \in Procs : loc[p].uid \in 0 .. MaxUsers /\ loc[p].slot \in 0 .. MaxUsers

(* While nobody has the lock, the slots of a chain are all different and   *)
(* those with its names, and a slot without a name waits in the free chain *)
(* unless .PASSWDS had a name twice (ucache.c:268-275, 401-427).           *)
ChainsRight ==
  lock = Nobody =>
    /\ \A k \in 0 .. HashSize : LET c == Path(head[k]) IN
         \A i, j \in 0 .. MaxUsers : i # j /\ c[i] = c[j] => c[i] = 0
    /\ \A s \in Uids : pw[s].name \in Names \ Odd => s \in InChain(Chain(pw[s].name))
    /\ \A k \in 0 .. HashSize : \A s \in InChain(k) :
         IF pw[s].name \in Odd THEN k = 0 ELSE Chain(pw[s].name) = k
    /\ None \in harmed \/ \A s \in Uids : pw[s].name = None => s \in InChain(0)

(* Who has registered a name, or had it in the file, has its only slot,    *)
(* with his password and level, and his files, until a manager deletes him *)
(* or killd finds his account expired; names that met one of Windows are   *)
(* left out (miscd.c:249-261, delete.c:492-494, register.c:110).           *)
AccountKept ==
  \A n \in Names \ (harmed \cup Odd) : holder[n] # Nobody =>
    \E s \in Uids :
      /\ \A t \in Uids : pw[t].name = n <=> t = s
      /\ pw[s].who = holder[n] /\ pw[s].level = 1 /\ home[n] = holder[n]

(* A search finds a user who had the name when it began and still has it,  *)
(* with the same exceptions (ucache.c:519).                                *)
SearchFinds ==
  \A p \in Procs :
    LET n == loc[p].name IN
    pc[p] \in {"r_home", "r_send", "w_send", "d_files", "l_in", "k_rm"} /\ loc[p].uid = 0
      => n \in harmed \cup Odd \/ loc[p].seen = Nobody \/ holder[n] # loc[p].seen

(* userd refuses a new user only if the name is taken or no slot is free.  *)
RefusedRightly ==
  [][\A c \in Clients : ans[c] = Pending /\ ans'[c] = Failed /\ pc[c] = "wait_new"
       => \/ \E s \in Uids : pw[s].name = loc[c].name
          \/ None \in harmed \/ \A s \in Uids : pw[s].name # None]_userVars

(* An account that is worth nothing is deleted one day, or its user comes  *)
(* back; the last slot of the table is left out (ucache.c:716).            *)
ExpiredGone ==
  \A s \in 1 .. MaxUsers - 1 :
    (tasks["killd"] # {} /\ pw[s].expired /\ pw[s].name \in Names \ Odd)
      ~> (~pw[s].expired \/ pw[s].name = None)
=============================================================================
