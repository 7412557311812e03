----------------------------- MODULE Utmp_proofs -----------------------------
(* Types of the sessions and their requests; a session keeps its slot.       *)
EXTENDS Utmp, UtmpTable_proofs

(* The requests there can be. *)
LoginReqs  == {NewReq(c) : c \in Telnet \cup Web}
LogoutReqs == {ClrReq(t, s, UserOf[t], t, 0) : t \in Telnet, s \in Slots}
              \cup {ClrReq(w, s, UserOf[w], WebPid, 0) : w \in Web, s \in Slots}
KickReqs   == {r \in Request : /\ r.op = "clr" /\ r.from \in Kickers
                               /\ r.slot \in Slots /\ r.user = Target[r.from]}
Requests   == LoginReqs \cup LogoutReqs \cup KickReqs

Places == {"out", "wait_new", "set_pid", "in", "leaving", "wait_clr", "gone"}
KickPlaces == {"out", "look", "listed", "kick", "wait_clr", "gone"}
HoldsSlot == {"set_pid", "in", "leaving"}

ClientTypes ==
  /\ pc \in [Clients -> Places \cup KickPlaces]
  /\ \A c \in Telnet \cup Web : pc[c] \in Places
  /\ \A k \in Kickers : pc[k] \in KickPlaces
  /\ ent \in [Telnet \cup Web -> 0 .. N]
  /\ \A c \in Telnet \cup Web : pc[c] \in HoldsSlot => ent[c] \in Slots
  /\ hup \subseteq Telnet
  /\ at \in [Kickers -> 0 .. N]
  /\ \A k \in Kickers : pc[k] = "listed" => k \in Choosers /\ at[k] \in Slots
  /\ saved \in [Kickers -> Seq([slot : Slots, pid : Pids \cup {NoPid}])]
  /\ nth \in [Kickers -> Nat]
  /\ \A k \in Kickers : pc[k] \in {"kick", "wait_clr"} => nth[k] >= 1
  /\ meant \in [Kickers -> SUBSET Telnet]

(* A cleaning is on the way for a telnet login that has its slot. *)
UtmpdTypes ==
  /\ key \in [Slots -> Telnet \cup Web \cup {NoSlot}]
  /\ queue \in Seq(Requests)
  /\ sweep \in 0 .. N /\ granted \in 0 .. N
  /\ sweep # 0 => /\ queue # <<>> /\ granted \in Slots
                  /\ Head(queue) \in LoginReqs /\ Head(queue).from \in Telnet

TypeInv == TableTypes /\ ClientTypes /\ UtmpdTypes

-----------------------------------------------------------------------------
LEMMA Kinds ==
  /\ Telnet \cap Web = {} /\ Telnet \cap Kickers = {} /\ Web \cap Kickers = {}
  /\ Clients = (Telnet \cup Web) \cup Kickers
  /\ NoPid \notin Telnet /\ WebPid \notin Telnet /\ NoPid # WebPid
  /\ Pids = Telnet \cup {WebPid}
BY ClientAssumption DEF Clients, NoPid, WebPid

LEMMA LoginReqFacts ==
  ASSUME NEW r \in LoginReqs
  PROVE  /\ r \in Request /\ r.op = "new" /\ r.from \in Telnet \cup Web
         /\ r.user = UserOf[r.from] /\ r.user \in Users
         /\ r.pid = Pid(r.from) /\ r.pid \in Pids \cup {NoPid}
<1>1. PICK c \in Telnet \cup Web : r = NewReq(c)
  BY DEF LoginReqs
<1>2. UserOf[c] \in Users /\ Pid(c) \in Pids \cup {NoPid}
  BY UserOfAssumption, Kinds DEF Pid
<1> QED BY <1>1, <1>2, Kinds DEF NewReq, Request, NoSlot

LEMMA LogoutReqFacts ==
  ASSUME NEW r \in LogoutReqs
  PROVE  /\ r \in Request /\ r.op = "clr" /\ r.from \in Telnet \cup Web
         /\ r.slot \in Slots /\ r.user = UserOf[r.from] /\ r.user \in Users
         /\ r.pid = (IF r.from \in Telnet THEN r.from ELSE WebPid)
         /\ r.pid \in Pids
<1>1. CASE \E t \in Telnet, s \in Slots : r = ClrReq(t, s, UserOf[t], t, 0)
  <2>1. PICK t \in Telnet, s \in Slots : r = ClrReq(t, s, UserOf[t], t, 0)
    BY <1>1
  <2>2. UserOf[t] \in Users
    BY UserOfAssumption
  <2> QED BY <2>1, <2>2, Kinds DEF ClrReq, Request
<1>2. CASE \E w \in Web, s \in Slots : r = ClrReq(w, s, UserOf[w], WebPid, 0)
  <2>1. PICK w \in Web, s \in Slots : r = ClrReq(w, s, UserOf[w], WebPid, 0)
    BY <1>2
  <2>2. UserOf[w] \in Users
    BY UserOfAssumption
  <2> QED BY <2>1, <2>2, Kinds DEF ClrReq, Request
<1> QED BY <1>1, <1>2 DEF LogoutReqs

LEMMA KickReqFacts ==
  ASSUME NEW r \in KickReqs
  PROVE  /\ r \in Request /\ r.op = "clr" /\ r.from \in Kickers
         /\ r.slot \in Slots /\ r.user = Target[r.from] /\ r.user \in Users
         /\ r.pid \in Pids \cup {NoPid}
<1>1. r \in Request /\ r.from \in Kickers /\ r.slot \in Slots /\ r.user = Target[r.from] /\ r.op = "clr"
  BY DEF KickReqs
<1>2. Target[r.from] \in Users
  BY <1>1, TargetAssumption
<1>3. r.pid \in Pids \cup {NoPid}
  BY <1>1 DEF Request
<1> QED BY <1>1, <1>2, <1>3

LEMMA ReqFacts ==
  ASSUME NEW r \in Requests
  PROVE  /\ r \in Request /\ r.from \in Clients /\ r.user \in Users
         /\ r.pid \in Pids \cup {NoPid}
         /\ r.op = "new" => r \in LoginReqs
         /\ r.op # "new" => r.op = "clr"
         /\ r.op = "clr" => r.slot \in Slots /\ r \in LogoutReqs \cup KickReqs
BY LoginReqFacts, LogoutReqFacts, KickReqFacts, Kinds DEF Requests

LEMMA KickReqType ==
  ASSUME NEW k \in Kickers, NEW s \in Slots, NEW p \in Pids \cup {NoPid}, NEW n \in Nat
  PROVE  ClrReq(k, s, Target[k], p, n) \in Requests
<1>1. Target[k] \in Users /\ k \in Clients
  BY TargetAssumption, Kinds
<1>2. ClrReq(k, s, Target[k], p, n) \in Request
  BY <1>1 DEF ClrReq, Request
<1> QED BY <1>2 DEF Requests, KickReqs, ClrReq

LEMMA HeadFacts ==
  ASSUME UtmpdTypes, queue # <<>>
  PROVE  Head(queue) \in Requests /\ Tail(queue) \in Seq(Requests)
BY DEF UtmpdTypes

LEMMA TableUnchanged ==
  ASSUME TableTypes, UNCHANGED tableVars
  PROVE  TableTypes'
BY DEF tableVars, TableTypes, TableTypeOK, Online, Active

(* A request is sent: nothing of utmpd's own changes.  A request that is     *)
(* being worked on stays at the head of the queue.                           *)
LEMMA SendTypes ==
  ASSUME UtmpdTypes, NEW r \in Requests, Send(r), UNCHANGED <<key, sweep, granted>>
  PROVE  /\ UtmpdTypes'
         /\ queue # <<>> => Head(queue') = Head(queue)
         /\ Len(queue') = Len(queue) + 1 /\ queue'[Len(queue')] = r
         /\ \A i \in DOMAIN queue : i \in DOMAIN queue' /\ queue'[i] = queue[i]
         /\ \A i \in DOMAIN queue' : i \in DOMAIN queue \/ queue'[i] = r
<1>1. queue \in Seq(Requests) /\ queue' = Append(queue, r)
  BY DEF UtmpdTypes, Send
<1>2. queue' \in Seq(Requests) /\ queue' # <<>> /\ Len(queue') = Len(queue) + 1
  BY <1>1
<1>3. queue # <<>> => Head(queue') = Head(queue)
  BY <1>1
<1>4. /\ queue'[Len(queue')] = r
      /\ \A i \in DOMAIN queue : i \in DOMAIN queue' /\ queue'[i] = queue[i]
      /\ \A i \in DOMAIN queue' : i \in DOMAIN queue \/ queue'[i] = r
  BY <1>1
<1> QED BY <1>2, <1>3, <1>4 DEF UtmpdTypes

LEMMA UtmpdUnchanged ==
  ASSUME UtmpdTypes, UNCHANGED <<key, queue, sweep, granted>>
  PROVE  UtmpdTypes'
BY DEF UtmpdTypes

(* Where the clients are after an answer. *)
LEMMA AnswerTypes ==
  ASSUME ClientTypes, UtmpdTypes, queue # <<>>, NEW slot \in 0 .. N,
         slot = NoSlot \/ slot \in Slots,
         Answer(Head(queue), slot)
  PROVE  ClientTypes' /\ queue' \in Seq(Requests)
<1> DEFINE r == Head(queue)
<1>1. r \in Requests /\ Tail(queue) \in Seq(Requests)
  BY HeadFacts
<1>2. /\ r.from \in Clients /\ r.op \in {"new", "clr"}
      /\ r.op = "new" => r.from \in Telnet \cup Web
  BY <1>1, ReqFacts, LoginReqFacts
<1> HIDE DEF r
<1>3. queue' = Tail(queue) /\ UNCHANGED <<hup, at, saved, meant>>
  BY DEF Answer
<1>4. CASE ~Waits(r)
  <2>1. pc' = pc /\ ent' = ent /\ nth' = nth
    BY <1>4 DEF Answer, r
  <2> QED BY <2>1, <1>1, <1>3 DEF ClientTypes
<1>5. CASE Waits(r)
  <2> DEFINE there == IF r.from \in Kickers THEN "kick"
                      ELSE IF r.op = "clr" \/ slot = NoSlot THEN "gone"
                      ELSE IF r.from \in Web THEN "set_pid" ELSE "in"
  <2>1. /\ pc' = [pc EXCEPT ![r.from] = there]
        /\ ent' = (IF r.op = "new" THEN [ent EXCEPT ![r.from] = slot] ELSE ent)
        /\ nth' = (IF r.from \in Kickers THEN [nth EXCEPT ![r.from] = @ + 1] ELSE nth)
    BY <1>5 DEF Answer, r
  <2>2. there \in Places \cup KickPlaces
        /\ (r.from \in Kickers => there = "kick")
        /\ (r.from \notin Kickers => there \in Places)
        /\ (there \in HoldsSlot => r.op = "new" /\ slot \in Slots)
    BY <1>2, Kinds DEF Places, KickPlaces, HoldsSlot
  <2> HIDE DEF there
  <2>3. pc' \in [Clients -> Places \cup KickPlaces]
    BY <2>1, <2>2, <1>2 DEF ClientTypes
  <2>4. \A c \in Telnet \cup Web : pc'[c] \in Places
    BY <2>1, <2>2, <1>2, Kinds DEF ClientTypes
  <2>5. \A k \in Kickers : pc'[k] \in KickPlaces
    BY <2>1, <2>2, <1>2, Kinds DEF ClientTypes, KickPlaces
  <2>6. ent' \in [Telnet \cup Web -> 0 .. N]
    BY <2>1, <1>2 DEF ClientTypes
  <2>7. \A c \in Telnet \cup Web : pc'[c] \in HoldsSlot => ent'[c] \in Slots
    BY <2>1, <2>2, <1>2, Kinds DEF ClientTypes
  <2>8. \A k \in Kickers : pc'[k] = "listed" => k \in Choosers /\ at'[k] \in Slots
    BY <2>1, <2>2, <1>2, <1>3, Kinds DEF ClientTypes
  <2>9. nth' \in [Kickers -> Nat]
    BY <2>1 DEF ClientTypes
  <2>10. \A k \in Kickers : pc'[k] \in {"kick", "wait_clr"} => nth'[k] >= 1
    <3> TAKE k \in Kickers
    <3>1. CASE k = r.from
      BY <3>1, <2>1, <2>2 DEF ClientTypes
    <3>2. CASE k # r.from
      <4>1. pc'[k] = pc[k] /\ nth'[k] = nth[k]
        BY <3>2, <2>1, <1>2, Kinds DEF ClientTypes
      <4> QED BY <4>1 DEF ClientTypes
    <3> QED BY <3>1, <3>2
  <2> QED BY <1>1, <1>3, <2>3, <2>4, <2>5, <2>6, <2>7, <2>8, <2>9, <2>10 DEF ClientTypes
<1> QED BY <1>4, <1>5

LEMMA ClientMoves ==
  ASSUME ClientTypes, NEW c \in Telnet \cup Web, NEW there \in Places, Goto(c, there),
         there \in HoldsSlot => ent[c] \in Slots,
         UNCHANGED <<ent, hup, at, saved, nth, meant>>
  PROVE  ClientTypes'
<1>1. c \in Clients /\ c \notin Kickers /\ pc' = [pc EXCEPT ![c] = there]
  BY Kinds DEF Goto
<1>2. pc' \in [Clients -> Places \cup KickPlaces] /\ (\A d \in Telnet \cup Web : pc'[d] \in Places)
  BY <1>1 DEF ClientTypes
<1>3. \A k \in Kickers : pc'[k] = pc[k]
  BY <1>1, Kinds DEF ClientTypes
<1>4. \A d \in Telnet \cup Web : pc'[d] \in HoldsSlot => ent'[d] \in Slots
  BY <1>1, Kinds DEF ClientTypes
<1> QED BY <1>2, <1>3, <1>4 DEF ClientTypes

LEMMA LoginTypes ==
  ASSUME TypeInv, NEW c \in Clients, Login(c)
  PROVE  TypeInv'
<1>1. CASE Enter(c)
  <2>1. c \in Telnet \cup Web /\ NewReq(c) \in Requests
    BY <1>1 DEF Enter, Requests, LoginReqs
  <2>2. ClientTypes'
    BY <1>1, <2>1, ClientMoves DEF Enter, TypeInv, Places, HoldsSlot
  <2>3. UtmpdTypes'
    BY <1>1, <2>1, SendTypes DEF Enter, TypeInv
  <2> QED BY <1>1, <2>2, <2>3, TableUnchanged DEF Enter, TypeInv
<1>2. CASE SetPid(c)
  <2>1. c \in Web /\ ent[c] \in Slots
    BY <1>2 DEF SetPid, TypeInv, ClientTypes, HoldsSlot
  <2>2. ClientTypes'
    BY <1>2, <2>1, ClientMoves DEF SetPid, TypeInv, Places, HoldsSlot
  <2>3. UtmpdTypes'
    BY <1>2, UtmpdUnchanged DEF SetPid, TypeInv
  <2>4. info' = [info EXCEPT ![ent[c]].pid = WebPid] /\ UNCHANGED <<chain, ring, number>>
    BY <1>2 DEF SetPid
  <2>5. info \in [Slots -> [active : BOOLEAN, user : Users \cup {NoUser}, pid : Pids \cup {0}]]
    BY DEF TypeInv, TableTypes, TableTypeOK
  <2>6. info' \in [Slots -> [active : BOOLEAN, user : Users \cup {NoUser}, pid : Pids \cup {0}]]
    BY <2>1, <2>4, <2>5, Kinds
  <2>7. \A s \in Slots : info'[s].active = info[s].active /\ info'[s].user = info[s].user
    BY <2>1, <2>4, <2>5
  <2>8. Online' = Online
    BY <2>7 DEF Online, Active
  <2>9. TableTypes'
    BY <2>4, <2>6, <2>7, <2>8 DEF TypeInv, TableTypes, TableTypeOK, Online
  <2> QED BY <2>2, <2>3, <2>9 DEF TypeInv
<1> QED BY <1>1, <1>2 DEF Login

LEMMA LogoutTypes ==
  ASSUME TypeInv, NEW c \in Clients, Logout(c)
  PROVE  TypeInv'
<1> USE DEF Places, HoldsSlot
<1>1. CASE Leave(c)
  <2>1. c \in Telnet /\ ent[c] \in Slots
    BY <1>1 DEF Leave, TypeInv, ClientTypes
  <2>2. ClrReq(c, ent[c], UserOf[c], c, 0) \in Requests
    BY <2>1 DEF Requests, LogoutReqs
  <2>3. ClientTypes'
    BY <1>1, <2>1, ClientMoves DEF Leave, TypeInv
  <2>4. UtmpdTypes'
    BY <1>1, <2>2, SendTypes DEF Leave, TypeInv
  <2> QED BY <1>1, <2>3, <2>4, TableUnchanged DEF Leave, TypeInv
<1>2. CASE WebClick(c)
  <2>1. c \in Web /\ ent[c] \in Slots
    BY <1>2 DEF WebClick, TypeInv, ClientTypes
  <2>2. PICK there \in {"leaving", "gone"} : Goto(c, there)
    BY <1>2 DEF WebClick
  <2>3. ClientTypes'
    BY <1>2, <2>1, <2>2, ClientMoves DEF WebClick, TypeInv
  <2>4. UtmpdTypes'
    BY <1>2, UtmpdUnchanged DEF WebClick, TypeInv
  <2> QED BY <1>2, <2>3, <2>4, TableUnchanged DEF WebClick, TypeInv
<1>3. CASE WebLogoff(c) \/ WebLogoffAgain(c)
  <2>1. c \in Web /\ ent[c] \in Slots
    BY <1>3 DEF WebLogoff, WebLogoffAgain, TypeInv, ClientTypes
  <2>2. ClrReq(c, ent[c], UserOf[c], WebPid, 0) \in Requests
    BY <2>1 DEF Requests, LogoutReqs
  <2>3. ClientTypes'
    <3>1. CASE WebLogoff(c)
      BY <3>1, <2>1, ClientMoves DEF WebLogoff, TypeInv
    <3>2. CASE WebLogoffAgain(c)
      BY <3>2 DEF WebLogoffAgain, TypeInv, ClientTypes
    <3> QED BY <1>3, <3>1, <3>2
  <2>4. UtmpdTypes'
    BY <1>3, <2>2, SendTypes DEF WebLogoff, WebLogoffAgain, TypeInv
  <2> QED BY <1>3, <2>3, <2>4, TableUnchanged DEF WebLogoff, WebLogoffAgain, TypeInv
<1>4. CASE WebAway(c)
  <2>1. ClientTypes'
    BY <1>4, ClientMoves DEF WebAway, TypeInv
  <2>2. UtmpdTypes'
    BY <1>4, UtmpdUnchanged DEF WebAway, TypeInv
  <2> QED BY <1>4, <2>1, <2>2, TableUnchanged DEF WebAway, TypeInv
<1> QED BY <1>1, <1>2, <1>3, <1>4 DEF Logout

LEMMA KickerMoves ==
  ASSUME ClientTypes, NEW k \in Kickers, NEW there \in KickPlaces \ {"listed"}, Goto(k, there),
         nth' \in [Kickers -> Nat], \A j \in Kickers \ {k} : nth'[j] = nth[j],
         there \in {"kick", "wait_clr"} => nth'[k] >= 1,
         hup' \subseteq Telnet, at' \in [Kickers -> 0 .. N],
         \A j \in Kickers \ {k} : at'[j] = at[j],
         saved' \in [Kickers -> Seq([slot : Slots, pid : Pids \cup {NoPid}])],
         meant' \in [Kickers -> SUBSET Telnet], ent' = ent
  PROVE  ClientTypes'
<1>1. k \in Clients /\ k \notin Telnet \cup Web /\ pc' = [pc EXCEPT ![k] = there]
  BY Kinds DEF Goto
<1>2. pc' \in [Clients -> Places \cup KickPlaces] /\ pc'[k] = there
      /\ \A d \in Clients \ {k} : pc'[d] = pc[d]
  BY <1>1 DEF ClientTypes
<1>3. /\ \A d \in Telnet \cup Web : pc'[d] \in Places
      /\ \A d \in Telnet \cup Web : pc'[d] \in HoldsSlot => ent'[d] \in Slots
  BY <1>1, <1>2, Kinds DEF ClientTypes
<1>4. \A j \in Kickers : pc'[j] \in KickPlaces
  BY <1>1, <1>2, Kinds DEF ClientTypes
<1>5. \A j \in Kickers : pc'[j] = "listed" => j \in Choosers /\ at'[j] \in Slots
  BY <1>2, Kinds DEF ClientTypes
<1>6. \A j \in Kickers : pc'[j] \in {"kick", "wait_clr"} => nth'[j] >= 1
  BY <1>2, Kinds DEF ClientTypes
<1> QED BY <1>2, <1>3, <1>4, <1>5, <1>6 DEF ClientTypes

LEMMA EndTypes ==
  ASSUME TypeInv, NEW c \in Clients, TimeOut(c) \/ Die(c)
  PROVE  TypeInv'
<1>1. TableTypes' /\ UtmpdTypes'
  BY TableUnchanged, UtmpdUnchanged DEF TimeOut, Die, TypeInv
<1>2. CASE c \in Telnet \cup Web
  <2>1. Goto(c, "gone") /\ UNCHANGED <<ent, hup, at, saved, nth, meant>>
    BY <1>2, Kinds DEF TimeOut, Die
  <2>2. ClientTypes'
    BY <1>2, <2>1, ClientMoves DEF TypeInv, Places, HoldsSlot
  <2> QED BY <1>1, <2>2 DEF TypeInv
<1>3. CASE c \in Kickers
  <2>1. TimeOut(c)
    BY <1>3, Kinds DEF Die
  <2>2. /\ Goto(c, "kick") /\ nth' = [nth EXCEPT ![c] = @ + 1] /\ pc[c] \in {"wait_new", "wait_clr"}
        /\ UNCHANGED <<ent, hup, at, saved, meant>>
    BY <1>3, <2>1 DEF TimeOut
  <2>3. ClientTypes
    BY DEF TypeInv
  <2>4. nth' \in [Kickers -> Nat] /\ nth'[c] >= 1 /\ \A j \in Kickers \ {c} : nth'[j] = nth[j]
    BY <2>2, <2>3, <1>3 DEF ClientTypes
  <2>5. ClientTypes'
    BY <2>2, <2>3, <2>4, <1>3, KickerMoves DEF ClientTypes, KickPlaces
  <2> QED BY <1>1, <2>5 DEF TypeInv
<1> QED BY <1>2, <1>3, Kinds

LEMMA LinkTypes ==
  ASSUME TableTypeOK
  PROVE  /\ \A u \in Users : FirstOf(u) \in 0 .. N
         /\ \A s \in Slots : NextOf(s) \in 0 .. N
<1>0. Slots \subseteq 0 .. N /\ NoSlot \in 0 .. N
  BY NAssumption DEF Slots, NoSlot
<1>1. ASSUME NEW u \in Users PROVE FirstOf(u) \in 0 .. N
  <2>1. chain[Hash[u]] \in Seq(Slots)
    BY ChainTypes
  <2>2. chain[Hash[u]] # <<>> => Head(chain[Hash[u]]) \in Slots
    BY <2>1
  <2> QED BY <2>2, <1>0 DEF FirstOf
<1>2. ASSUME NEW s \in Slots PROVE NextOf(s) \in 0 .. N
  <2> DEFINE after == {a \in Buckets \X Slots :
                         /\ a[2] < Len(chain[a[1]]) /\ chain[a[1]][a[2]] = s}
             b == CHOOSE a \in after : TRUE
  <2>1. CASE after = {}
    BY <2>1, <1>0 DEF NextOf
  <2>2. CASE after # {}
    <3>1. b \in after
      BY <2>2
    <3>2. NextOf(s) = chain[b[1]][b[2] + 1]
      BY <2>2 DEF NextOf
    <3> HIDE DEF b
    <3>3. b[1] \in Buckets /\ b[2] \in Slots /\ b[2] < Len(chain[b[1]])
      BY <3>1
    <3>c. chain[b[1]] \in Seq(Slots)
      BY <3>3, ChainTypes
    <3>l. Len(chain[b[1]]) \in Nat /\ b[2] \in Nat
      BY <3>3, <3>c, NAssumption DEF Slots
    <3>4. chain[b[1]] \in Seq(Slots) /\ b[2] + 1 \in 1 .. Len(chain[b[1]])
      <4>1. b[2] + 1 \in 1 .. Len(chain[b[1]])
        BY <3>3, <3>l
      <4> QED BY <3>c, <4>1
    <3>5. chain[b[1]][b[2] + 1] \in Slots
      BY <3>4
    <3> QED BY <3>2, <3>5, <1>0
  <2> QED BY <2>1, <2>2
<1> QED BY <1>1, <1>2

LEMMA KickTypes ==
  ASSUME TypeInv, NEW k \in Clients, Kick(k)
  PROVE  TypeInv'
<1> USE DEF KickPlaces
<1>0. /\ ClientTypes /\ UtmpdTypes /\ TableTypes /\ TableTypeOK
  BY DEF TypeInv, TableTypes
<1>1. CASE KickAll(k)
  <2>1. k \in Kickers /\ Target[k] \in Users
    BY <1>1, TargetAssumption DEF KickAll
  <2>2. FirstOf(Target[k]) \in 0 .. N
    BY <2>1, <1>0, LinkTypes
  <2>3. meant' \in [Kickers -> SUBSET Telnet]
    BY <1>0, <1>1 DEF KickAll, ClientTypes
  <2>4. ClientTypes'
    BY <1>0, <1>1, <2>1, <2>2, <2>3, KickerMoves DEF KickAll, ClientTypes
  <2> QED BY <1>0, <1>1, <2>4, TableUnchanged, UtmpdUnchanged DEF KickAll, TypeInv
<1>2. CASE KickLook(k)
  <2>1. k \in Kickers /\ at[k] \in Slots
    BY <1>0, <1>2 DEF KickLook, ClientTypes, Slots, NoSlot
  <2>2. NextOf(at[k]) \in 0 .. N /\ info[at[k]].pid \in Pids \cup {NoPid}
    BY <1>0, <2>1, LinkTypes DEF TableTypeOK, NoPid
  <2>3. saved' \in [Kickers -> Seq([slot : Slots, pid : Pids \cup {NoPid}])]
    <3> DEFINE Saved == [slot : Slots, pid : Pids \cup {NoPid}]
               a == [slot |-> at[k], pid |-> info[at[k]].pid]
    <3>1. a \in Saved /\ saved \in [Kickers -> Seq(Saved)]
      BY <1>0, <2>1, <2>2 DEF ClientTypes
    <3>2. saved' = saved \/ saved' = [saved EXCEPT ![k] = Append(@, a)]
      BY <1>2 DEF KickLook
    <3> HIDE DEF Saved, a
    <3>3. Append(saved[k], a) \in Seq(Saved)
      BY <3>1, <2>1
    <3>4. saved' \in [Kickers -> Seq(Saved)]
      BY <3>1, <3>2, <3>3
    <3> QED BY <3>4 DEF Saved
  <2>4. at' \in [Kickers -> 0 .. N] /\ pc[k] = "look" /\ \A j \in Kickers \ {k} : at'[j] = at[j]
    BY <1>0, <1>2, <2>1, <2>2 DEF KickLook, ClientTypes
  <2>5. ClientTypes'
    BY <1>0, <1>2, <2>3, <2>4 DEF KickLook, ClientTypes
  <2> QED BY <1>0, <1>2, <2>5, TableUnchanged, UtmpdUnchanged DEF KickLook, TypeInv
<1>3. CASE KickLooked(k)
  <2>1. k \in Kickers /\ nth' \in [Kickers -> Nat] /\ nth'[k] = 1
        /\ \A j \in Kickers \ {k} : nth'[j] = nth[j]
    BY <1>0, <1>3 DEF KickLooked, ClientTypes
  <2>2. Goto(k, "kick") /\ nth'[k] >= 1 /\ UNCHANGED <<ent, hup, at, saved, meant>>
    BY <1>3, <2>1 DEF KickLooked
  <2>3. "kick" \in KickPlaces \ {"listed"}
    OBVIOUS
  <2>4. ClientTypes'
    BY <1>0, <2>1, <2>2, <2>3, KickerMoves DEF ClientTypes
  <2> QED BY <1>0, <1>3, <2>4, TableUnchanged, UtmpdUnchanged DEF KickLooked, TypeInv
<1>4. CASE KickList(k)
  <2>1. PICK s \in Slots : at' = [at EXCEPT ![k] = s]
    BY <1>4 DEF KickList, Online
  <2>2. /\ k \in Choosers /\ k \in Kickers /\ k \notin Telnet \cup Web
        /\ pc' = [pc EXCEPT ![k] = "listed"]
        /\ UNCHANGED <<ent, hup, saved, nth, meant>>
    BY <1>4, TargetAssumption, Kinds DEF KickList, Goto
  <2>3. at' \in [Kickers -> 0 .. N] /\ at'[k] \in Slots
    BY <1>0, <2>1, <2>2, NAssumption DEF ClientTypes, Slots
  <2>4. \A j \in Kickers : pc'[j] = "listed" => j \in Choosers /\ at'[j] \in Slots
    BY <1>0, <2>1, <2>2, <2>3, Kinds DEF ClientTypes
  <2>5. ClientTypes'
    BY <1>0, <2>2, <2>3, <2>4, Kinds DEF ClientTypes
  <2> QED BY <1>0, <1>4, <2>5, TableUnchanged, UtmpdUnchanged DEF KickList, TypeInv
<1>5. CASE KickChosen(k)
  <2>1. k \in Kickers /\ at[k] \in Slots
    BY <1>0, <1>5 DEF KickChosen, ClientTypes
  <2>2. <<[slot |-> at[k], pid |-> info[at[k]].pid]>> \in Seq([slot : Slots, pid : Pids \cup {NoPid}])
    <3>1. info[at[k]].pid \in Pids \cup {NoPid}
      BY <1>0, <2>1 DEF TableTypeOK, NoPid
    <3> QED BY <2>1, <3>1
  <2>3. saved' \in [Kickers -> Seq([slot : Slots, pid : Pids \cup {NoPid}])]
    BY <1>0, <1>5, <2>2 DEF KickChosen, ClientTypes
  <2>4. nth' \in [Kickers -> Nat] /\ nth'[k] = 1 /\ \A j \in Kickers \ {k} : nth'[j] = nth[j]
    BY <1>0, <1>5, <2>1 DEF KickChosen, ClientTypes
  <2>5. Goto(k, "kick") /\ nth'[k] >= 1 /\ UNCHANGED <<ent, hup, at, meant>>
    BY <1>5, <2>4 DEF KickChosen
  <2>6. "kick" \in KickPlaces \ {"listed"}
    OBVIOUS
  <2>7. ClientTypes'
    BY <1>0, <2>1, <2>3, <2>4, <2>5, <2>6, KickerMoves DEF ClientTypes
  <2> QED BY <1>0, <1>5, <2>7, TableUnchanged, UtmpdUnchanged DEF KickChosen, TypeInv
<1>6. CASE KickSignal(k)
  <2> DEFINE a == saved[k][nth[k]]
  <2> DEFINE Saved == [slot : Slots, pid : Pids \cup {NoPid}]
  <2>0. k \in Kickers /\ pc[k] = "kick" /\ nth[k] <= Len(saved[k])
    BY <1>6 DEF KickSignal
  <2>1. k \in Kickers /\ nth[k] \in 1 .. Len(saved[k]) /\ saved[k] \in Seq(Saved)
    <3>1. nth[k] \in Nat /\ nth[k] >= 1 /\ saved[k] \in Seq(Saved)
      BY <1>0, <2>0 DEF ClientTypes
    <3> HIDE DEF Saved
    <3>2. Len(saved[k]) \in Nat
      BY <3>1
    <3> QED BY <2>0, <3>1, <3>2
  <2>2. a \in Saved
    <3> HIDE DEF Saved
    <3> QED BY <2>1
  <2>3. Send(ClrReq(k, a.slot, Target[k], a.pid, nth[k])) /\ hup' \subseteq Telnet
    BY <1>0, <1>6 DEF KickSignal, ClientTypes
  <2>4. ClrReq(k, a.slot, Target[k], a.pid, nth[k]) \in Requests
    <3>1. a.slot \in Slots /\ a.pid \in Pids \cup {NoPid} /\ nth[k] \in Nat
      BY <2>1, <2>2
    <3> HIDE DEF a
    <3> QED BY <2>1, <3>1, KickReqType
  <2> HIDE DEF a
  <2>5. UtmpdTypes'
    BY <1>0, <1>6, <2>3, <2>4, SendTypes DEF KickSignal
  <2>g. Goto(k, "wait_clr") /\ UNCHANGED <<ent, at, saved, nth, meant>>
    BY <1>6 DEF KickSignal
  <2>6. Goto(k, "wait_clr") /\ UNCHANGED <<ent, at, saved, nth, meant>> /\ nth[k] >= 1
    BY <2>1, <2>g
  <2>7. ClientTypes'
    BY <1>0, <2>1, <2>3, <2>6, KickerMoves DEF ClientTypes
  <2> QED BY <1>0, <1>6, <2>5, <2>7, TableUnchanged DEF KickSignal, TypeInv
<1>7. CASE KickItself(k) \/ KickDone(k)
  <2>1. k \in Kickers /\ Goto(k, "gone") /\ UNCHANGED <<ent, hup, at, saved, nth, meant>>
    BY <1>7 DEF KickItself, KickDone
  <2>2. ClientTypes'
    BY <1>0, <2>1, KickerMoves DEF ClientTypes
  <2> QED BY <1>0, <1>7, <2>2, TableUnchanged, UtmpdUnchanged DEF KickItself, KickDone, TypeInv
<1>8. CASE KickSkip(k)
  <2>1. k \in Kickers /\ nth' = [nth EXCEPT ![k] = @ + 1] /\ UNCHANGED <<pc, ent, hup, at, saved, meant>>
    BY <1>8 DEF KickSkip
  <2>2. nth' \in [Kickers -> Nat] /\ \A j \in Kickers : nth'[j] >= nth[j] /\ nth[j] \in Nat
    BY <1>0, <2>1 DEF ClientTypes
  <2>3. \A j \in Kickers : pc'[j] \in {"kick", "wait_clr"} => nth'[j] >= 1
    BY <1>0, <2>1, <2>2 DEF ClientTypes
  <2>4. ClientTypes'
    BY <1>0, <2>1, <2>2, <2>3 DEF ClientTypes
  <2> QED BY <1>0, <1>8, <2>4, TableUnchanged, UtmpdUnchanged DEF KickSkip, TypeInv
<1> QED BY <1>1, <1>2, <1>3, <1>4, <1>5, <1>6, <1>7, <1>8 DEF Kick

LEMMA SweepTypes ==
  ASSUME ClientTypes, UtmpdTypes, sweep # 0, SweepOn,
         key' \in [Slots -> Telnet \cup Web \cup {NoSlot}]
  PROVE  ClientTypes' /\ UtmpdTypes'
<1>0. queue # <<>> /\ granted \in Slots /\ sweep \in 0 .. N
  BY DEF UtmpdTypes
<1>1. CASE sweep < N
  <2>1. sweep' = sweep + 1 /\ UNCHANGED <<queue, granted>> /\ UNCHANGED clientVars
    BY <1>1 DEF SweepOn
  <2>2. sweep' \in 0 .. N
    BY <2>1, <1>0, <1>1, NAssumption
  <2>3. ClientTypes'
    BY <2>1 DEF clientVars, ClientTypes
  <2> QED BY <2>1, <2>2, <2>3 DEF UtmpdTypes
<1>2. CASE ~(sweep < N)
  <2>1. sweep' = 0 /\ granted' = NoSlot /\ Answer(Head(queue), granted)
    BY <1>2 DEF SweepOn
  <2>2. granted \in 0 .. N
    BY DEF UtmpdTypes
  <2>3. ClientTypes' /\ queue' \in Seq(Requests)
    BY <1>0, <2>1, <2>2, AnswerTypes
  <2> QED BY <2>1, <2>3, NAssumption DEF UtmpdTypes, NoSlot
<1> QED BY <1>1, <1>2

LEMMA UtmpdStepTypes ==
  ASSUME TypeInv, Utmpd
  PROVE  TypeInv'
<1>0. ClientTypes /\ UtmpdTypes /\ TableTypes /\ TableTypeOK
  BY DEF TypeInv, TableTypes
<1> DEFINE r == Head(queue)
<1>1. ASSUME queue # <<>>
      PROVE  /\ r \in Requests /\ r.from \in Clients /\ r.user \in Users
             /\ r.pid \in Pids \cup {0}
             /\ r.op = "new" => r \in LoginReqs /\ r.from \in Telnet \cup Web
             /\ r.op = "clr" => r.slot \in Slots
  BY <1>0, <1>1, HeadFacts, ReqFacts, LoginReqFacts DEF NoPid
<1> HIDE DEF r
<1>2. NoSlot \in 0 .. N /\ 1 \in 0 .. N
  BY NAssumption DEF NoSlot
<1>3. CASE Refuse \/ IgnoreClear
  <2>1. queue # <<>> /\ Answer(r, NoSlot) /\ UNCHANGED <<key, sweep, granted>> /\ sweep = 0
    BY <1>3 DEF Refuse, IgnoreClear, r
  <2>2. ClientTypes' /\ queue' \in Seq(Requests)
    BY <1>0, <1>2, <2>1, AnswerTypes DEF r
  <2>3. UtmpdTypes'
    BY <1>0, <2>1, <2>2 DEF UtmpdTypes
  <2> QED BY <1>0, <1>3, <2>2, <2>3, TableUnchanged DEF Refuse, IgnoreClear, TypeInv
<1>4. CASE Grant
  <2>1. /\ queue # <<>> /\ sweep = 0 /\ r.op = "new" /\ Alloc(r.user, r.pid)
        /\ key' = [key EXCEPT ![Granted] = r.from]
        /\ \/ Answer(r, Granted) /\ UNCHANGED <<sweep, granted>>
           \/ /\ r.from \in Telnet /\ sweep' = 1 /\ granted' = Granted
              /\ UNCHANGED queue /\ UNCHANGED clientVars
    BY <1>4 DEF Grant, r
  <2>2. TableTypes'
    BY <1>0, <1>1, <2>1, AllocTypes
  <2>3. Granted \in Slots /\ Granted \in 0 .. N
    BY <1>0, <2>1, GrantedType, NAssumption DEF Alloc, Slots
  <2>4. key' \in [Slots -> Telnet \cup Web \cup {NoSlot}]
    BY <1>0, <1>1, <2>1 DEF UtmpdTypes
  <2>5. CASE Answer(r, Granted) /\ UNCHANGED <<sweep, granted>>
    <3>1. ClientTypes' /\ queue' \in Seq(Requests)
      BY <1>0, <2>1, <2>3, <2>5, AnswerTypes DEF r
    <3>2. UtmpdTypes'
      BY <1>0, <2>1, <2>4, <2>5, <3>1 DEF UtmpdTypes
    <3> QED BY <2>2, <3>1, <3>2 DEF TypeInv
  <2>6. CASE r.from \in Telnet /\ sweep' = 1 /\ granted' = Granted /\ UNCHANGED queue /\ UNCHANGED clientVars
    <3>1. ClientTypes'
      BY <1>0, <2>6 DEF ClientTypes, clientVars
    <3>2. UtmpdTypes'
      BY <1>0, <1>1, <1>2, <2>1, <2>3, <2>4, <2>6 DEF UtmpdTypes, r
    <3> QED BY <2>2, <3>1, <3>2 DEF TypeInv
  <2> QED BY <2>1, <2>5, <2>6
<1>5. CASE SweepClears
  <2>1. sweep # 0 /\ SweepOn /\ Free(sweep) /\ key' = [key EXCEPT ![sweep] = NoSlot]
    BY <1>5 DEF SweepClears
  <2>2. sweep \in Slots
    BY <1>0, <2>1, NAssumption DEF UtmpdTypes, Slots
  <2>3. TableTypes'
    BY <1>0, <2>1, <2>2, FreeTypes
  <2>4. key' \in [Slots -> Telnet \cup Web \cup {NoSlot}]
    BY <1>0, <2>1 DEF UtmpdTypes
  <2> QED BY <1>0, <2>1, <2>3, <2>4, SweepTypes DEF TypeInv
<1>6. CASE SweepPasses
  <2>1. sweep # 0 /\ SweepOn /\ UNCHANGED key /\ UNCHANGED tableVars
    BY <1>6 DEF SweepPasses
  <2>2. key' \in [Slots -> Telnet \cup Web \cup {NoSlot}]
    BY <1>0, <2>1 DEF UtmpdTypes
  <2> QED BY <1>0, <2>1, <2>2, SweepTypes, TableUnchanged DEF TypeInv
<1>7. CASE ServeClear
  <2>1. /\ queue # <<>> /\ r.op = "clr" /\ Free(r.slot) /\ key' = [key EXCEPT ![r.slot] = NoSlot]
        /\ Answer(r, NoSlot) /\ UNCHANGED <<sweep, granted>> /\ sweep = 0
    BY <1>7 DEF ServeClear, r
  <2>2. TableTypes'
    BY <1>0, <1>1, <2>1, FreeTypes
  <2>3. ClientTypes' /\ queue' \in Seq(Requests)
    BY <1>0, <1>2, <2>1, AnswerTypes DEF r
  <2>4. UtmpdTypes'
    BY <1>0, <2>1, <2>3 DEF UtmpdTypes
  <2> QED BY <2>2, <2>3, <2>4 DEF TypeInv
<1> QED BY <1>3, <1>4, <1>5, <1>6, <1>7 DEF Utmpd

LEMMA TypeInvInit == Init => TypeInv
<1> SUFFICES ASSUME Init PROVE TypeInv
  OBVIOUS
<1>1. TableTypes
  BY TableInvInit DEF TableInv, Init
<1>2. PICK cast \in Casts : pc = [c \in Clients |-> IF c \in cast THEN "out" ELSE "gone"]
  BY DEF Init
<1>3. pc \in [Clients -> {"out", "gone"}]
  BY <1>2
<1>4. ClientTypes
  BY <1>3, NAssumption, Kinds DEF Init, ClientTypes, Places, KickPlaces, HoldsSlot, NoSlot
<1>5. UtmpdTypes
  BY NAssumption DEF Init, UtmpdTypes, NoSlot
<1> QED BY <1>1, <1>4, <1>5 DEF TypeInv

LEMMA TypeInvStep == TypeInv /\ [Next]_vars => TypeInv'
<1> SUFFICES ASSUME TypeInv, [Next]_vars PROVE TypeInv'
  OBVIOUS
<1>1. CASE UNCHANGED vars
  <2>1. TableTypes' /\ UtmpdTypes'
    BY <1>1, TableUnchanged, UtmpdUnchanged DEF vars, tableVars, TypeInv
  <2>2. ClientTypes'
    BY <1>1 DEF vars, TypeInv, ClientTypes
  <2> QED BY <2>1, <2>2 DEF TypeInv
<1> QED BY <1>1, LoginTypes, LogoutTypes, EndTypes, KickTypes, UtmpdStepTypes DEF Next

LEMMA TypeInvMeans == TypeInv => TypeOK
<1> SUFFICES ASSUME TypeInv PROVE TypeOK
  OBVIOUS
<1>1. Requests \subseteq Request
  BY ReqFacts
<1>2. queue \in Seq(Request)
  BY <1>1 DEF TypeInv, UtmpdTypes
<1>3. pc \in [Clients -> {"out", "wait_new", "set_pid", "in", "leaving", "wait_clr",
                         "look", "listed", "kick", "gone"}]
  BY DEF TypeInv, ClientTypes, Places, KickPlaces
<1> QED BY <1>2, <1>3 DEF TypeInv, TableTypes, ClientTypes, UtmpdTypes, TypeOK

(* Types of the variables, whoever kicks whom and whatever is on the stack  *)
(* (libBBS/utmp.c).                                                         *)
THEOREM UtmpTypeCorrect == Spec => []TypeOK
BY TypeInvInit, TypeInvStep, TypeInvMeans, PTL DEF Spec

-----------------------------------------------------------------------------
(* What a session needs of those who are there with it: no web visitor comes *)
(* with somebody who kicks his user, and no free slot looks like one of a    *)
(* kicked user's when there are web visitors or choosers.                    *)
Harmless(cast) ==
  /\ \A w \in cast \cap Web, k \in cast \cap Kickers : UserOf[w] # Target[k]
  /\ \/ cast \cap (Web \cup Choosers) = {}
     \/ \A k \in cast \cap Kickers : Target[k] \notin Garbage

OnlyCast(cast) ==
  /\ \A c \in Clients \ cast : pc[c] = "gone"
  /\ \A i \in DOMAIN queue : queue[i].from \in cast

(* A pid of 0 is seen only where there are web visitors or choosers. *)
PidsKnown(cast) ==
  cast \cap (Web \cup Choosers) = {} =>
    /\ \A s \in Online : info[s].pid # NoPid
    /\ \A k \in Kickers : \A j \in DOMAIN saved[k] : saved[k][j].pid # NoPid
    /\ \A i \in DOMAIN queue : queue[i].op = "clr" => queue[i].pid # NoPid

FreeSlots ==
  \A s \in Slots \ Online : info[s].pid = NoPid /\ info[s].user \in Garbage \cup {NoUser}

Through(t) == t \in hup \/ pc[t] \in {"wait_clr", "gone"}
WebThrough == {"leaving", "wait_clr", "gone"}

(* A slot is there for the login that sets its pid, and for the one that     *)
(* waits for the cleaning.                                                   *)
SetsOwnPid == \A w \in Web : pc[w] = "set_pid" => Has(w, ent[w], NoPid)
GrantKept ==
  sweep # 0 => LET t == Head(queue).from IN
                 pc[t] = "wait_new" /\ t \notin hup => Has(t, granted, t)

(* A request to clear a slot is under way, or a pid is saved for one, only   *)
(* if the session is through, has had its signal or is still in the slot.    *)
RequestsMeant ==
  \A i \in DOMAIN queue :
    /\ pc[queue[i].from] # "out"
    /\ queue[i].op = "clr" =>
         /\ queue[i].pid \in Telnet => Through(queue[i].pid)
         /\ queue[i].from \in Web => pc[queue[i].from] \in WebThrough
SavedThere ==
  \A k \in Kickers : \A j \in DOMAIN saved[k] :
    LET a == saved[k][j] IN
      a.pid \in Telnet => (Active(a.slot) /\ info[a.slot].pid = a.pid) \/ Through(a.pid)

SlotInvOf(cast) ==
  /\ OnlyCast(cast) /\ PidsKnown(cast)
  /\ FreeSlots /\ SetsOwnPid /\ GrantKept /\ RequestsMeant /\ SavedThere
  /\ OwnSlot /\ OwnWebSlot
  /\ ChainsPartition /\ RingSorted

SlotInv == \E cast \in Casts : SlotInvOf(cast)

-----------------------------------------------------------------------------
(* What a step may do.  HasNext is Has of the state after it.                *)
HasNext(c, s, p) == /\ info'[s].active /\ key'[s] = c
                    /\ info'[s].user = UserOf[c] /\ info'[s].pid = p
ThroughNext(t) == t \in hup' \/ pc'[t] \in {"wait_clr", "gone"}
Alone(w) == \A v \in Web \ {w} : UserOf[v] = UserOf[w] =>
              pc[v] \in {"out", "wait_new", "set_pid", "in"}

(* Nobody goes back. *)
Onward ==
  /\ \A c \in Clients : pc[c] = "gone" => pc'[c] = "gone"
  /\ \A c \in Clients : pc'[c] = "out" => pc[c] = "out"
  /\ \A t \in Telnet : pc[t] \in {"wait_clr", "gone"} => pc'[t] \in {"wait_clr", "gone"}
  /\ \A w \in Web : pc[w] \in WebThrough => pc'[w] \in WebThrough
  /\ \A t \in Telnet : pc'[t] = "wait_new" => pc[t] \in {"out", "wait_new"}
  /\ hup \subseteq hup'

(* Who is in was in before, or has its slot now. *)
HoldersFrom ==
  \A d \in Telnet \cup Web : pc'[d] \in {"set_pid", "in"} =>
    \/ pc'[d] = pc[d] /\ ent'[d] = ent[d]
    \/ d \in Telnet /\ pc'[d] = "in" /\ HasNext(d, ent'[d], d)
    \/ d \in Telnet /\ d \in hup
    \/ d \in Web /\ HasNext(d, ent'[d], IF pc'[d] = "in" THEN WebPid ELSE NoPid)

SavedFrom(cast) ==
  \A k \in Kickers : \A j \in DOMAIN saved'[k] :
    \/ \E i \in DOMAIN saved[k] : saved'[k][j] = saved[k][i]
    \/ \E s \in Slots : /\ saved'[k][j] = [slot |-> s, pid |-> info[s].pid]
                        /\ info' = info
                        /\ s \in Online \/ cast \cap Choosers # {}

FreshRequest(r) ==
  /\ r.from \in Clients /\ pc[r.from] # "gone" /\ pc'[r.from] # "out"
  /\ r.op = "clr" =>
       /\ r.from \in Telnet => r.pid = r.from /\ pc'[r.from] = "wait_clr"
       /\ r.from \in Web => r.pid = WebPid /\ pc'[r.from] \in WebThrough
       /\ r.from \in Kickers =>
            /\ \E j \in DOMAIN saved[r.from] : saved[r.from][j] = [slot |-> r.slot, pid |-> r.pid]
            /\ info[r.slot].pid \in Telnet => info[r.slot].pid \in hup'

QueueFrom ==
  \A i \in DOMAIN queue' : \/ \E j \in DOMAIN queue : queue'[i] = queue[j]
                          \/ FreshRequest(queue'[i])

SweepFrom ==
  sweep' # 0 => \/ sweep # 0 /\ Head(queue') = Head(queue) /\ granted' = granted
                \/ HasNext(Head(queue').from, granted', Head(queue').from)

(* Who had a slot has it still. *)
StillHas(cast) ==
  /\ \A w \in Web : pc[w] = "set_pid" /\ pc'[w] = "set_pid" => HasNext(w, ent[w], NoPid)
  /\ \A t \in Telnet : pc[t] = "in" /\ t \notin hup => HasNext(t, ent[t], t)
  /\ \A w \in Web : pc[w] = "in" /\ Alone(w) => HasNext(w, ent[w], WebPid)
  /\ sweep # 0 => LET t == Head(queue).from IN
                     pc[t] = "wait_new" /\ t \notin hup => HasNext(t, granted, t)
  /\ \A k \in Kickers : \A j \in DOMAIN saved[k] :
       LET a == saved[k][j] IN
         a.pid \in Telnet => (info'[a.slot].active /\ info'[a.slot].pid = a.pid) \/ Through(a.pid)
  /\ FreeSlots'
  /\ cast \cap (Web \cup Choosers) = {} => \A s \in Online' : info'[s].pid # NoPid

LEMMA ThroughStays ==
  ASSUME Onward, NEW t \in Telnet, Through(t)
  PROVE  ThroughNext(t)
BY DEF Onward, Through, ThroughNext

(* These together keep the invariant. *)
LEMMA Keeps ==
  ASSUME TypeInv, TypeInv', NEW cast, SlotInvOf(cast), Onward, HoldersFrom, SavedFrom(cast), QueueFrom,
         SweepFrom, StillHas(cast), ChainsPartition', RingSorted'
  PROVE  SlotInvOf(cast)'
<1>0. /\ queue' \in Seq(Requests) /\ queue \in Seq(Requests)
      /\ sweep' # 0 => queue' # <<>> /\ Head(queue').from \in Telnet
      /\ sweep # 0 => queue # <<>> /\ Head(queue).from \in Telnet
      /\ \A k \in Kickers : saved[k] \in Seq([slot : Slots, pid : Pids \cup {NoPid}])
  BY DEF TypeInv, UtmpdTypes, ClientTypes
<1>1. OnlyCast(cast)'
  <2>1. \A c \in Clients \ cast : pc'[c] = "gone"
    BY DEF SlotInvOf, OnlyCast, Onward
  <2>2. \A i \in DOMAIN queue' : queue'[i].from \in cast
    BY DEF SlotInvOf, OnlyCast, QueueFrom, FreshRequest
  <2> QED BY <2>1, <2>2 DEF OnlyCast
<1>2. PidsKnown(cast)'
  <2> SUFFICES ASSUME cast \cap (Web \cup Choosers) = {}
               PROVE  /\ \A s \in Online' : info'[s].pid # NoPid
                      /\ \A k \in Kickers : \A j \in DOMAIN saved'[k] : saved'[k][j].pid # NoPid
                      /\ \A i \in DOMAIN queue' : queue'[i].op = "clr" => queue'[i].pid # NoPid
    BY DEF PidsKnown
  <2>1. /\ \A s \in Online : info[s].pid # NoPid
        /\ \A k \in Kickers : \A j \in DOMAIN saved[k] : saved[k][j].pid # NoPid
        /\ \A i \in DOMAIN queue : queue[i].op = "clr" => queue[i].pid # NoPid
    BY DEF SlotInvOf, PidsKnown
  <2>2. \A s \in Online' : info'[s].pid # NoPid
    BY DEF StillHas
  <2>3. ASSUME NEW k \in Kickers, NEW j \in DOMAIN saved'[k] PROVE saved'[k][j].pid # NoPid
    <3>1. CASE \E i \in DOMAIN saved[k] : saved'[k][j] = saved[k][i]
      BY <3>1, <2>1
    <3>2. CASE \E s \in Online : saved'[k][j] = [slot |-> s, pid |-> info[s].pid]
      BY <3>2, <2>1
    <3> QED BY <3>1, <3>2 DEF SavedFrom
  <2>4. ASSUME NEW i \in DOMAIN queue', queue'[i].op = "clr" PROVE queue'[i].pid # NoPid
    <3>1. CASE \E j \in DOMAIN queue : queue'[i] = queue[j]
      BY <3>1, <2>1, <2>4
    <3>2. CASE FreshRequest(queue'[i])
      BY <3>2, <2>1, <2>4, Kinds DEF FreshRequest
    <3> QED BY <3>1, <3>2 DEF QueueFrom
  <2> QED BY <2>2, <2>3, <2>4
<1>3. SetsOwnPid'
  <2> SUFFICES ASSUME NEW w \in Web, pc'[w] = "set_pid" PROVE HasNext(w, ent'[w], NoPid)
    BY DEF SetsOwnPid, Has, HasNext, Active
  <2> QED BY Kinds DEF HoldersFrom, StillHas
<1>4. OwnSlot'
  <2> SUFFICES ASSUME NEW t \in Telnet, pc'[t] = "in", t \notin hup' PROVE HasNext(t, ent'[t], t)
    BY DEF OwnSlot, Has, HasNext, Active
  <2> QED BY Kinds DEF HoldersFrom, StillHas, Onward
<1>5. OwnWebSlot'
  <2> SUFFICES ASSUME NEW w \in Web, pc'[w] = "in",
                      \A v \in Web \ {w} : UserOf[v] = UserOf[w] =>
                        pc'[v] \in {"out", "wait_new", "set_pid", "in"}
               PROVE  HasNext(w, ent'[w], WebPid)
    BY DEF OwnWebSlot, Has, HasNext, Active
  <2>1. \A v \in Web : pc[v] \in Places
    BY DEF TypeInv, ClientTypes
  <2>2. Alone(w)
    BY <2>1 DEF Alone, Onward, WebThrough, Places
  <2> QED BY <2>2, Kinds DEF HoldersFrom, StillHas
<1>6. RequestsMeant'
  <2> SUFFICES ASSUME NEW i \in DOMAIN queue'
               PROVE  /\ pc'[queue'[i].from] # "out"
                      /\ queue'[i].op = "clr" =>
                           /\ queue'[i].pid \in Telnet => ThroughNext(queue'[i].pid)
                           /\ queue'[i].from \in Web => pc'[queue'[i].from] \in WebThrough
    BY DEF RequestsMeant, Through, ThroughNext
  <2> DEFINE r == queue'[i]
  <2>0. r \in Requests /\ r.from \in Clients
    BY <1>0, ReqFacts
  <2>1. CASE \E j \in DOMAIN queue : r = queue[j]
    <3>1. PICK j \in DOMAIN queue : r = queue[j]
      BY <2>1
    <3> HIDE DEF r
    <3>2. /\ pc[r.from] # "out"
          /\ r.op = "clr" => /\ r.pid \in Telnet => Through(r.pid)
                             /\ r.from \in Web => pc[r.from] \in WebThrough
      BY <3>1 DEF SlotInvOf, RequestsMeant
    <3>3. pc'[r.from] # "out" /\ (r.op = "clr" /\ r.from \in Web => pc'[r.from] \in WebThrough)
      BY <3>2, <2>0 DEF Onward
    <3>4. r.op = "clr" /\ r.pid \in Telnet => ThroughNext(r.pid)
      BY <3>2, ThroughStays
    <3> QED BY <3>3, <3>4 DEF r
  <2>2. CASE FreshRequest(r)
    <3> HIDE DEF r
    <3>1. pc'[r.from] # "out" /\ (r.op = "clr" /\ r.from \in Web => pc'[r.from] \in WebThrough)
      BY <2>2 DEF FreshRequest
    <3>2. ASSUME r.op = "clr", r.pid \in Telnet PROVE ThroughNext(r.pid)
      <4>1. CASE r.from \in Telnet
        BY <4>1, <2>2, <3>2 DEF FreshRequest, ThroughNext
      <4>2. CASE r.from \in Web
        BY <4>2, <2>2, <3>2, Kinds DEF FreshRequest
      <4>3. CASE r.from \in Kickers
        <5>1. PICK j \in DOMAIN saved[r.from] : saved[r.from][j] = [slot |-> r.slot, pid |-> r.pid]
          BY <4>3, <2>2, <3>2 DEF FreshRequest
        <5>2. (Active(r.slot) /\ info[r.slot].pid = r.pid) \/ Through(r.pid)
          BY <4>3, <3>2, <5>1 DEF SlotInvOf, SavedThere
        <5>3. CASE Through(r.pid)
          BY <5>3, <3>2, ThroughStays
        <5>4. CASE info[r.slot].pid = r.pid
          BY <5>4, <4>3, <2>2, <3>2 DEF FreshRequest, ThroughNext
        <5> QED BY <5>2, <5>3, <5>4
      <4> QED BY <4>1, <4>2, <4>3, <2>0, Kinds
    <3> QED BY <3>1, <3>2 DEF r
  <2> QED BY <2>1, <2>2 DEF QueueFrom
<1>7. SavedThere'
  <2> SUFFICES ASSUME NEW k \in Kickers, NEW j \in DOMAIN saved'[k], saved'[k][j].pid \in Telnet
               PROVE  LET a == saved'[k][j] IN
                        (info'[a.slot].active /\ info'[a.slot].pid = a.pid) \/ ThroughNext(a.pid)
    BY DEF SavedThere, Active, Through, ThroughNext
  <2> DEFINE a == saved'[k][j]
  <2>1. CASE \E i \in DOMAIN saved[k] : a = saved[k][i]
    <3>1. PICK i \in DOMAIN saved[k] : a = saved[k][i]
      BY <2>1
    <3>2. (info'[a.slot].active /\ info'[a.slot].pid = a.pid) \/ Through(a.pid)
      BY <3>1 DEF StillHas
    <3> QED BY <3>2, ThroughStays
  <2>2. CASE \E s \in Slots : a = [slot |-> s, pid |-> info[s].pid] /\ info' = info
    <3>1. PICK s \in Slots : a = [slot |-> s, pid |-> info[s].pid] /\ info' = info
      BY <2>2
    <3>2. a.slot = s /\ a.pid = info[s].pid /\ info[s].pid # NoPid
      BY <3>1, Kinds
    <3>3. s \in Online
      BY <3>2 DEF SlotInvOf, FreeSlots
    <3>4. info'[s].active /\ info'[s].pid = a.pid
      BY <3>1, <3>2, <3>3 DEF Online, Active
    <3> QED BY <3>2, <3>4
  <2> QED BY <2>1, <2>2 DEF SavedFrom
<1>8. GrantKept'
  <2> SUFFICES ASSUME sweep' # 0, pc'[Head(queue').from] = "wait_new", Head(queue').from \notin hup'
               PROVE  HasNext(Head(queue').from, granted', Head(queue').from)
    BY DEF GrantKept, Has, HasNext, Active
  <2>1. CASE sweep # 0 /\ Head(queue') = Head(queue) /\ granted' = granted
    <3> DEFINE t == Head(queue).from
    <3>1. t \in Telnet /\ queue # <<>>
      BY <1>0, <2>1
    <3>2. pc[t] # "out"
      <4>1. 1 \in DOMAIN queue /\ Head(queue) = queue[1]
        BY <1>0, <3>1
      <4> QED BY <4>1 DEF SlotInvOf, RequestsMeant
    <3>3. pc[t] = "wait_new" /\ t \notin hup
      BY <2>1, <3>1, <3>2 DEF Onward
    <3> QED BY <3>3, <2>1 DEF StillHas
  <2> QED BY <2>1 DEF SweepFrom
<1>9. FreeSlots'
  BY DEF StillHas
<1> QED BY <1>1, <1>2, <1>3, <1>4, <1>5, <1>6, <1>7, <1>8, <1>9 DEF SlotInvOf

-----------------------------------------------------------------------------
(* The steps of clients leave the table alone, but for the one that sets a   *)
(* pid.                                                                      *)
Step(cast) ==
  /\ Onward /\ HoldersFrom /\ SavedFrom(cast) /\ QueueFrom /\ SweepFrom
  /\ StillHas(cast) /\ ChainsPartition' /\ RingSorted'

LEMMA TableStays ==
  ASSUME TypeInv, NEW cast, SlotInvOf(cast), UNCHANGED key, UNCHANGED tableVars
  PROVE  StillHas(cast) /\ ChainsPartition' /\ RingSorted'
<1>1. info' = info /\ key' = key /\ Online' = Online
  BY DEF tableVars, Online, Active
<1>2. ChainsPartition' /\ RingSorted' /\ FreeSlots'
  BY <1>1 DEF SlotInvOf, FreeSlots, tableVars, ChainsPartition, RingSorted
<1>3. \A c, s, p : Has(c, s, p) => HasNext(c, s, p)
  BY <1>1 DEF Has, HasNext, Active
<1>4. \A k \in Kickers : \A j \in DOMAIN saved[k] :
        LET a == saved[k][j] IN
          a.pid \in Telnet => (info'[a.slot].active /\ info'[a.slot].pid = a.pid) \/ Through(a.pid)
  BY <1>1 DEF SlotInvOf, SavedThere, Active
<1>5. cast \cap (Web \cup Choosers) = {} => \A s \in Online' : info'[s].pid # NoPid
  BY <1>1 DEF SlotInvOf, PidsKnown
<1>6. \A w \in Web : pc[w] = "set_pid" => HasNext(w, ent[w], NoPid)
  BY <1>3 DEF SlotInvOf, SetsOwnPid
<1>7. \A t \in Telnet : pc[t] = "in" /\ t \notin hup => HasNext(t, ent[t], t)
  BY <1>3 DEF SlotInvOf, OwnSlot
<1>8. \A w \in Web : pc[w] = "in" /\ Alone(w) => HasNext(w, ent[w], WebPid)
  BY <1>3 DEF SlotInvOf, OwnWebSlot, Alone
<1>9. sweep # 0 => LET t == Head(queue).from IN
                     pc[t] = "wait_new" /\ t \notin hup => HasNext(t, granted, t)
  BY <1>3 DEF SlotInvOf, GrantKept
<1> QED BY <1>2, <1>4, <1>5, <1>6, <1>7, <1>8, <1>9 DEF StillHas

LEMMA NothingSent ==
  ASSUME UNCHANGED <<queue, sweep, granted>>
  PROVE  QueueFrom /\ SweepFrom
BY DEF QueueFrom, SweepFrom

LEMMA FreshSent ==
  ASSUME TypeInv, NEW r \in Requests, Send(r), FreshRequest(r), UNCHANGED <<key, sweep, granted>>
  PROVE  QueueFrom /\ SweepFrom
<1>1. /\ queue # <<>> => Head(queue') = Head(queue)
      /\ \A i \in DOMAIN queue : i \in DOMAIN queue' /\ queue'[i] = queue[i]
      /\ \A i \in DOMAIN queue' : i \in DOMAIN queue \/ queue'[i] = r
  BY SendTypes DEF TypeInv
<1>2. sweep # 0 => queue # <<>>
  BY DEF TypeInv, UtmpdTypes
<1> QED BY <1>1, <1>2 DEF QueueFrom, SweepFrom

LEMMA NoneSaved ==
  ASSUME NEW cast, UNCHANGED saved
  PROVE  SavedFrom(cast)
BY DEF SavedFrom

LEMMA SessionMoves ==
  ASSUME TypeInv, NEW c \in Telnet \cup Web, NEW there \in Places \ {"out", "set_pid", "in"},
         Goto(c, there), pc[c] # "gone", UNCHANGED <<ent, hup>>,
         c \in Telnet /\ pc[c] = "wait_clr" => there \in {"wait_clr", "gone"},
         c \in Web /\ pc[c] \in WebThrough => there \in WebThrough,
         there = "wait_new" => pc[c] = "out"
  PROVE  Onward /\ HoldersFrom
<1>1. c \in Clients /\ pc' = [pc EXCEPT ![c] = there] /\ pc \in [Clients -> Places \cup KickPlaces]
  BY Kinds DEF Goto, TypeInv, ClientTypes
<1>2. pc'[c] = there /\ \A d \in Clients \ {c} : pc'[d] = pc[d]
  BY <1>1
<1>3. Onward
  BY <1>2, Kinds DEF Onward
<1>4. HoldersFrom
  BY <1>2, Kinds DEF HoldersFrom
<1> QED BY <1>3, <1>4

LEMMA KickerOn ==
  ASSUME TypeInv, NEW k \in Kickers, NEW there \in KickPlaces \ {"out"}, Goto(k, there),
         pc[k] # "gone", ent' = ent, hup \subseteq hup'
  PROVE  Onward /\ HoldersFrom
<1>1. k \in Clients /\ k \notin Telnet \cup Web
      /\ pc' = [pc EXCEPT ![k] = there] /\ pc \in [Clients -> Places \cup KickPlaces]
  BY Kinds DEF Goto, TypeInv, ClientTypes
<1>2. pc'[k] = there /\ \A d \in Clients \ {k} : pc'[d] = pc[d]
  BY <1>1
<1>3. Onward
  BY <1>1, <1>2, Kinds DEF Onward
<1>4. HoldersFrom
  BY <1>1, <1>2, Kinds DEF HoldersFrom
<1> QED BY <1>3, <1>4

LEMMA EnterStep ==
  ASSUME TypeInv, NEW cast, SlotInvOf(cast), NEW c \in Clients, Enter(c)
  PROVE  Step(cast)
<1>1. c \in Telnet \cup Web /\ NewReq(c) \in Requests /\ Send(NewReq(c)) /\ Goto(c, "wait_new")
  BY DEF Enter, Requests, LoginReqs
<1>2. Onward /\ HoldersFrom
  BY <1>1, SessionMoves DEF Enter, Places, WebThrough
<1>3. pc'[c] = "wait_new" /\ pc[c] = "out"
  BY DEF Enter, Goto, TypeInv, ClientTypes
<1>4. FreshRequest(NewReq(c))
  BY <1>3 DEF FreshRequest, NewReq
<1>5. QueueFrom /\ SweepFrom
  BY <1>1, <1>4, FreshSent DEF Enter
<1> QED BY <1>2, <1>5, NoneSaved, TableStays DEF Enter, Step

LEMMA LogoutStep ==
  ASSUME TypeInv, NEW cast, SlotInvOf(cast), NEW c \in Clients, Logout(c)
  PROVE  Step(cast)
<1> USE DEF Places, WebThrough
<1>0. pc \in [Clients -> Places \cup KickPlaces]
  BY DEF TypeInv, ClientTypes
<1>1. CASE Leave(c)
  <2>1. c \in Telnet /\ ent[c] \in Slots
    BY <1>1 DEF Leave, TypeInv, ClientTypes, HoldsSlot
  <2> DEFINE r == ClrReq(c, ent[c], UserOf[c], c, 0)
  <2>2. r \in Requests /\ Send(r)
    BY <1>1, <2>1 DEF Requests, LogoutReqs, Leave
  <2>3. Onward /\ HoldersFrom
    BY <1>1, <2>1, SessionMoves, Kinds DEF Leave
  <2>4. pc'[c] = "wait_clr" /\ pc[c] = "in"
    BY <1>0, <1>1 DEF Leave, Goto
  <2>5. FreshRequest(r)
    BY <2>1, <2>4, Kinds DEF FreshRequest, ClrReq
  <2>6. QueueFrom /\ SweepFrom
    BY <1>1, <2>2, <2>5, FreshSent DEF Leave
  <2> QED BY <1>1, <2>3, <2>6, NoneSaved, TableStays DEF Leave, Step
<1>2. CASE WebClick(c) \/ WebAway(c)
  <2>1. c \in Web /\ pc[c] = "in"
    BY <1>2 DEF WebClick, WebAway
  <2>2. PICK there \in {"leaving", "gone"} : Goto(c, there)
    BY <1>2 DEF WebClick, WebAway
  <2>3. Onward /\ HoldersFrom
    BY <1>2, <2>1, <2>2, SessionMoves, Kinds DEF WebClick, WebAway
  <2>4. QueueFrom /\ SweepFrom
    BY <1>2, NothingSent DEF WebClick, WebAway
  <2> QED BY <1>2, <2>3, <2>4, NoneSaved, TableStays DEF WebClick, WebAway, Step
<1>3. CASE WebLogoff(c) \/ WebLogoffAgain(c)
  <2>1. c \in Web /\ ent[c] \in Slots /\ pc[c] = "leaving"
    BY <1>3 DEF WebLogoff, WebLogoffAgain, TypeInv, ClientTypes, HoldsSlot
  <2> DEFINE r == ClrReq(c, ent[c], UserOf[c], WebPid, 0)
  <2>2. r \in Requests /\ Send(r)
    BY <1>3, <2>1 DEF Requests, LogoutReqs, WebLogoff, WebLogoffAgain
  <2>3. Onward /\ HoldersFrom
    <3>1. CASE WebLogoff(c)
      BY <3>1, <2>1, SessionMoves, Kinds DEF WebLogoff
    <3>2. CASE WebLogoffAgain(c)
      BY <3>2 DEF WebLogoffAgain, Onward, HoldersFrom
    <3> QED BY <1>3, <3>1, <3>2
  <2>4. pc'[c] \in {"leaving", "wait_clr"}
    BY <1>0, <1>3 DEF WebLogoff, WebLogoffAgain, Goto
  <2>5. FreshRequest(r)
    BY <2>1, <2>4, Kinds DEF FreshRequest, ClrReq
  <2>6. QueueFrom /\ SweepFrom
    BY <1>3, <2>2, <2>5, FreshSent DEF WebLogoff, WebLogoffAgain
  <2> QED BY <1>3, <2>3, <2>6, NoneSaved, TableStays DEF WebLogoff, WebLogoffAgain, Step
<1> QED BY <1>1, <1>2, <1>3 DEF Logout

LEMMA EndStep ==
  ASSUME TypeInv, NEW cast, SlotInvOf(cast), NEW c \in Clients, TimeOut(c) \/ Die(c)
  PROVE  Step(cast)
<1> USE DEF Places, WebThrough
<1>1. Onward /\ HoldersFrom
  <2>1. CASE c \in Telnet \cup Web
    <3>1. Goto(c, "gone") /\ pc[c] # "gone" /\ UNCHANGED <<ent, hup>>
      BY <2>1, Kinds DEF TimeOut, Die
    <3> QED BY <2>1, <3>1, SessionMoves
  <2>2. CASE c \in Kickers
    <3>1. Goto(c, "kick") /\ pc[c] # "gone" /\ UNCHANGED <<ent, hup>>
      BY <2>2, Kinds DEF TimeOut, Die
    <3> QED BY <2>2, <3>1, KickerOn DEF KickPlaces
  <2> QED BY <2>1, <2>2, Kinds
<1>2. QueueFrom /\ SweepFrom
  BY NothingSent DEF TimeOut, Die
<1>3. SavedFrom(cast)
  BY NoneSaved DEF TimeOut, Die
<1>4. StillHas(cast) /\ ChainsPartition' /\ RingSorted'
  BY TableStays DEF TimeOut, Die
<1> QED BY <1>1, <1>2, <1>3, <1>4 DEF Step

LEMMA KickStep ==
  ASSUME TypeInv, NEW cast, SlotInvOf(cast), NEW k \in Clients, Kick(k)
  PROVE  Step(cast)
<1> USE DEF KickPlaces
<1> DEFINE Saved == [slot : Slots, pid : Pids \cup {NoPid}]
<1>0. /\ k \in Kickers /\ k \in Clients /\ pc[k] # "gone" /\ saved \in [Kickers -> Seq(Saved)]
      /\ pc \in [Clients -> Places \cup KickPlaces]
      /\ at \in [Kickers -> 0 .. N] /\ nth \in [Kickers -> Nat]
  BY TargetAssumption DEF Kick, KickAll, KickLook, KickLooked, KickList, KickChosen, KickSignal, KickItself,
         KickSkip, KickDone, TypeInv, ClientTypes
<1> HIDE DEF Saved
<1>1. StillHas(cast) /\ ChainsPartition' /\ RingSorted'
  BY TableStays DEF Kick, KickAll, KickLook, KickLooked, KickList, KickChosen, KickSignal, KickItself,
                    KickSkip, KickDone
<1>2. Onward /\ HoldersFrom
  <2>1. CASE KickLook(k) \/ KickSkip(k)
    BY <2>1 DEF KickLook, KickSkip, Onward, HoldersFrom
  <2>2. CASE ~(KickLook(k) \/ KickSkip(k))
    <3>1. ent' = ent /\ hup \subseteq hup' /\ \E there \in KickPlaces \ {"out"} : Goto(k, there)
      BY <2>2 DEF Kick, KickAll, KickLooked, KickList, KickChosen, KickSignal, KickItself, KickDone
    <3> QED BY <3>1, <1>0, KickerOn
  <2> QED BY <2>1, <2>2
<1>3. SavedFrom(cast)
  <2>1. CASE KickLook(k)
    <3> DEFINE a == [slot |-> at[k], pid |-> info[at[k]].pid]
    <3>1. at[k] \in Slots /\ info' = info
      BY <1>0, <2>1 DEF KickLook, Slots, NoSlot, tableVars
    <3>2. saved' = saved \/ (Active(at[k]) /\ saved' = [saved EXCEPT ![k] = Append(@, a)])
      BY <2>1 DEF KickLook
    <3>3. CASE saved' = saved
      BY <3>3, NoneSaved
    <3>4. CASE Active(at[k]) /\ saved' = [saved EXCEPT ![k] = Append(@, a)]
      <4>1. at[k] \in Online
        BY <3>1, <3>4 DEF Online
      <4> HIDE DEF a
      <4>2. \A j \in DOMAIN Append(saved[k], a) :
              \/ j \in DOMAIN saved[k] /\ Append(saved[k], a)[j] = saved[k][j]
              \/ Append(saved[k], a)[j] = a
        BY <1>0
      <4>3. saved'[k] = Append(saved[k], a) /\ \A l \in Kickers \ {k} : saved'[l] = saved[l]
        BY <1>0, <3>4
      <4> QED BY <3>1, <4>1, <4>2, <4>3 DEF SavedFrom, a
    <3> QED BY <3>2, <3>3, <3>4
  <2>2. CASE KickChosen(k)
    <3> DEFINE a == [slot |-> at[k], pid |-> info[at[k]].pid]
    <3>1. k \in Choosers /\ at[k] \in Slots /\ info' = info
      BY <2>2 DEF KickChosen, TypeInv, ClientTypes, tableVars
    <3>2. k \in cast
      BY <1>0 DEF SlotInvOf, OnlyCast
    <3>3. saved'[k] = <<a>> /\ \A l \in Kickers \ {k} : saved'[l] = saved[l]
      BY <1>0, <2>2 DEF KickChosen
    <3>4. \A j \in DOMAIN <<a>> : <<a>>[j] = a
      OBVIOUS
    <3> QED BY <3>1, <3>2, <3>3, <3>4 DEF SavedFrom
  <2>3. CASE ~(KickLook(k) \/ KickChosen(k))
    BY <2>3, NoneSaved DEF Kick, KickAll, KickLooked, KickList, KickSignal, KickItself, KickSkip, KickDone
  <2> QED BY <2>1, <2>2, <2>3
<1>4. QueueFrom /\ SweepFrom
  <2>1. CASE KickSignal(k)
    <3> DEFINE a == saved[k][nth[k]]  r == ClrReq(k, a.slot, Target[k], a.pid, nth[k])
    <3>0. pc[k] = "kick" /\ nth[k] <= Len(saved[k])
      BY <2>1 DEF KickSignal
    <3>1. nth[k] \in DOMAIN saved[k] /\ nth[k] \in Nat
      <4>1. nth[k] \in Nat /\ nth[k] >= 1 /\ Len(saved[k]) \in Nat /\ DOMAIN saved[k] = 1 .. Len(saved[k])
        BY <1>0, <3>0 DEF TypeInv, ClientTypes
      <4> QED BY <3>0, <4>1
    <3>2. a \in Saved
      BY <1>0, <3>1
    <3>3. a.slot \in Slots /\ a.pid \in Pids \cup {NoPid} /\ a = [slot |-> a.slot, pid |-> a.pid]
      BY <3>2 DEF Saved
    <3>4. Send(r) /\ hup' = hup \cup ({info[a.slot].pid} \cap Telnet) /\ UNCHANGED <<key, sweep, granted>>
      BY <2>1 DEF KickSignal
    <3> HIDE DEF a
    <3>5. r \in Requests
      BY <1>0, <3>1, <3>3, KickReqType
    <3>6. pc'[k] = "wait_clr"
      BY <1>0, <2>1 DEF KickSignal, Goto
    <3>7. \E j \in DOMAIN saved[k] : saved[k][j] = [slot |-> a.slot, pid |-> a.pid]
      BY <3>1, <3>3 DEF a
    <3>8. FreshRequest(r)
      BY <1>0, <3>4, <3>6, <3>7, Kinds DEF FreshRequest, ClrReq
    <3> QED BY <3>4, <3>5, <3>8, FreshSent
  <2>2. CASE ~KickSignal(k)
    BY <2>2, NothingSent DEF Kick, KickAll, KickLook, KickLooked, KickList, KickChosen, KickItself,
                             KickSkip, KickDone
  <2> QED BY <2>1, <2>2
<1> QED BY <1>1, <1>2, <1>3, <1>4 DEF Step

LEMMA SavedSlots ==
  ASSUME TypeInv, NEW k \in Kickers, NEW j \in DOMAIN saved[k]
  PROVE  saved[k][j].slot \in Slots /\ saved[k][j].pid \in Pids \cup {NoPid}
<1> DEFINE Saved == [slot : Slots, pid : Pids \cup {NoPid}]
<1>1. saved[k] \in Seq(Saved)
  BY DEF TypeInv, ClientTypes
<1> HIDE DEF Saved
<1>2. saved[k][j] \in Saved
  BY <1>1
<1> QED BY <1>2 DEF Saved

-----------------------------------------------------------------------------
(* A web login sets the pid of its slot, which is still its own.             *)
LEMMA SetPidStep ==
  ASSUME TypeInv, NEW cast, SlotInvOf(cast), NEW w \in Clients, SetPid(w)
  PROVE  Step(cast)
<1> DEFINE e == ent[w]
<1>0. /\ w \in Web /\ e \in Slots /\ pc[w] = "set_pid"
      /\ pc \in [Clients -> Places \cup KickPlaces]
      /\ info \in [Slots -> [active : BOOLEAN, user : Users \cup {NoUser}, pid : Pids \cup {0}]]
  BY DEF SetPid, TypeInv, ClientTypes, HoldsSlot, TableTypes, TableTypeOK
<1>1. Has(w, e, NoPid)
  BY <1>0 DEF SlotInvOf, SetsOwnPid
<1>2. /\ info' = [info EXCEPT ![e].pid = WebPid] /\ pc' = [pc EXCEPT ![w] = "in"]
      /\ UNCHANGED <<chain, ring, number, key, queue, sweep, granted, ent, hup, at, saved, nth, meant>>
  BY DEF SetPid, Goto
<1> HIDE DEF e
<1>3. /\ info'[e].pid = WebPid
      /\ \A s \in Slots : info'[s].active = info[s].active /\ info'[s].user = info[s].user
      /\ \A s \in Slots \ {e} : info'[s] = info[s]
  BY <1>0, <1>2
<1>4. Online' = Online
  BY <1>3 DEF Online, Active
<1>5. pc'[w] = "in" /\ \A d \in Clients \ {w} : pc'[d] = pc[d]
  BY <1>0, <1>2
<1>6. Onward
  BY <1>0, <1>2, <1>5, Kinds DEF Onward, WebThrough
<1>7. HasNext(w, e, WebPid)
  BY <1>0, <1>1, <1>2, <1>3 DEF Has, HasNext, Active
<1>8. HoldersFrom
  BY <1>0, <1>2, <1>5, <1>7, Kinds DEF HoldersFrom, e
<1>9. QueueFrom /\ SweepFrom /\ SavedFrom(cast)
  BY <1>2, NothingSent, NoneSaved
<1>10. ChainsPartition'
  BY <1>2, <1>3, <1>4 DEF SlotInvOf, ChainsPartition, Online
<1>11. RingSorted'
  <2>1. Range(ring) = Online /\ Online \subseteq Slots
    BY DEF SlotInvOf, RingSorted, Online
  <2>2. \A i \in DOMAIN ring : ring[i] \in Slots
    BY <2>1 DEF Range
  <2> QED BY <1>2, <1>3, <1>4, <2>2 DEF SlotInvOf, RingSorted
<1>12. StillHas(cast)
  <2>1. \A c, s, p : s \in Slots /\ Has(c, s, p) /\ (c # w \/ s # e) => HasNext(c, s, p)
    BY <1>1, <1>2, <1>3 DEF Has, HasNext, Active
  <2>2. ASSUME NEW v \in Web, pc[v] = "set_pid", pc'[v] = "set_pid" PROVE HasNext(v, ent[v], NoPid)
    BY <2>1, <2>2, <1>0, <1>5 DEF SlotInvOf, SetsOwnPid, TypeInv, ClientTypes, HoldsSlot
  <2>3. ASSUME NEW t \in Telnet, pc[t] = "in", t \notin hup PROVE HasNext(t, ent[t], t)
    BY <2>1, <2>3, <1>0, Kinds DEF SlotInvOf, OwnSlot, TypeInv, ClientTypes, HoldsSlot
  <2>4. ASSUME NEW v \in Web, pc[v] = "in", Alone(v) PROVE HasNext(v, ent[v], WebPid)
    BY <2>1, <2>4, <1>0 DEF SlotInvOf, OwnWebSlot, Alone, TypeInv, ClientTypes, HoldsSlot
  <2>5. sweep # 0 => LET t == Head(queue).from IN
                       pc[t] = "wait_new" /\ t \notin hup => HasNext(t, granted, t)
    BY <2>1, <1>0, Kinds DEF SlotInvOf, GrantKept, TypeInv, UtmpdTypes
  <2>6. \A k \in Kickers : \A j \in DOMAIN saved[k] :
          LET a == saved[k][j] IN
            a.pid \in Telnet => (info'[a.slot].active /\ info'[a.slot].pid = a.pid) \/ Through(a.pid)
    <3> SUFFICES ASSUME NEW k \in Kickers, NEW j \in DOMAIN saved[k], saved[k][j].pid \in Telnet
                 PROVE  LET a == saved[k][j] IN
                          (info'[a.slot].active /\ info'[a.slot].pid = a.pid) \/ Through(a.pid)
      OBVIOUS
    <3> DEFINE a == saved[k][j]
    <3>1. a.slot \in Slots
      BY SavedSlots
    <3>2. (Active(a.slot) /\ info[a.slot].pid = a.pid) \/ Through(a.pid)
      BY DEF SlotInvOf, SavedThere
    <3> HIDE DEF a
    <3>3. a.pid \in Telnet
      BY DEF a
    <3>4. a.slot # e \/ Through(a.pid)
      BY <1>1, <3>2, <3>3, Kinds DEF Has
    <3>5. (info'[a.slot].active /\ info'[a.slot].pid = a.pid) \/ Through(a.pid)
      BY <1>3, <3>1, <3>2, <3>4 DEF Active
    <3> QED BY <3>5 DEF a
  <2>7. FreeSlots'
    <3>1. e \in Online
      BY <1>0, <1>1 DEF Has, Online, e
    <3> QED BY <1>3, <1>4, <3>1 DEF SlotInvOf, FreeSlots
  <2>8. cast \cap (Web \cup Choosers) = {} => \A s \in Online' : info'[s].pid # NoPid
    BY <1>0, Kinds DEF SlotInvOf, OnlyCast
  <2> QED BY <2>2, <2>3, <2>4, <2>5, <2>6, <2>7, <2>8 DEF StillHas
<1> QED BY <1>6, <1>8, <1>9, <1>10, <1>11, <1>12 DEF Step

-----------------------------------------------------------------------------
(* An answer: who waited for a slot and is told one has it.                  *)
LEMMA AnswerMoves ==
  ASSUME TypeInv, queue # <<>>, NEW slot, slot = NoSlot \/ slot \in Slots,
         Answer(Head(queue), slot),
         Head(queue).op = "new" /\ slot # NoSlot /\ pc[Head(queue).from] = "wait_new" =>
           \/ HasNext(Head(queue).from, slot, Pid(Head(queue).from))
           \/ Head(queue).from \in hup
  PROVE  Onward /\ HoldersFrom /\ QueueFrom
<1> DEFINE r == Head(queue)
<1>0. /\ queue \in Seq(Requests) /\ queue # <<>> /\ r \in Requests
      /\ pc \in [Clients -> Places \cup KickPlaces]
      /\ ent \in [Telnet \cup Web -> 0 .. N]
  BY HeadFacts DEF TypeInv, UtmpdTypes, ClientTypes
<1>1. /\ r.from \in Clients /\ r.op \in {"new", "clr"}
      /\ r.op = "new" => r.from \in Telnet \cup Web
  BY <1>0, ReqFacts, LoginReqFacts
<1> HIDE DEF r
<1>2. queue' = Tail(queue) /\ hup' = hup
  BY DEF Answer
<1>3. QueueFrom
  <2>1. \A i \in DOMAIN Tail(queue) : i + 1 \in DOMAIN queue /\ Tail(queue)[i] = queue[i + 1]
    BY <1>0
  <2> QED BY <1>2, <2>1 DEF QueueFrom
<1>4. CASE ~Waits(r)
  <2>1. pc' = pc /\ ent' = ent
    BY <1>4 DEF Answer, r
  <2> QED BY <1>2, <1>3, <2>1 DEF Onward, HoldersFrom
<1>5. CASE Waits(r)
  <2> DEFINE there == IF r.from \in Kickers THEN "kick"
                      ELSE IF r.op = "clr" \/ slot = NoSlot THEN "gone"
                      ELSE IF r.from \in Web THEN "set_pid" ELSE "in"
  <2>1. /\ pc' = [pc EXCEPT ![r.from] = there]
        /\ ent' = (IF r.op = "new" THEN [ent EXCEPT ![r.from] = slot] ELSE ent)
        /\ pc[r.from] = (IF r.op = "new" THEN "wait_new" ELSE "wait_clr")
    BY <1>5 DEF Answer, Waits, r
  <2>2. /\ r.from \in Kickers => there = "kick"
        /\ r.from \notin Kickers => there \in {"gone", "set_pid", "in"}
        /\ there \in {"set_pid", "in"} => r.op = "new" /\ slot # NoSlot
        /\ there = "set_pid" => r.from \in Web
        /\ there = "in" => r.from \in Telnet
    BY <1>1, Kinds
  <2> HIDE DEF there
  <2>3. pc'[r.from] = there /\ \A d \in Clients \ {r.from} : pc'[d] = pc[d]
    BY <1>0, <1>1, <2>1
  <2>4. Onward
    BY <1>1, <1>2, <2>1, <2>2, <2>3, Kinds DEF Onward, WebThrough
  <2>5. ASSUME NEW d \in Telnet \cup Web, pc'[d] \in {"set_pid", "in"}
        PROVE  \/ pc'[d] = pc[d] /\ ent'[d] = ent[d]
               \/ d \in Telnet /\ pc'[d] = "in" /\ HasNext(d, ent'[d], d)
               \/ d \in Telnet /\ d \in hup
               \/ d \in Web /\ HasNext(d, ent'[d], IF pc'[d] = "in" THEN WebPid ELSE NoPid)
    <3>1. CASE d # r.from
      <4>1. pc'[d] = pc[d]
        BY <2>3, <3>1, Kinds
      <4>2. ent'[d] = ent[d]
        BY <1>0, <1>1, <2>1, <3>1
      <4> QED BY <4>1, <4>2
    <3>2. CASE d = r.from
      <4>1. r.op = "new" /\ slot # NoSlot /\ ent'[d] = slot /\ pc'[d] = there
        BY <1>0, <2>1, <2>2, <2>3, <2>5, <3>2
      <4>2. HasNext(d, slot, Pid(d)) \/ d \in hup
        BY <2>1, <3>2, <4>1 DEF r
      <4>3. there = "in" => d \in Telnet /\ Pid(d) = d
        BY <2>2, <3>2 DEF Pid
      <4>4. there = "set_pid" => d \in Web /\ d \notin Telnet /\ Pid(d) = NoPid /\ d \notin hup
        BY <2>2, <3>2, Kinds DEF Pid, TypeInv, ClientTypes
      <4>5. CASE there = "in"
        BY <4>1, <4>2, <4>3, <4>5
      <4>6. CASE there = "set_pid"
        BY <4>1, <4>2, <4>4, <4>6
      <4> QED BY <2>5, <4>1, <4>5, <4>6
    <3> QED BY <3>1, <3>2
  <2>6. HoldersFrom
    BY <2>5 DEF HoldersFrom
  <2> QED BY <1>3, <2>4, <2>6
<1> QED BY <1>4, <1>5

LEMMA PassStep ==
  ASSUME TypeInv, NEW cast, SlotInvOf(cast), Refuse \/ IgnoreClear
  PROVE  Step(cast)
<1>1. /\ queue # <<>> /\ Answer(Head(queue), NoSlot) /\ sweep = 0
      /\ UNCHANGED <<key, sweep, granted>> /\ UNCHANGED tableVars
  BY DEF Refuse, IgnoreClear
<1>2. Onward /\ HoldersFrom /\ QueueFrom
  BY <1>1, AnswerMoves
<1>3. SweepFrom
  BY <1>1 DEF SweepFrom
<1>4. SavedFrom(cast)
  BY <1>1, NoneSaved DEF Answer
<1> QED BY <1>1, <1>2, <1>3, <1>4, TableStays DEF Step

-----------------------------------------------------------------------------
(* A step of utmpd changes one slot: who has it is told, or is through.      *)
LEMMA OthersStay ==
  ASSUME TypeInv, NEW cast, SlotInvOf(cast), NEW e \in Slots,
         \A s \in Slots \ {e} : info'[s] = info[s] /\ key'[s] = key[s],
         \A w \in Web : ~(pc[w] = "set_pid" /\ Has(w, e, NoPid)),
         \A t \in Telnet : ~(pc[t] = "in" /\ t \notin hup /\ Has(t, e, t)),
         \A w \in Web : ~(pc[w] = "in" /\ Alone(w) /\ ent[w] = e /\ Has(w, e, WebPid)),
         sweep # 0 => LET t == Head(queue).from IN
                        ~(pc[t] = "wait_new" /\ t \notin hup /\ Has(t, e, t)),
         Active(e) /\ info[e].pid \in Telnet => Through(info[e].pid),
         FreeSlots',
         cast \cap (Web \cup Choosers) = {} => \A s \in Online' : info'[s].pid # NoPid
  PROVE  StillHas(cast)
<1>0. /\ \A c \in Telnet \cup Web : pc[c] \in HoldsSlot => ent[c] \in Slots
      /\ sweep # 0 => granted \in Slots
  BY DEF TypeInv, ClientTypes, UtmpdTypes
<1>1. \A c, s, p : s \in Slots \ {e} /\ Has(c, s, p) => HasNext(c, s, p)
  BY DEF Has, HasNext, Active
<1>2. ASSUME NEW w \in Web, pc[w] = "set_pid" PROVE HasNext(w, ent[w], NoPid)
  BY <1>0, <1>1, <1>2 DEF SlotInvOf, SetsOwnPid, HoldsSlot
<1>3. ASSUME NEW t \in Telnet, pc[t] = "in", t \notin hup PROVE HasNext(t, ent[t], t)
  BY <1>0, <1>1, <1>3 DEF SlotInvOf, OwnSlot, HoldsSlot
<1>4. ASSUME NEW w \in Web, pc[w] = "in", Alone(w) PROVE HasNext(w, ent[w], WebPid)
  BY <1>0, <1>1, <1>4 DEF SlotInvOf, OwnWebSlot, Alone, HoldsSlot
<1>5. sweep # 0 => LET t == Head(queue).from IN
                     pc[t] = "wait_new" /\ t \notin hup => HasNext(t, granted, t)
  BY <1>0, <1>1 DEF SlotInvOf, GrantKept
<1>6. \A k \in Kickers : \A j \in DOMAIN saved[k] :
        LET a == saved[k][j] IN
          a.pid \in Telnet => (info'[a.slot].active /\ info'[a.slot].pid = a.pid) \/ Through(a.pid)
  <2> SUFFICES ASSUME NEW k \in Kickers, NEW j \in DOMAIN saved[k], saved[k][j].pid \in Telnet
               PROVE  LET a == saved[k][j] IN
                        (info'[a.slot].active /\ info'[a.slot].pid = a.pid) \/ Through(a.pid)
    OBVIOUS
  <2> DEFINE a == saved[k][j]
  <2>1. a.slot \in Slots /\ a.pid \in Telnet
    BY SavedSlots
  <2>2. (Active(a.slot) /\ info[a.slot].pid = a.pid) \/ Through(a.pid)
    BY DEF SlotInvOf, SavedThere
  <2> HIDE DEF a
  <2>3. (info'[a.slot].active /\ info'[a.slot].pid = a.pid) \/ Through(a.pid)
    <3>1. CASE a.slot = e
      BY <2>1, <2>2, <3>1
    <3>2. CASE a.slot # e
      BY <2>1, <2>2, <3>2 DEF Active
    <3> QED BY <3>1, <3>2
  <2> QED BY <2>3 DEF a
<1> QED BY <1>2, <1>3, <1>4, <1>5, <1>6 DEF StillHas

LEMMA GrantStep ==
  ASSUME TypeInv, NEW cast, SlotInvOf(cast), Grant
  PROVE  Step(cast)
<1> DEFINE r == Head(queue)  g == Granted
<1>0. /\ queue # <<>> /\ sweep = 0 /\ r.op = "new" /\ Alloc(r.user, r.pid)
      /\ key' = [key EXCEPT ![g] = r.from]
      /\ \/ Answer(r, g) /\ UNCHANGED <<sweep, granted>>
         \/ /\ r.from \in Telnet /\ sweep' = 1 /\ granted' = g
            /\ UNCHANGED queue /\ UNCHANGED clientVars
  BY DEF Grant
<1>1. /\ r \in LoginReqs /\ r.from \in Telnet \cup Web
      /\ r.user = UserOf[r.from] /\ r.user \in Users
      /\ r.pid = Pid(r.from) /\ r.pid \in Pids \cup {0}
      /\ 1 \in DOMAIN queue /\ r = queue[1]
  <2>1. r \in Requests /\ queue \in Seq(Requests)
    BY <1>0, HeadFacts DEF TypeInv, UtmpdTypes
  <2> QED BY <1>0, <2>1, ReqFacts, LoginReqFacts DEF NoPid
<1>2. r.from \in cast
  BY <1>1 DEF SlotInvOf, OnlyCast
<1>3. TableTypes /\ ChainsPartition /\ RingSorted
  BY DEF TypeInv, SlotInvOf
<1>4. ChainsPartition' /\ RingSorted'
  BY <1>0, <1>1, <1>3, AllocChains, AllocRing
<1>5. g \in Slots \ Online /\ info' = [info EXCEPT ![g] = [active |-> TRUE, user |-> r.user, pid |-> r.pid]]
  BY <1>0, <1>3, GrantedIsFree DEF Alloc
<1>6. /\ info \in [Slots -> [active : BOOLEAN, user : Users \cup {NoUser}, pid : Pids \cup {0}]]
      /\ key \in [Slots -> Telnet \cup Web \cup {NoSlot}]
  BY DEF TypeInv, UtmpdTypes, TableTypes, TableTypeOK
<1> HIDE DEF r, g
<1>7. /\ \A s \in Slots \ {g} : info'[s] = info[s] /\ key'[s] = key[s]
      /\ info'[g] = [active |-> TRUE, user |-> r.user, pid |-> r.pid] /\ key'[g] = r.from
  BY <1>0, <1>5, <1>6
<1>8. ~Active(g)
  BY <1>5 DEF Online
<1>9. HasNext(r.from, g, Pid(r.from))
  BY <1>1, <1>7 DEF HasNext
<1>10. Online' = Online \cup {g}
  BY <1>5, <1>7 DEF Online, Active
<1>11. FreeSlots'
  BY <1>5, <1>7, <1>10 DEF SlotInvOf, FreeSlots
<1>12. cast \cap (Web \cup Choosers) = {} => \A s \in Online' : info'[s].pid # NoPid
  <2> SUFFICES ASSUME cast \cap (Web \cup Choosers) = {}, NEW s \in Online'
               PROVE  info'[s].pid # NoPid
    OBVIOUS
  <2>1. CASE s = g
    <3>1. r.from \in Telnet
      BY <1>1, <1>2
    <3> QED BY <2>1, <3>1, <1>1, <1>7, Kinds DEF Pid
  <2>2. CASE s # g
    BY <2>2, <1>7, <1>10 DEF SlotInvOf, PidsKnown, Online
  <2> QED BY <2>1, <2>2
<1>13. StillHas(cast)
  BY <1>0, <1>5, <1>7, <1>8, <1>11, <1>12, OthersStay DEF Has
<1>14. CASE Answer(r, g) /\ UNCHANGED <<sweep, granted>>
  <2>1. Onward /\ HoldersFrom /\ QueueFrom
    BY <1>0, <1>5, <1>9, <1>14, AnswerMoves DEF r
  <2>2. SavedFrom(cast) /\ SweepFrom
    BY <1>0, <1>14, NoneSaved DEF Answer, SweepFrom
  <2> QED BY <1>4, <1>13, <2>1, <2>2 DEF Step
<1>15. CASE /\ r.from \in Telnet /\ sweep' = 1 /\ granted' = g
            /\ UNCHANGED queue /\ UNCHANGED clientVars
  <2>1. Onward /\ HoldersFrom /\ QueueFrom /\ SavedFrom(cast)
    BY <1>15, NoneSaved DEF clientVars, Onward, HoldersFrom, QueueFrom
  <2>2. SweepFrom
    BY <1>9, <1>15 DEF SweepFrom, Pid, r
  <2> QED BY <1>4, <1>13, <2>1, <2>2 DEF Step
<1> QED BY <1>0, <1>14, <1>15

(* A session that is freed leaves its slot as clear_utmp2 does.              *)
LEMMA Freed ==
  ASSUME TypeInv, NEW cast, SlotInvOf(cast), NEW e \in Online, Free(e),
         key' = [key EXCEPT ![e] = NoSlot]
  PROVE  /\ ChainsPartition' /\ RingSorted' /\ FreeSlots'
         /\ \A s \in Slots \ {e} : info'[s] = info[s] /\ key'[s] = key[s]
         /\ cast \cap (Web \cup Choosers) = {} => \A s \in Online' : info'[s].pid # NoPid
<1>0. e \in Slots /\ TableTypes /\ ChainsPartition /\ RingSorted
      /\ info \in [Slots -> [active : BOOLEAN, user : Users \cup {NoUser}, pid : Pids \cup {0}]]
      /\ key \in [Slots -> Telnet \cup Web \cup {NoSlot}]
  BY DEF TypeInv, SlotInvOf, Online, UtmpdTypes, TableTypes, TableTypeOK
<1>1. Online' = Online \ {e}
  BY <1>0, FreeTypes
<1>2. PICK u \in Garbage : info' = [info EXCEPT ![e] = [active |-> FALSE, user |-> u, pid |-> 0]]
  BY <1>0, FreeTypes
<1>3. /\ \A s \in Slots \ {e} : info'[s] = info[s] /\ key'[s] = key[s]
      /\ info'[e].user \in Garbage /\ info'[e].pid = NoPid
  BY <1>0, <1>2 DEF NoPid
<1>4. ChainsPartition' /\ RingSorted'
  BY <1>0, FreeChains, FreeRing
<1>5. FreeSlots'
  BY <1>1, <1>3 DEF SlotInvOf, FreeSlots
<1>6. cast \cap (Web \cup Choosers) = {} => \A s \in Online' : info'[s].pid # NoPid
  BY <1>1, <1>3 DEF SlotInvOf, PidsKnown, Online
<1> QED BY <1>3, <1>4, <1>5, <1>6

LEMMA SweepMoves ==
  ASSUME TypeInv, NEW cast, SlotInvOf(cast), sweep # 0, SweepOn, StillHas(cast)
  PROVE  Onward /\ HoldersFrom /\ QueueFrom /\ SavedFrom(cast) /\ SweepFrom
<1>0. /\ queue # <<>> /\ granted \in Slots /\ sweep \in 0 .. N
      /\ Head(queue) \in LoginReqs /\ Head(queue).from \in Telnet
  BY DEF TypeInv, UtmpdTypes
<1>1. CASE sweep < N
  <2>1. sweep' = sweep + 1 /\ UNCHANGED <<queue, granted>> /\ UNCHANGED clientVars
    BY <1>1 DEF SweepOn
  <2> QED BY <2>1, NoneSaved DEF clientVars, Onward, HoldersFrom, QueueFrom, SweepFrom
<1>2. CASE ~(sweep < N)
  <2>1. sweep' = 0 /\ granted' = NoSlot /\ Answer(Head(queue), granted)
    BY <1>2 DEF SweepOn
  <2>2. pc[Head(queue).from] = "wait_new" =>
          \/ HasNext(Head(queue).from, granted, Pid(Head(queue).from))
          \/ Head(queue).from \in hup
    BY <1>0 DEF StillHas, Pid
  <2>3. Onward /\ HoldersFrom /\ QueueFrom
    BY <1>0, <2>1, <2>2, AnswerMoves
  <2>4. SavedFrom(cast) /\ SweepFrom
    BY <2>1, NoneSaved DEF Answer, SweepFrom
  <2> QED BY <2>3, <2>4
<1> QED BY <1>1, <1>2

LEMMA SweepStep ==
  ASSUME TypeInv, NEW cast, SlotInvOf(cast), SweepClears \/ SweepPasses
  PROVE  Step(cast)
<1>1. CASE SweepPasses
  <2>1. sweep # 0 /\ SweepOn /\ UNCHANGED key /\ UNCHANGED tableVars
    BY <1>1 DEF SweepPasses
  <2>2. StillHas(cast) /\ ChainsPartition' /\ RingSorted'
    BY <2>1, TableStays
  <2> QED BY <2>1, <2>2, SweepMoves DEF Step
<1>2. CASE SweepClears
  <2> DEFINE e == sweep
  <2>1. /\ sweep # 0 /\ SweepTakes(e) /\ Free(e) /\ SweepOn
        /\ key' = [key EXCEPT ![e] = NoSlot]
    BY <1>2 DEF SweepClears
  <2>2. e \in Online
    BY <2>1, NAssumption DEF TypeInv, UtmpdTypes, SweepTakes, Online, Slots
  <2> HIDE DEF e
  <2>3. /\ ChainsPartition' /\ RingSorted' /\ FreeSlots'
        /\ \A s \in Slots \ {e} : info'[s] = info[s] /\ key'[s] = key[s]
        /\ cast \cap (Web \cup Choosers) = {} => \A s \in Online' : info'[s].pid # NoPid
    BY <2>1, <2>2, Freed
  <2>4. \/ info[e].pid = WebPid /\ Idle(e)
        \/ info[e].pid \in Telnet /\ pc[info[e].pid] = "gone"
    BY <2>1 DEF SweepTakes, Gone
  <2>5. e \in Slots
    BY <2>2 DEF Online
  <2>6. \A w \in Web : ~(pc[w] = "set_pid" /\ Has(w, e, NoPid))
    BY <2>4, Kinds DEF Has
  <2>7. \A t \in Telnet : ~(pc[t] = "in" /\ t \notin hup /\ Has(t, e, t))
    BY <2>4, Kinds DEF Has
  <2>8. \A w \in Web : ~(pc[w] = "in" /\ ent[w] = e /\ Has(w, e, WebPid))
    BY <2>4, Kinds DEF Has, Idle
  <2>9. \A t \in Telnet : ~(pc[t] = "wait_new" /\ t \notin hup /\ Has(t, e, t))
    BY <2>4, Kinds DEF Has
  <2>10. Active(e) /\ info[e].pid \in Telnet => Through(info[e].pid)
    BY <2>4, Kinds DEF Through
  <2>11. StillHas(cast)
    BY <2>3, <2>5, <2>6, <2>7, <2>8, <2>9, <2>10, OthersStay DEF TypeInv, UtmpdTypes
  <2> QED BY <2>1, <2>3, <2>11, SweepMoves DEF Step
<1> QED BY <1>1, <1>2

(* clear_utmp3 lets a request through only for the session that is meant.   *)
LEMMA ClearStep ==
  ASSUME TypeInv, NEW cast, SlotInvOf(cast), Harmless(cast), ServeClear
  PROVE  Step(cast)
<1> DEFINE r == Head(queue)  e == r.slot
<1>0. /\ queue # <<>> /\ sweep = 0 /\ r.op = "clr" /\ MayClear(r) /\ Free(e)
      /\ key' = [key EXCEPT ![e] = NoSlot] /\ Answer(r, NoSlot)
      /\ UNCHANGED <<sweep, granted>>
  BY DEF ServeClear
<1>1. /\ r \in Requests /\ queue \in Seq(Requests) /\ 1 \in DOMAIN queue /\ r = queue[1]
      /\ info \in [Slots -> [active : BOOLEAN, user : Users \cup {NoUser}, pid : Pids \cup {0}]]
  BY <1>0, HeadFacts DEF TypeInv, UtmpdTypes, TableTypes, TableTypeOK
<1>2. /\ r.from \in Clients /\ r.user \in Users /\ e \in Slots
      /\ r \in LogoutReqs \/ r \in KickReqs
  BY <1>0, <1>1, ReqFacts
<1>3. /\ r.from \in cast
      /\ r.pid \in Telnet => Through(r.pid)
      /\ r.from \in Web => pc[r.from] \in WebThrough
  BY <1>0, <1>1 DEF SlotInvOf, OnlyCast, RequestsMeant
<1>4. cast \cap (Web \cup Choosers) = {} => r.pid # NoPid
  BY <1>0, <1>1 DEF SlotInvOf, PidsKnown
<1>5. /\ r \in LogoutReqs => /\ r.from \in Telnet \cup Web /\ r.user = UserOf[r.from]
                             /\ r.pid = (IF r.from \in Telnet THEN r.from ELSE WebPid)
      /\ r \in KickReqs => r.from \in Kickers /\ r.user = Target[r.from]
  BY LogoutReqFacts, KickReqFacts
<1> HIDE DEF r, e
<1>6. info[e].user = r.user /\ info[e].pid = r.pid
  BY <1>0, <1>2, UsersAssumption DEF MayClear, e, NoUser
<1>7. e \in Online
  <2> SUFFICES ASSUME e \notin Online PROVE FALSE
    OBVIOUS
  <2>1. r.pid = NoPid /\ r.user \in Garbage
    BY <1>2, <1>6, UsersAssumption DEF SlotInvOf, FreeSlots
  <2>2. r.from \in Kickers /\ Target[r.from] \in Garbage
    BY <2>1, <1>2, <1>5, Kinds
  <2> QED BY <2>1, <2>2, <1>3, <1>4 DEF Harmless
<1>8. /\ ChainsPartition' /\ RingSorted' /\ FreeSlots'
      /\ \A s \in Slots \ {e} : info'[s] = info[s] /\ key'[s] = key[s]
      /\ cast \cap (Web \cup Choosers) = {} => \A s \in Online' : info'[s].pid # NoPid
  BY <1>0, <1>7, Freed
<1>9. ASSUME NEW w \in Web, pc[w] # "gone", UserOf[w] = r.user PROVE r \notin KickReqs
  <2>1. w \in cast
    BY <1>9, Kinds DEF SlotInvOf, OnlyCast
  <2> QED BY <2>1, <1>3, <1>5, <1>9 DEF Harmless
<1>10. \A w \in Web : ~(pc[w] = "set_pid" /\ Has(w, e, NoPid))
  BY <1>2, <1>5, <1>6, <1>9, Kinds DEF Has
<1>11. \A t \in Telnet : ~(pc[t] = "in" /\ t \notin hup /\ Has(t, e, t))
  BY <1>3, <1>6 DEF Has, Through
<1>12. \A w \in Web : ~(pc[w] = "in" /\ Alone(w) /\ Has(w, e, WebPid))
  <2> SUFFICES ASSUME NEW w \in Web, pc[w] = "in", Alone(w), Has(w, e, WebPid) PROVE FALSE
    OBVIOUS
  <2>1. r.pid = WebPid /\ r.user = UserOf[w] /\ r \in LogoutReqs
    BY <1>2, <1>6, <1>9 DEF Has
  <2>2. r.from \in Web /\ UserOf[r.from] = UserOf[w] /\ pc[r.from] \in WebThrough
    BY <2>1, <1>3, <1>5, Kinds
  <2> QED BY <2>2 DEF Alone, WebThrough
<1>13. Active(e) /\ info[e].pid \in Telnet => Through(info[e].pid)
  BY <1>3, <1>6
<1>14. StillHas(cast)
  BY <1>0, <1>2, <1>8, <1>10, <1>11, <1>12, <1>13, OthersStay
<1>15. Onward /\ HoldersFrom /\ QueueFrom
  BY <1>0, AnswerMoves DEF r
<1>16. SavedFrom(cast) /\ SweepFrom
  BY <1>0, NoneSaved DEF Answer, SweepFrom
<1> QED BY <1>8, <1>14, <1>15, <1>16 DEF Step

-----------------------------------------------------------------------------
LEMMA SlotInvInit == Init => SlotInv
<1> SUFFICES ASSUME Init PROVE SlotInv
  OBVIOUS
<1>1. PICK cast \in Casts : pc = [c \in Clients |-> IF c \in cast THEN "out" ELSE "gone"]
  BY DEF Init
<1>2. /\ \A c \in Clients : pc[c] = (IF c \in cast THEN "out" ELSE "gone")
      /\ \A c \in Clients : pc[c] \in {"out", "gone"}
      /\ queue = <<>> /\ sweep = 0 /\ saved = [k \in Kickers |-> <<>>]
      /\ info = [s \in Slots |-> [active |-> FALSE, user |-> NoUser, pid |-> 0]]
  BY <1>1 DEF Init, TableInit
<1>3. DOMAIN queue = {} /\ \A k \in Kickers : DOMAIN saved[k] = {}
  BY <1>2
<1>4. Online = {} /\ FreeSlots
  BY <1>2 DEF Online, Active, FreeSlots, NoPid
<1>5. ChainsPartition /\ RingSorted
  BY TableInvInit DEF Init, TableInv
<1>6. OnlyCast(cast) /\ PidsKnown(cast)
  BY <1>2, <1>3, <1>4 DEF OnlyCast, PidsKnown
<1>7. SetsOwnPid /\ GrantKept /\ RequestsMeant /\ SavedThere
  BY <1>2, <1>3, Kinds DEF SetsOwnPid, GrantKept, RequestsMeant, SavedThere
<1>8. OwnSlot /\ OwnWebSlot
  BY <1>2, Kinds DEF OwnSlot, OwnWebSlot
<1> QED BY <1>4, <1>5, <1>6, <1>7, <1>8 DEF SlotInvOf, SlotInv

LEMMA SlotInvStep ==
  ASSUME \A cast \in Casts : Harmless(cast)
  PROVE  TypeInv /\ SlotInv /\ [Next]_vars => SlotInv'
<1> SUFFICES ASSUME TypeInv, SlotInv, [Next]_vars PROVE SlotInv'
  OBVIOUS
<1>1. PICK cast \in Casts : SlotInvOf(cast)
  BY DEF SlotInv
<1>2. Harmless(cast)
  BY <1>1
<1>3. TypeInv'
  BY TypeInvStep
<1>4. Step(cast)
  <2>1. ASSUME NEW c \in Clients,
               Login(c) \/ Logout(c) \/ TimeOut(c) \/ Die(c) \/ Kick(c)
        PROVE  Step(cast)
    BY <1>1, <2>1, EnterStep, SetPidStep, LogoutStep, EndStep, KickStep DEF Login
  <2>2. ASSUME Utmpd PROVE Step(cast)
    BY <1>1, <1>2, <2>2, PassStep, GrantStep, SweepStep, ClearStep DEF Utmpd
  <2>3. ASSUME UNCHANGED vars PROVE Step(cast)
    <3>1. Onward /\ HoldersFrom
      BY <2>3 DEF vars, Onward, HoldersFrom
    <3>2. QueueFrom /\ SweepFrom /\ SavedFrom(cast)
      BY <2>3, NothingSent, NoneSaved DEF vars
    <3>3. StillHas(cast) /\ ChainsPartition' /\ RingSorted'
      BY <1>1, <2>3, TableStays DEF vars, tableVars
    <3> QED BY <3>1, <3>2, <3>3 DEF Step
  <2> QED BY <2>1, <2>2, <2>3 DEF Next
<1>5. SlotInvOf(cast)'
  BY <1>1, <1>3, <1>4, Keeps DEF Step
<1> QED BY <1>1, <1>5 DEF SlotInv

(* The lists of utmphead stay consistent whoever comes, goes, dies or is     *)
(* kicked (utmp.c:212-334, 606-701), and a session has its slot to itself    *)
(* until its user leaves or is kicked: clear_utmp3's comparison of user and  *)
(* pid is enough for telnet sessions, and for a web session as long as the   *)
(* others of its user are there.  Casts that Harmless leaves out break it.   *)
THEOREM SlotsKept ==
  ASSUME \A cast \in Casts : Harmless(cast)
  PROVE  Spec => [](OwnSlot /\ OwnWebSlot /\ ChainsPartition /\ RingSorted)
<1>1. Init => TypeInv /\ SlotInv
  BY TypeInvInit, SlotInvInit
<1>2. TypeInv /\ SlotInv /\ [Next]_vars => TypeInv' /\ SlotInv'
  BY TypeInvStep, SlotInvStep
<1>3. SlotInv => OwnSlot /\ OwnWebSlot /\ ChainsPartition /\ RingSorted
  BY DEF SlotInv, SlotInvOf
<1> QED BY <1>1, <1>2, <1>3, PTL DEF Spec

=============================================================================
