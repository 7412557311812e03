-------------------------------- MODULE Brc --------------------------------
(***************************************************************************)
(* What one user has read: the rows of his file .boardrc.gz and the file   *)
(* "entry" in tmpfs that all his sessions map and share (libBBS/boards.c,  *)
(* libBBS/ucache.c).  A session loads the row of a board into a slot of    *)
(* "entry", marks articles there, and writes the changed slots back when   *)
(* no slot is free or when it logs out; the last one out removes "entry".  *)
(* Nothing here takes a lock, but the counter of logins while it changes.  *)
(***************************************************************************)
EXTENDS BrcList, Integers, Sequences, FiniteSetsExt

CONSTANTS
  Telnet, Web,  \* the user's sessions; those of Web map "entry" for one request
  Boards,       \* bids
  CacheNum,     \* BRC_CACHE_NUM
  OldPosts,     \* how many articles each board has at the start
  OldNowid,     \* nowid of each board at the start
  MaxId,        \* bound on nowid of each board
  Mixes,        \* what each session does, a set of functions on Sessions
  Mortal,       \* sessions that die or are forgotten by their browser
  Full,         \* whether the disk may be full
  Windows       \* which windows the properties make an exception of

Sessions   == Telnet \cup Web
AllWindows == {"insert", "evict", "flag", "update", "disk", "zero", "unlink",
                "purged", "numbered", "stale"}
Commands   == [op : {"look", "list", "read", "to", "clear"}, b : Boards, id : Nat]
Slots      == 1 .. CacheNum
NoBoard    == 0
NoFile     == -9                        \* of the counter: it is not there
NoRows     == <<>>                      \* of the temporary file: it is not there
Rows       == [Boards -> Lists]
Entry      == [bid : Boards \cup {NoBoard}, list : Lists, changed : BOOLEAN]
ZeroEntry  == [i \in Slots |-> [bid |-> NoBoard, list |-> NoMarks, changed |-> FALSE]]

ASSUME SessionsAssumption == Telnet \cap Web = {} /\ Mortal \subseteq Sessions
ASSUME BoardsAssumption   == Boards \subseteq Nat \ {NoBoard} /\ CacheNum \in Nat \ {0}
ASSUME PostsAssumption    == OldPosts \in [Boards -> Nat] /\ OldNowid \in [Boards -> Nat] /\ MaxId \in [Boards -> Nat]
ASSUME OlderAssumption    == \A b \in Boards : OldPosts[b] <= OldNowid[b]
ASSUME MixesAssumption    == Mixes \subseteq [Sessions -> SUBSET Commands]
ASSUME WindowsAssumption  == Windows \subseteq AllWindows /\ Full \in BOOLEAN

VARIABLES
  nowid,      \* bstatus.nowid of each board
  coming,     \* the boards where an article has its id and is not in .DIR yet
  posts,      \* the ids in .DIR of each board
  row,        \* .boardrc.gz
  tmp,        \* .boardrc.gz.tmp
  maps,       \* the files "entry" there have been
  entry,      \* the one that has the name, or 0
  count,      \* the file "logincount"
  todo,       \* the commands each session still has to give
  pc,         \* where each session is
  loc,        \* its local variables
  seen,       \* history: what the user has read, or marked as read
  harmed      \* history: the boards that met one of Windows

files    == <<row, tmp>>
articles == <<nowid, coming, posts>>
vars     == <<articles, files, maps, entry, count, todo, pc, loc, seen, harmed>>

(* map: the file it has mapped (brc_cache_entry); cur: brc_currcache, 0    *)
(* for none; board: the board it is in; cmd: its command; slot, img: the   *)
(* slot it fills and the row for it; base, data: what brc_update has read  *)
(* and what it will write; k: the slot it is at; then: where it goes on;   *)
(* old: the list it has looked at before it writes; now, last: nowid and   *)
(* lastpost when they were read; fresh: it has created "logincount";       *)
(* purged: it is dead.                                                     *)
Logout == [op |-> "logout", b |-> NoBoard, id |-> 0]
Start  == [map |-> 0, cur |-> 0, board |-> NoBoard, cmd |-> Logout, slot |-> 0, img |-> NoMarks,
           base |-> NoRows, data |-> NoRows, k |-> 0, then |-> "idle", old |-> NoMarks, now |-> 0,
           last |-> 0, fresh |-> FALSE, purged |-> FALSE]

Goto(s, there) == pc' = [pc EXCEPT ![s] = there]
Harm(w, bs)    == {b \in bs : b # NoBoard /\ w \in Windows}
Cache(s)       == maps[loc[s].map]
Last(b)        == Max({0} \cup posts[b])
Bids(e)        == {e[i].bid : i \in Slots}
Changed(e)     == {i \in Slots : e[i].changed}
SetSlot(m, i, e) == maps' = [maps EXCEPT ![m][i] = e]

Init ==
  /\ nowid = OldNowid /\ coming = {} /\ posts = [b \in Boards |-> 1 .. OldPosts[b]]
  /\ row = [b \in Boards |-> NoMarks] /\ tmp = NoRows
  /\ maps = <<>> /\ entry = 0 /\ count = NoFile
  /\ todo \in Mixes
  /\ pc = [s \in Sessions |-> "off"] /\ loc = [s \in Sessions |-> Start]
  /\ seen = [b \in Boards |-> {}] /\ harmed = {}

-----------------------------------------------------------------------------
(* Mutated forms of definitions below. *)
AllChanged_Never(e) == FALSE            \* changed slots are not written back

-----------------------------------------------------------------------------
(* Somebody posts: get_nextid, then the entry is appended to .DIR.         *)
Number(b) ==
  /\ b \notin coming /\ nowid[b] < MaxId[b]
  /\ nowid' = [nowid EXCEPT ![b] = @ + 1] /\ coming' = coming \cup {b}
  /\ UNCHANGED <<posts, files, maps, entry, count, todo, pc, loc, seen, harmed>>
Appear(b) ==
  /\ b \in coming
  /\ coming' = coming \ {b} /\ posts' = [posts EXCEPT ![b] = @ \cup {nowid[b]}]
  /\ UNCHANGED <<nowid, files, maps, entry, count, todo, pc, loc, seen, harmed>>

-----------------------------------------------------------------------------
(* init_cachedata: the counter is opened, or created if it is not there,   *)
(* then changed under its lock.                                            *)
Login(s) ==
  /\ pc[s] = "off" /\ todo[s] # {}
  /\ loc' = [loc EXCEPT ![s].fresh = count = NoFile]
  /\ count' = IF count = NoFile THEN 0 ELSE count
  /\ Goto(s, "counted")
  /\ UNCHANGED <<articles, files, maps, entry, todo, seen, harmed>>
CountIn(s) ==
  /\ pc[s] = "counted"
  /\ count' = IF count = NoFile THEN NoFile ELSE IF loc[s].fresh THEN 1 ELSE count + 1
  /\ Goto(s, "idle")
  /\ UNCHANGED <<articles, files, maps, entry, todo, loc, seen, harmed>>

(* clean_cachedata: the counter goes down; whoever gets it to 0 removes    *)
(* "entry" after the unlock.                                               *)
Leave(s) ==
  /\ pc[s] = "leave"
  /\ count' = IF count = NoFile THEN count ELSE count - 1
  /\ Goto(s, IF count \in {NoFile, 1} THEN "unlink" ELSE "over")
  /\ loc' = [loc EXCEPT ![s] = [Start EXCEPT !.purged = loc[s].purged]]
  /\ UNCHANGED <<articles, files, maps, entry, todo, seen, harmed>>
Working(s)  == pc[s] \notin {"off", "counted", "leave", "unlink", "over"}
Unsaved(os) == IF entry = 0 \/ os = {} THEN {} ELSE {maps[entry][i].bid : i \in Changed(maps[entry])}
Unlink(s) ==
  /\ pc[s] = "unlink"
  /\ count' = NoFile /\ entry' = 0
  /\ harmed' = harmed
       \cup Harm("purged", Unsaved({o \in Sessions : loc[o].purged}))
       \cup Harm("unlink", Unsaved({o \in Sessions : Working(o)}))
       \cup (IF count > 0 \/ \E o \in Sessions : loc[o].map # 0 /\ loc[o].map = entry
             THEN Harm("unlink", Boards) ELSE {})
  /\ Goto(s, "over")
  /\ UNCHANGED <<articles, files, maps, todo, loc, seen>>

(* A telnet process is killed, or utmpd finds a web session idle for too   *)
(* long: the slot in utmp is cleared without brc_update.                   *)
Halfway(s) ==
  CASE pc[s] = "set"  -> {loc[s].cmd.b}
    [] pc[s] = "bid"  -> {loc[s].cmd.b, Cache(s)[loc[s].slot].bid}
    [] pc[s] \in {"u_copy", "u_flag", "u_write", "u_move"} ->
         {b \in Boards : loc[s].data[b] # loc[s].base[b]}
    [] OTHER -> {}
Purge(s) ==
  /\ s \in Mortal
  /\ IF s \in Telnet THEN Working(s) ELSE pc[s] = "idle"
  /\ harmed' = harmed \cup Harm("purged", Halfway(s))
  /\ loc' = [loc EXCEPT ![s] = [Start EXCEPT !.purged = TRUE]]
  /\ Goto(s, "leave")
  /\ UNCHANGED <<articles, files, maps, entry, count, todo, seen>>

-----------------------------------------------------------------------------
(* A command.  Telnet enters the board unless it is there; every request   *)
(* of the web enters it.                                                   *)
Command(s, c) ==
  /\ pc[s] = "idle" /\ c \in todo[s]
  /\ c.op \in {"read", "to"} => c.id \in posts[c.b]
  /\ todo' = [todo EXCEPT ![s] = @ \ {c}]
  /\ IF loc[s].board = c.b
     THEN loc' = [loc EXCEPT ![s].cmd = c] /\ Goto(s, "op")
     ELSE /\ loc' = [loc EXCEPT ![s].cmd = c, ![s].cur = 0, ![s].board = NoBoard]
          /\ Goto(s, IF loc[s].map = 0 THEN "stat" ELSE "lookup")
  /\ UNCHANGED <<articles, files, maps, entry, count, seen, harmed>>

(* u_exit, bbs_wwwlogout: brc_update, for the web after init_brc_cache.    *)
LogoutStart(s) ==
  /\ pc[s] = "idle" /\ todo[s] = {}
  /\ loc' = [loc EXCEPT ![s].cmd = Logout, ![s].then = "leave"]
  /\ Goto(s, IF loc[s].map # 0 THEN "update" ELSE IF s \in Web THEN "stat" ELSE "leave")
  /\ UNCHANGED <<articles, files, maps, entry, count, todo, seen, harmed>>

(* The end of a command; a request of the web unmaps "entry".  After the   *)
(* list of boards the user enters his board anew.                          *)
Ended(s) ==
  LET l == loc[s] IN
  IF s \in Web THEN Start
  ELSE [Start EXCEPT !.map = l.map, !.cur = l.cur, !.board = IF l.cmd.op = "list" THEN NoBoard ELSE l.cmd.b]

(* init_brc_cache: "entry" is made and filled with zeros if it is not      *)
(* there, then mapped.                                                     *)
Mapped(s, m) ==
  /\ loc' = [loc EXCEPT ![s].map = m, ![s].cur = 0]
  /\ Goto(s, IF loc[s].cmd = Logout THEN "update" ELSE "lookup")
Stat(s) ==
  /\ pc[s] = "stat"
  /\ IF entry = 0 THEN Goto(s, "zero") /\ UNCHANGED loc ELSE Mapped(s, entry)
  /\ UNCHANGED <<articles, files, maps, entry, count, todo, seen, harmed>>
Zero(s) ==
  /\ pc[s] = "zero"
  /\ IF entry = 0
     THEN /\ maps' = Append(maps, ZeroEntry) /\ entry' = Len(maps) + 1
          /\ Mapped(s, Len(maps) + 1) /\ UNCHANGED harmed
     ELSE /\ maps' = [maps EXCEPT ![entry] = ZeroEntry] /\ UNCHANGED entry
          /\ Mapped(s, entry)
          /\ harmed' = harmed \cup Harm("zero", Bids(maps[entry]) \cup {loc[o].cmd.b : o \in Sessions})
  /\ UNCHANGED <<articles, files, count, todo, seen>>

-----------------------------------------------------------------------------
(* brc_initial: the slot that has the board, or the row is read and a slot *)
(* taken: a free one, or else the last unchanged one, or else the first,   *)
(* after brc_update.                                                       *)
Free(e)       == {i \in Slots : e[i].bid = NoBoard}
Victim(e) ==
  IF Free(e) # {} THEN Min(Free(e)) ELSE IF Changed(e) # Slots THEN Max(Slots \ Changed(e)) ELSE 1
AllChanged(e) == Free(e) = {} /\ Changed(e) = Slots
Filling(m)    == {loc[o].slot : o \in {x \in Sessions : pc[x] = "bid" /\ loc[x].map = m}}
Lookup(s) ==
  LET e == Cache(s)  b == loc[s].cmd.b  has == {i \in Slots : e[i].bid = b} IN
  /\ pc[s] = "lookup"
  /\ IF has # {}
     THEN /\ loc' = [loc EXCEPT ![s].cur = Min(has), ![s].board = b]
          /\ Goto(s, "op")
          /\ harmed' = harmed \cup (IF Min(has) \in Filling(loc[s].map) THEN Harm("evict", {b}) ELSE {})
     ELSE /\ loc' = [loc EXCEPT ![s].img = row[b], ![s].slot = Victim(e), ![s].then = "fill"]
          /\ Goto(s, IF AllChanged(e) THEN "update" ELSE "fill")
          /\ UNCHANGED harmed
  /\ UNCHANGED <<articles, files, maps, entry, count, todo, seen>>

(* Other sessions that use the slot s fills, or fill it too.               *)
Users(s) ==
  {o \in Sessions \ {s} : /\ loc[o].map = loc[s].map
                          /\ \/ loc[o].cur = loc[s].slot
                             \/ pc[o] \in {"update", "u_copy", "u_flag", "u_write", "u_move", "fill", "bid"}
                                  /\ loc[o].slot = loc[s].slot}
Disturbed(s) ==
  IF Users(s) = {} THEN {}
  ELSE {loc[s].cmd.b, Cache(s)[loc[s].slot].bid} \cup {loc[o].cmd.b : o \in Users(s)}
         \cup {loc[o].board : o \in Users(s)}

(* Another session is in brc_update.                                       *)
Updating(s) == \E o \in Sessions \ {s} : loc[o].data # NoRows

(* The slots that sessions in brc_update are about to copy.                *)
Copying(m) == {loc[o].k : o \in {x \in Sessions : pc[x] = "u_copy" /\ loc[x].map = m}}

(* The list of the slot is replaced by the row, then changed and bid.      *)
Fill(s) ==
  LET i == loc[s].slot  e == Cache(s)[i] IN
  /\ pc[s] = "fill"
  /\ SetSlot(loc[s].map, i, [e EXCEPT !.list = loc[s].img])
  /\ harmed' = harmed \cup Harm("evict", Disturbed(s))
       \cup (IF i \in Copying(loc[s].map) \/ e.bid = loc[s].cmd.b THEN Harm("evict", {e.bid}) ELSE {})
       \cup (IF Updating(s) /\ e.bid # NoBoard /\ e.list # row[e.bid] THEN Harm("update", {e.bid}) ELSE {})
  /\ Goto(s, "bid")
  /\ UNCHANGED <<articles, files, entry, count, todo, loc, seen>>
Bid(s) ==
  LET i == loc[s].slot  e == Cache(s)[i]  b == loc[s].cmd.b IN
  /\ pc[s] = "bid"
  /\ SetSlot(loc[s].map, i, [bid |-> b, list |-> e.list, changed |-> FALSE])
  /\ harmed' = harmed \cup Harm("evict", Disturbed(s))
       \cup (IF \E j \in Slots \ {i} : Cache(s)[j].bid = b THEN Harm("evict", {b}) ELSE {})
       \cup (IF e.list # loc[s].img THEN Harm("evict", {b, e.bid}) ELSE {})
       \cup (IF row[b] # loc[s].img THEN Harm("update", {b}) ELSE {})
  /\ loc' = [loc EXCEPT ![s].cur = i, ![s].board = b, ![s].slot = 0, ![s].img = NoMarks, ![s].then = "idle"]
  /\ Goto(s, "op")
  /\ UNCHANGED <<articles, files, entry, count, todo, seen>>

-----------------------------------------------------------------------------
(* brc_update: the whole file is read, the changed slots are copied over   *)
(* it one by one and their flags cleared, the result is written to the     *)
(* temporary file and that is moved to the file.                           *)
Updated(s) ==
  /\ loc' = [loc EXCEPT ![s].base = NoRows, ![s].data = NoRows, ![s].k = 0]
  /\ Goto(s, loc[s].then)
NextChanged(s, k) == Min({i \in Changed(Cache(s)) : i > k} \cup {CacheNum + 1})
ToNext(s, k, data) ==
  LET n == NextChanged(s, k) IN
  /\ loc' = [loc EXCEPT ![s].k = n, ![s].base = IF k = 0 THEN row ELSE @, ![s].data = data]
  /\ Goto(s, IF n > CacheNum THEN "u_write" ELSE "u_copy")
URead(s) ==
  /\ pc[s] = "update"
  /\ IF Changed(Cache(s)) = {} THEN Updated(s) ELSE ToNext(s, 0, row)
  /\ UNCHANGED <<articles, files, maps, entry, count, todo, seen, harmed>>
UCopy(s) ==
  LET e == Cache(s)[loc[s].k] IN
  /\ pc[s] = "u_copy"
  /\ loc' = [loc EXCEPT ![s].data = [b \in Boards |-> IF b = e.bid THEN e.list ELSE @[b]]]
  /\ Goto(s, "u_flag")
  /\ UNCHANGED <<articles, files, maps, entry, count, todo, seen, harmed>>
UFlag(s) ==
  LET e == Cache(s)[loc[s].k] IN
  /\ pc[s] = "u_flag"
  /\ SetSlot(loc[s].map, loc[s].k, [e EXCEPT !.changed = FALSE])
  /\ harmed' = harmed \cup (IF e.bid # NoBoard /\ loc[s].data[e.bid] # e.list THEN Harm("flag", {e.bid}) ELSE {})
  /\ ToNext(s, loc[s].k, loc[s].data)
  /\ UNCHANGED <<articles, files, entry, count, todo, seen>>
UWrite(s) ==
  /\ pc[s] = "u_write"
  /\ \/ /\ tmp' = loc[s].data
        /\ Goto(s, "u_move") /\ UNCHANGED <<loc, harmed>>
     \/ /\ Full /\ tmp' = NoRows
        /\ harmed' = harmed \cup Harm("disk", {b \in Boards : loc[s].data[b] # row[b]})
        /\ Updated(s)
  /\ UNCHANGED <<articles, row, maps, entry, count, todo, seen>>
UMove(s) ==
  /\ pc[s] = "u_move"
  /\ row' = (IF tmp = NoRows THEN row ELSE tmp) /\ tmp' = NoRows
  /\ harmed' = harmed \cup
       Harm("update", {b \in Boards : loc[s].base[b] # row[b] \/ loc[s].data[b] # row'[b]})
  /\ Updated(s)
  /\ UNCHANGED <<articles, maps, entry, count, todo, seen>>

-----------------------------------------------------------------------------
(* What the command does to the list of the board it has entered.          *)
Valid(s) == loc[s].cur # 0 /\ Cache(s)[loc[s].cur].bid = loc[s].cmd.b
Done(s)  == loc' = [loc EXCEPT ![s] = Ended(s)] /\ Goto(s, "idle")
SetList(s, l) ==
  SetSlot(loc[s].map, loc[s].cur, [Cache(s)[loc[s].cur] EXCEPT !.list = l, !.changed = TRUE])

(* The slot it marks is one that another session has chosen to fill, and   *)
(* will not copy any more.                                                 *)
Chose(o) ==
  \/ pc[o] = "fill"
  \/ loc[o].then = "fill" /\ (pc[o] \in {"u_write", "u_move"} \/ (pc[o] \in {"u_copy", "u_flag"} /\ loc[o].slot < loc[o].k))
Late(s) ==
  IF \E o \in Sessions \ {s} : Chose(o) /\ loc[o].map = loc[s].map /\ loc[o].slot = loc[s].cur
  THEN Harm("evict", {Cache(s)[loc[s].cur].bid}) ELSE {}
See(b, ids) == seen' = [seen EXCEPT ![b] = @ \cup ids]

Look(s) ==
  /\ pc[s] = "op" /\ loc[s].cmd.op = "look"
  /\ Done(s)
  /\ UNCHANGED <<articles, files, maps, entry, count, todo, seen, harmed>>

(* brc_add_read: where the article belongs is found, then it is put there. *)
ReadFind(s) ==
  LET c == loc[s].cmd IN
  /\ pc[s] = "op" /\ c.op = "read"
  /\ IF Valid(s) /\ Adds(Cache(s)[loc[s].cur].list, c.id)
     THEN loc' = [loc EXCEPT ![s].old = Cache(s)[loc[s].cur].list] /\ Goto(s, "set") /\ UNCHANGED seen
     ELSE See(c.b, {c.id}) /\ Done(s)
  /\ UNCHANGED <<articles, files, maps, entry, count, todo, harmed>>
ReadSet(s) ==
  LET c == loc[s].cmd  l == Cache(s)[loc[s].cur].list IN
  /\ pc[s] = "set"
  /\ SetList(s, AddTo(loc[s].old, l, c.id)) /\ See(c.b, {c.id})
  /\ harmed' = harmed \cup Late(s) \cup (IF l # loc[s].old THEN Harm("insert", {c.b}) ELSE {})
  /\ Done(s)
  /\ UNCHANGED <<articles, files, entry, count, todo>>

(* brc_clear_new_flag.                                                     *)
ReadTo(s) ==
  LET c == loc[s].cmd  l == Cache(s)[loc[s].cur].list IN
  /\ pc[s] = "op" /\ c.op = "to"
  /\ IF Valid(s) /\ Clears(l, c.id)
     THEN SetList(s, ClearTo(l, c.id)) /\ harmed' = harmed \cup Late(s)
     ELSE UNCHANGED <<maps, harmed>>
  /\ See(c.b, {f \in posts[c.b] : f <= c.id}) /\ Done(s)
  /\ UNCHANGED <<articles, files, entry, count, todo>>

(* brc_clear. *)
Clear(s) ==
  LET c == loc[s].cmd IN
  /\ pc[s] = "op" /\ c.op = "clear"
  /\ IF Valid(s) THEN SetList(s, ClearAll(Cache(s)[loc[s].cur].list, nowid[c.b])) ELSE UNCHANGED maps
  /\ harmed' = harmed \cup (IF Valid(s) THEN Late(s) ELSE {})
                      \cup (IF c.b \in coming THEN Harm("numbered", {c.b}) ELSE {})
  /\ See(c.b, posts[c.b]) /\ Done(s)
  /\ UNCHANGED <<articles, files, entry, count, todo>>

(* brc_board_unread: nowid is read, then the list, and a list that is      *)
(* ahead of it is cleared.                                                 *)
ListNow(s) ==
  /\ pc[s] = "op" /\ loc[s].cmd.op = "list"
  /\ IF Valid(s) THEN loc' = [loc EXCEPT ![s].now = nowid[loc[s].cmd.b],
                                         ![s].last = Last(loc[s].cmd.b)] /\ Goto(s, "scan") ELSE Done(s)
  /\ UNCHANGED <<articles, files, maps, entry, count, todo, seen, harmed>>
ListScan(s) ==
  LET b == loc[s].cmd.b  l == Cache(s)[loc[s].cur].list IN
  /\ pc[s] = "scan"
  /\ IF Above(l, loc[s].now, loc[s].last) /\ Valid(s)
     THEN SetList(s, ClearAll(l, nowid[b])) /\ harmed' = harmed \cup Late(s) \cup Harm("stale", {b})
     ELSE UNCHANGED <<maps, harmed>>
  /\ Done(s)
  /\ UNCHANGED <<articles, files, entry, count, todo, seen>>

-----------------------------------------------------------------------------
Next ==
  \/ \E b \in Boards : Number(b) \/ Appear(b)
  \/ \E s \in Sessions :
       \/ Login(s) \/ CountIn(s) \/ LogoutStart(s) \/ Leave(s) \/ Unlink(s) \/ Purge(s)
       \/ \E c \in todo[s] : Command(s, c)
       \/ Stat(s) \/ Zero(s) \/ Lookup(s) \/ Fill(s) \/ Bid(s)
       \/ URead(s) \/ UCopy(s) \/ UFlag(s) \/ UWrite(s) \/ UMove(s)
       \/ Look(s) \/ ReadFind(s) \/ ReadSet(s) \/ ReadTo(s) \/ Clear(s) \/ ListNow(s) \/ ListScan(s)

Spec == Init /\ [][Next]_vars

-----------------------------------------------------------------------------
(* The marks a session finds when it enters a board now.                   *)
CachedAt(b) ==
  IF entry = 0 THEN {} ELSE {i \in Slots \ Filling(entry) : maps[entry][i].bid = b}
Shown(b) == IF CachedAt(b) = {} THEN row[b] ELSE maps[entry][Min(CachedAt(b))].list

(* An article the user has read, or marked as read, in any of his sessions *)
(* is not shown as unread again, whatever is loaded, evicted, written back *)
(* or removed in between; boards that met one of Windows are left out      *)
(* (boards.c:644-720, 827-891, 960-1032, ucache.c:985-1028).               *)
NothingForgotten ==
  \A b \in Boards \ harmed : \A f \in seen[b] : ~Unread(Shown(b), f)

(* An article he has not read is shown as unread, unless it is older than  *)
(* the newest BRC_MAXNUM he has read, or the first of its board, which     *)
(* brc_add_read uses as the end of a new list (boards.c:905-926, 996-1001).*)
NothingFalselyRead ==
  \A b \in Boards \ harmed : \A g \in posts[b] \ (seen[b] \cup {1}) :
    Cardinality({f \in seen[b] : f > g}) < MaxNum => Unread(Shown(b), g)

(* The marks go down, in the file and in every copy of it, in every        *)
(* "entry", also in one that has been removed (boards.c:972-983).          *)
MarksSorted ==
  /\ \A b \in Boards \ harmed : Sorted(row[b]) /\ (tmp # NoRows => Sorted(tmp[b]))
  /\ \A m \in DOMAIN maps : \A i \in Slots \ Filling(m) :
       maps[m][i].bid \in Boards \ harmed => Sorted(maps[m][i].list)

-----------------------------------------------------------------------------
(* What the proofs in Brc_proofs add: the types; where a session is; and   *)
(* for a board outside the windows, what its row, its slot and the copies  *)
(* of sessions in brc_update have to do with one another.                  *)
Updates == {"u_copy", "u_flag", "u_write", "u_move"}
Stages  == {"off", "counted", "idle", "leave", "unlink", "over", "stat", "zero", "lookup", "fill", "bid",
            "update", "op", "set", "scan"} \cup Updates
Local ==
  [map : Nat, cur : {0} \cup Slots, board : Boards \cup {NoBoard}, cmd : Commands \cup {Logout},
   slot : {0} \cup Slots, img : Lists, base : Rows \cup {NoRows}, data : Rows \cup {NoRows},
   k : 0 .. CacheNum + 1, then : {"idle", "fill", "leave"}, old : Lists, now : Nat, last : Nat,
   fresh : BOOLEAN, purged : BOOLEAN]
TypeInv ==
  /\ nowid \in [Boards -> Nat] /\ coming \subseteq Boards /\ posts \in [Boards -> SUBSET Nat]
  /\ row \in Rows /\ tmp \in Rows \cup {NoRows}
  /\ maps \in Seq([Slots -> Entry]) /\ entry \in 0 .. Len(maps) /\ count \in Int
  /\ todo \in [Sessions -> SUBSET Commands] /\ pc \in [Sessions -> Stages] /\ loc \in [Sessions -> Local]
  /\ seen \in [Boards -> SUBSET Nat] /\ harmed \subseteq Boards

(* The articles there are, and those of a command. *)
PostsInv ==
  /\ \A b \in Boards : seen[b] \subseteq posts[b] /\ posts[b] \subseteq 1 .. nowid[b] /\ (b \in coming => nowid[b] > 0)
  /\ \A s \in Sessions : loc[s].cmd.op \in {"read", "to"} => loc[s].cmd.id \in posts[loc[s].cmd.b]

(* A session that works on a slot has mapped a file, and knows the slot.   *)
Fills(s) == pc[s] \in {"fill", "bid"} \/ (pc[s] \in {"update"} \cup Updates /\ loc[s].then = "fill")
Placed(s) ==
  LET l == loc[s] IN
  /\ l.map \in 0 .. Len(maps)
  /\ pc[s] \in {"lookup", "fill", "bid", "update", "op", "set", "scan"} \cup Updates => l.map # 0
  /\ l.cur # 0 => l.map # 0
  /\ pc[s] \in {"stat", "zero"} => l.map = 0 /\ l.board = NoBoard
  /\ l.board # NoBoard => l.cur # 0
  /\ pc[s] \in {"op", "set", "scan"} => l.board = l.cmd.b /\ l.cmd \in Commands
  /\ pc[s] = "set" => l.cmd.op = "read"
  /\ pc[s] = "lookup" \/ Fills(s) => l.board = NoBoard /\ l.cmd \in Commands
  /\ Fills(s) => l.slot # 0
  /\ pc[s] \in {"update"} \cup Updates => l.then # "idle"
  /\ pc[s] \in {"stat", "zero"} /\ l.cmd = Logout => l.then = "leave"
  /\ pc[s] \in {"u_copy", "u_flag"} => l.k \in Slots
  /\ IF pc[s] \in Updates THEN l.base \in Rows /\ l.data \in Rows ELSE l.data = NoRows

(* While a board is outside the windows, nobody uses an "entry" that has   *)
(* been removed, and the slot of a session is that of its board.           *)
Good(b)  == b \in Boards \ harmed
Loaded   == IF entry = 0 THEN ZeroEntry ELSE maps[entry]
Taken    == IF entry = 0 THEN {} ELSE Filling(entry)
Mapping(s) == loc[s].map \in {0, entry} \/ Boards \subseteq harmed
Bound(s) ==
  loc[s].board # NoBoard =>
    /\ Good(Loaded[loc[s].cur].bid) => Loaded[loc[s].cur].bid = loc[s].board
    /\ Good(loc[s].board) => Loaded[loc[s].cur].bid = loc[s].board /\ loc[s].cur \notin Taken
PlaceInv == \A s \in Sessions : Placed(s) /\ Mapping(s) /\ Bound(s)

(* Of the articles 1 .. n, those read in l are read in m.                  *)
Within(l, m, n)  == \A f \in 1 .. n : Unread(m, f) => Unread(l, f)
Fit(l, n)        == Sorted(l) /\ \A i \in Places : l[i] <= n
Remembers(l, fs) == \A f \in fs : ~Unread(l, f)

(* r: the row of board b; e: the slots; fill: those being filled; copies:  *)
(* those about to be copied; ups: what sessions in brc_update have read    *)
(* and will write; n: nowid; fs: what is read.                             *)
(* A slot that is being filled, and still has the old board, is unchanged, *)
(* and will not be copied.  A list is ahead of the row and of all copies,  *)
(* but one that is unchanged is on its way to the file, if not there.      *)
HasSlot(e, fill, b) == {i \in Slots \ fill : e[i].bid = b}
SlotRight(r, e, i, ups, n, fs) ==
  /\ Fit(e[i].list, n) /\ Remembers(e[i].list, fs)
  /\ Within(r, e[i].list, n) /\ \A u \in ups : Within(u.data, e[i].list, n)
  /\ e[i].changed \/ Within(e[i].list, r, n) \/ \E u \in ups : Within(e[i].list, u.data, n)
RowRight(r, ups, n, fs) == Remembers(r, fs) /\ \A u \in ups : Within(u.data, r, n)
UpsRight(r, ups, n) ==
  \A u \in ups : Fit(u.base, n) /\ Fit(u.data, n) /\ Within(u.base, u.data, n) /\ Within(u.base, r, n)
Kept(r, e, fill, copies, ups, n, fs, b) ==
  /\ \A i, j \in Slots : e[i].bid = b /\ e[j].bid = b => i = j
  /\ \A i \in fill : e[i].bid = b => ~e[i].changed /\ i \notin copies
  /\ Fit(r, n) /\ UpsRight(r, ups, n)
  /\ \A i \in HasSlot(e, fill, b) : SlotRight(r, e, i, ups, n, fs)
  /\ HasSlot(e, fill, b) = {} => RowRight(r, ups, n, fs)

Copied == {loc[o].k : o \in {x \in Sessions : pc[x] = "u_copy"}}
Ups(b) == {[base |-> loc[o].base[b], data |-> loc[o].data[b]] : o \in {x \in Sessions : pc[x] \in Updates}}
KeptInv ==
  \A b \in Boards \ harmed : Kept(row[b], Loaded, Taken, Copied, Ups(b), nowid[b], seen[b], b)

(* The slot a session has chosen to fill is unchanged; and who has changed *)
(* a slot, or somebody after him, will write it back, or is dead.          *)
Saves(o, i) ==
  /\ Working(o)
  /\ pc[o] = "idle" /\ o \in Telnet => loc[o].map # 0
  /\ pc[o] \in Updates /\ loc[o].then = "leave" => pc[o] \in {"u_copy", "u_flag"} /\ loc[o].k <= i
Dead(o) == loc[o].purged /\ pc[o] \in {"leave", "unlink", "over"}
ChangedInv ==
  \A i \in Slots : Good(Loaded[i].bid) /\ Loaded[i].changed =>
    /\ \A s \in Sessions : Chose(s) => loc[s].slot # i
    /\ \E o \in Sessions : Dead(o) \/ Saves(o, i)

(* The other lists of such a board: in the temporary file, and in files    *)
(* that have been removed.                                                 *)
RestSorted ==
  \A b \in Boards \ harmed :
    /\ tmp # NoRows => Sorted(tmp[b])
    /\ \A m \in DOMAIN maps : m # entry => \A i \in Slots : maps[m][i].bid = b => Sorted(maps[m][i].list)

(* The lists of such a board that are still in use.                        *)
Held(b) ==
  {row[b]} \cup {u.data : u \in Ups(b)} \cup {Loaded[i].list : i \in HasSlot(Loaded, Taken, b)}
  \cup (IF tmp = NoRows THEN {} ELSE {tmp[b]})

(* ids: the articles of a board, also the one that has its id and is still *)
(* to come; fs: what is read.  A mark is of an article that has been read, *)
(* or of nowid when all there was had been; what a list shows as read and  *)
(* is not has fallen out of a full list.                                   *)
Given(b)       == posts[b] \cup (IF b \in coming THEN {nowid[b]} ELSE {})
Crowded(fs, g) == Cardinality({f \in fs : f > g}) >= MaxNum
Backed(m, fs, ids) == m \in fs \cup {1} \/ \A g \in ids : g <= m => g \in fs \cup {1}
Honest(l, fs, ids) ==
  /\ \A i \in Places : Visible(l, i) => Backed(l[i], fs, ids)
  /\ \A g \in ids \ (fs \cup {1}) : ~Unread(l, g) => Crowded(fs, g)
HonestInv ==
  /\ \A b \in coming : nowid[b] \notin posts[b]
  /\ \A b \in Boards \ harmed : \A l \in Held(b) : Fit(l, nowid[b]) /\ Honest(l, seen[b], Given(b))

=============================================================================
