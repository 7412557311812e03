------------------------------ MODULE ThreadOp ------------------------------
(***************************************************************************)
(* Operations on a whole thread: SR_BMFunc and split_thread (src/bbs.c)    *)
(* walk through .DIR with apply_thread (src/newread.c), beside users who   *)
(* reply, delete, recover and mark single articles.                        *)
(*                                                                         *)
(* The walk has the lock of .DIR from its beginning.  But a deletion in it *)
(* goes through updatelastpost, which opens and closes .DIR: with that the *)
(* kernel takes the lock away, and the walk goes on without it.            *)
(***************************************************************************)
EXTENDS Integers, Sequences, SequencesExt

CONSTANTS
  Procs,      \* the processes
  Mixes,      \* what each of them does, a set of functions on Procs
  Dirs,       \* the contents .DIR may have at the start
  MaxId,      \* bound on the ids
  Windows,    \* which windows the properties make an exception of
  Nobody

Walks   == {"delete", "mark", "markdel", "delmarkdel", "split"}
Singles == {"reply", "remove", "recover", "flag"}
AllWindows == {"unlocked", "moved", "asked", "reply", "recover"}
Ids     == 1 .. MaxId

(* An article of thread group, a reply to article re; the first of a       *)
(* thread is a reply to itself.  m: FILE_MARKED; x: FILE_DEL, "to be       *)
(* deleted".  Zero is what a mapping shows behind the end of the file.     *)
Record  == [id : 0 .. MaxId, group : 0 .. MaxId, re : 0 .. MaxId, flags : SUBSET {"m", "x"}]
Article == {a \in Record : a.id # 0 /\ a.group # 0 /\ a.re # 0}
Zero    == [id |-> 0, group |-> 0, re |-> 0, flags |-> {}]

ASSUME MixesAssumption   == Mixes \subseteq [Procs -> Walks \cup Singles \cup {"none"}]
ASSUME DirsAssumption    == MaxId \in Nat /\ Dirs \subseteq Seq(Article)
(* Nothing has been deleted yet, no thread has been split into strays. *)
ASSUME PostedAssumption  ==
  \A d \in Dirs : \A i \in DOMAIN d :
    /\ d[i].id = i /\ d[i].re \in 1 .. i
    /\ \A j \in DOMAIN d : d[i].re = d[j].id => d[i].group = d[j].group
ASSUME WindowsAssumption == Windows \subseteq AllWindows
ASSUME NamesAssumption   == Nobody \notin Procs /\ (Procs \cup {Nobody}) \cap Ids = {}

VARIABLES
  task,       \* what each process does
  dir,        \* .DIR
  bin,        \* the records of .DELETED
  lastid,     \* the last id given
  lock,       \* who has the lock of .DIR
  pc,         \* where each process is
  loc,        \* its local variables
  goal, done, \* history: the articles of a walk when it began, and those it has treated
  renumbered, \* history: the ids of articles that have got a new one
  harmed      \* history: who met one of Windows, processes and articles; all of them: Nobody

vars == <<task, dir, bin, lastid, lock, pc, loc, goal, done, renumbered, harmed>>

(* fh, pos, files: the record and the place the user points at and the     *)
(* length of his list (filecount); first: from the first of the thread on; *)
(* now, count: the place and the number of records of apply_thread; size:  *)
(* the number do_del_post works with; old: oldid of split_thread_arg.      *)
Unmapped == -1
Start == [fh |-> Zero, pos |-> 0, files |-> 0, first |-> FALSE, now |-> 0, count |-> 0, size |-> Unmapped, old |-> <<>>]

Goto(p, there) == pc' = [pc EXCEPT ![p] = there]
Does(p, t)     == pc[p] = "idle" /\ task[p] = t
Files          == {dir[i] : i \in DOMAIN dir}
Here(id)       == \E a \in Files : a.id = id
Group(id)      == (CHOOSE a \in Files : a.id = id).group
At(i)          == IF i \in DOMAIN dir THEN dir[i] ELSE Zero

(* p changes .DIR while a walk goes on without the lock, or is that walk   *)
(* and somebody else has it.                                               *)
Meets(p) == \/ lock \notin {p, Nobody}
            \/ \E q \in Procs \ {p} : pc[q] \in {"walk", "asked"} /\ lock # q
Harm(p, w, who) ==
  harmed' = harmed \cup {x \in {Nobody} : "unlocked" \in Windows /\ Meets(p)} \cup {x \in who : w \in Windows}

-----------------------------------------------------------------------------
(* Mutated forms of definitions below. *)
Again_Moves(p, size) ==         \* APPLY_CONTINUE after a deletion: the next article is left out
  [loc EXCEPT ![p].count = @ - 1, ![p].files = @ - 1, ![p].size = size, ![p].now = @ + 1]
Again_KeepsFiles(p, size) ==    \* the list of the manager does not get shorter
  [loc EXCEPT ![p].count = IF @ = 0 THEN 0 ELSE @ - 1, ![p].size = size]
Cut_KeepsSize(ent, size) ==     \* the file is not cut
  [i \in 1 .. size |-> IF i < ent \/ i = size THEN At(i) ELSE At(i + 1)]
InSubtree_Near(a, old) == old = <<>> \/ a.re = old[1]   \* replies to replies stay behind

-----------------------------------------------------------------------------
(* SR_BMFunc, split_thread: the manager points at an article of his list   *)
(* and answers some questions.  A thread is split at an article that is    *)
(* not its first.                                                          *)
View(p) ==
  /\ pc[p] = "idle" /\ task[p] \in Walks
  /\ \E i \in DOMAIN dir, f \in BOOLEAN :
       /\ task[p] = "split" => ~f /\ dir[i].id # dir[i].group
       /\ loc' = [loc EXCEPT ![p].fh = dir[i], ![p].pos = i, ![p].files = Len(dir), ![p].first = f]
  /\ Goto(p, "viewed")
  /\ UNCHANGED <<task, dir, bin, lastid, lock, goal, done, renumbered, harmed>>

(* The articles of the thread above place i; apply_thread begins no later  *)
(* than at the last record.                                                *)
Above(p, i) == {j \in 1 .. i - 1 : At(j).group = loc[p].fh.group}
First(p) ==
  LET i == IF loc[p].pos > Len(dir) THEN Len(dir) ELSE loc[p].pos IN
  IF loc[p].first /\ Above(p, i) # {} THEN CHOOSE j \in Above(p, i) : \A k \in Above(p, i) : j <= k ELSE i

(* What the walk is to treat: the thread the article is in now, all of it, *)
(* from the article on, or what descends from it in that thread.           *)
HasReplies(S, group) == \A a \in Files : a.group = group /\ a.re \in S => a.id \in S
Chosen(p) ==
  LET f == loc[p].fh
      g == IF Here(f.id) THEN Group(f.id) ELSE f.group IN
  IF task[p] = "split"
  THEN {x \in Ids : \A S \in SUBSET Ids : f.id \in S /\ HasReplies(S, f.group) => x \in S}
  ELSE {a.id : a \in {x \in Files : x.group = g /\ (loc[p].first \/ x.id >= f.id)}}
Moved(p) ==
  LET f == loc[p].fh IN
  \/ Here(f.id) /\ Group(f.id) # f.group
  \/ ~loc[p].first /\ At(loc[p].pos).id # f.id

(* The lock is taken, .DIR is mapped, the first article looked for. *)
LockDir(p) ==
  /\ pc[p] = "viewed" /\ lock = Nobody
  /\ IF dir = <<>> THEN Goto(p, "done") /\ UNCHANGED <<lock, loc>>
     ELSE /\ Goto(p, "walk") /\ lock' = p
          /\ loc' = [loc EXCEPT ![p].now = First(p), ![p].count = Len(dir)]
  /\ goal' = [goal EXCEPT ![p] = Chosen(p)]
  /\ harmed' = harmed \cup {x \in {p} : "moved" \in Windows /\ Moved(p)}
  /\ UNCHANGED <<task, dir, bin, lastid, done, renumbered>>

(* The loop of apply_thread: the next record, or the end. *)
GoOn(p) ==
  IF loc[p].now + 1 > loc[p].count
  THEN /\ Goto(p, "done") /\ loc' = [loc EXCEPT ![p] = Start]
       /\ lock' = IF lock = p THEN Nobody ELSE lock
  ELSE loc' = [loc EXCEPT ![p].now = @ + 1] /\ UNCHANGED <<pc, lock>>
(* After APPLY_REAPPLY it looks at the same place once more. *)
Minus1(n) == IF n = 0 THEN 0 ELSE n - 1
Again(p, size) == [loc EXCEPT ![p].count = Minus1(@), ![p].files = Minus1(@), ![p].size = size]

Now(p)    == At(loc[p].now)
Walk(p)   == pc[p] = "walk"
InThread(p) == Walk(p) /\ Now(p).group = loc[p].fh.group
Treated(p)  == done' = [done EXCEPT ![p] = @ \cup {Now(p).id}]

PassBy(p) ==
  /\ Walk(p) /\ Now(p).group # loc[p].fh.group
  /\ GoOn(p)
  /\ UNCHANGED <<task, dir, bin, lastid, goal, done, renumbered, harmed>>

(* BM_thread_func.  Marked articles are not deleted. *)
Deletes(p) ==
  /\ "m" \notin Now(p).flags
  /\ task[p] = "delete" \/ (task[p] = "delmarkdel" /\ "x" \in Now(p).flags)
NewFlags(p) ==
  LET old == Now(p).flags
      set(f) == f \notin loc[p].fh.flags IN
  CASE task[p] = "mark"       -> IF set("m") THEN old \cup {"m"} ELSE old \ {"m"}
    [] task[p] = "markdel"    -> IF set("x") THEN old \cup ({"x"} \ {f \in {"x"} : "m" \in old}) ELSE old \ {"x"}
    [] task[p] = "delmarkdel" -> old \ {"x"}
    [] OTHER                  -> old
SetFlags(p) ==
  /\ InThread(p) /\ ~Deletes(p) /\ task[p] # "split"
  /\ dir' = [dir EXCEPT ![loc[p].now].flags = NewFlags(p)]
  /\ Treated(p) /\ GoOn(p) /\ Harm(p, "none", {})
  /\ UNCHANGED <<task, bin, lastid, goal, renumbered>>

(* del_post: an article behind the end of the list the manager has is      *)
(* taken for a pinned one.  He is asked, with the lock of .DIR held if the *)
(* walk still has it, and whatever he answers nothing is deleted, for no   *)
(* pinned article has that name.  Or he has left.                          *)
Pinned(p) == loc[p].now > loc[p].files
Ask(p) ==
  /\ InThread(p) /\ Deletes(p) /\ Pinned(p)
  /\ Goto(p, "asked")
  /\ harmed' = harmed \cup {x \in {p} : "asked" \in Windows}
  /\ UNCHANGED <<task, dir, bin, lastid, lock, loc, goal, done, renumbered>>
Answer(p) ==
  /\ pc[p] = "asked"
  /\ IF loc[p].now + 1 > loc[p].count THEN GoOn(p)
     ELSE Goto(p, "walk") /\ loc' = [loc EXCEPT ![p].now = @ + 1] /\ UNCHANGED lock
  /\ UNCHANGED <<task, dir, bin, lastid, goal, done, renumbered, harmed>>
Leave(p) ==
  /\ pc[p] = "asked"
  /\ Goto(p, "gone") /\ loc' = [loc EXCEPT ![p] = Start]
  /\ lock' = IF lock = p THEN Nobody ELSE lock
  /\ UNCHANGED <<task, dir, bin, lastid, goal, done, renumbered, harmed>>

(* do_del_post: the size is that of the mapping, made once.  A place       *)
(* behind it is looked for in it, in vain, and the walk does not see that. *)
Size(p) == IF loc[p].size = Unmapped THEN Len(dir) ELSE loc[p].size
Cut(ent, size) == [i \in 1 .. size - 1 |-> IF i < ent THEN At(i) ELSE At(i + 1)]
DelEntry(p) ==
  /\ InThread(p) /\ Deletes(p) /\ ~Pinned(p) /\ loc[p].now <= Size(p)
  /\ dir' = Cut(loc[p].now, Size(p)) /\ bin' = bin \cup {Now(p)}
  /\ loc' = Again(p, Size(p) - 1)
  /\ lock' = IF lock = p THEN Nobody ELSE lock          \* updatelastpost closes .DIR
  /\ Treated(p) /\ Harm(p, "none", {})
  /\ UNCHANGED <<task, lastid, pc, goal, renumbered>>
DelFails(p) ==
  /\ InThread(p) /\ Deletes(p) /\ ~Pinned(p) /\ loc[p].now > Size(p)
  /\ loc' = Again(p, Size(p))
  /\ UNCHANGED <<task, dir, bin, lastid, lock, pc, goal, done, renumbered, harmed>>

(* split_thread_me: the first article of the walk is the first of the new  *)
(* thread, replies to what is in it follow.                                *)
InSubtree(a, old) == old = <<>> \/ \E i \in DOMAIN old : a.re = old[i]
Split(p) ==
  /\ InThread(p) /\ task[p] = "split"
  /\ IF InSubtree(Now(p), loc[p].old)
     THEN LET old == Append(loc[p].old, Now(p).id) IN
          /\ dir' = [dir EXCEPT ![loc[p].now].group = old[1],
                                ![loc[p].now].re = IF Len(old) = 1 THEN old[1] ELSE @]
          /\ IF loc[p].now + 1 > loc[p].count
             THEN GoOn(p)
             ELSE loc' = [loc EXCEPT ![p].now = @ + 1, ![p].old = old] /\ UNCHANGED <<pc, lock>>
          /\ Treated(p)
     ELSE GoOn(p) /\ UNCHANGED <<dir, done>>
  /\ Harm(p, "none", {})
  /\ UNCHANGED <<task, bin, lastid, goal, renumbered>>

-----------------------------------------------------------------------------
(* Users of single articles.  A reply takes the thread from the record its *)
(* writer has had since he began.                                          *)
Reply(p) ==
  /\ Does(p, "reply")
  /\ \E a \in Files : loc' = [loc EXCEPT ![p].fh = a]
  /\ Goto(p, "written")
  /\ UNCHANGED <<task, dir, bin, lastid, lock, goal, done, renumbered, harmed>>
Post(p) ==
  /\ pc[p] = "written" /\ lock = Nobody /\ lastid < MaxId
  /\ LET f == loc[p].fh IN
     /\ dir' = Append(dir, [id |-> lastid + 1, group |-> f.group, re |-> f.id, flags |-> {}])
     /\ Harm(p, "reply", {x \in {lastid + 1} : Here(f.id) /\ Group(f.id) # f.group})
  /\ lastid' = lastid + 1 /\ Goto(p, "done") /\ loc' = [loc EXCEPT ![p] = Start]
  /\ UNCHANGED <<task, bin, lock, goal, done, renumbered>>

(* do_del_post, as one step under the lock. *)
RemoveOne(p) ==
  /\ Does(p, "remove") /\ lock = Nobody
  /\ \E i \in DOMAIN dir : dir' = RemoveAt(dir, i) /\ bin' = bin \cup {dir[i]}
  /\ Goto(p, "done") /\ Harm(p, "none", {})
  /\ UNCHANGED <<task, lastid, lock, loc, goal, done, renumbered>>

(* do_undel_post, likewise; a second recovery of an article finds its file *)
(* in place.  insert_func puts the entry before those with greater ids; in *)
(* an empty .DIR it gets a new id and is the first of a thread.            *)
Place(k, id) == /\ \A i \in DOMAIN dir : i < k => dir[i].id < id
                /\ k \in DOMAIN dir => dir[k].id > id
Recover(p) ==
  /\ Does(p, "recover") /\ lock = Nobody
  /\ \E a \in bin :
       LET b == [a EXCEPT !.flags = @ \ {"x"}]
           F == Files \cup {b} IN
       /\ ~Here(a.id) /\ bin' = bin \ {a}
       /\ IF dir = <<>>
          THEN /\ lastid < MaxId /\ lastid' = lastid + 1 /\ renumbered' = renumbered \cup {a.id}
               /\ dir' = <<[b EXCEPT !.id = lastid + 1, !.group = lastid + 1, !.re = lastid + 1]>>
               /\ Harm(p, "none", {})
          ELSE /\ \E k \in 1 .. Len(dir) + 1 : Place(k, a.id) /\ dir' = InsertAt(dir, k, b)
               /\ Harm(p, "recover", {x.id : x \in {y \in F : \E z \in F : y.re = z.id /\ y.group # z.group /\ b \in {y, z}}})
               /\ UNCHANGED <<lastid, renumbered>>
  /\ Goto(p, "done")
  /\ UNCHANGED <<task, lock, loc, goal, done>>

(* change_post_flag: the entry is found under the lock, then changed. *)
Find(p) ==
  /\ Does(p, "flag") /\ lock = Nobody
  /\ \E i \in DOMAIN dir : loc' = [loc EXCEPT ![p].fh = dir[i], ![p].now = i]
  /\ lock' = p /\ Goto(p, "found")
  /\ UNCHANGED <<task, dir, bin, lastid, goal, done, renumbered, harmed>>
Mark(p) ==
  /\ pc[p] = "found"
  /\ dir' = [i \in DOMAIN dir |-> IF i = loc[p].now THEN [dir[i] EXCEPT !.flags = @ \cup {"m"}] ELSE dir[i]]
  /\ lock' = IF lock = p THEN Nobody ELSE lock
  /\ loc' = [loc EXCEPT ![p] = Start]
  /\ Goto(p, "done") /\ Harm(p, "none", {})
  /\ UNCHANGED <<task, bin, lastid, goal, done, renumbered>>

Init ==
  /\ task \in Mixes /\ dir \in Dirs
  /\ bin = {} /\ lastid = Len(dir) /\ lock = Nobody
  /\ pc = [p \in Procs |-> "idle"] /\ loc = [p \in Procs |-> Start]
  /\ goal = [p \in Procs |-> {}] /\ done = [p \in Procs |-> {}] /\ renumbered = {} /\ harmed = {}

WalkOn(p) == PassBy(p) \/ SetFlags(p) \/ Ask(p) \/ Answer(p) \/ Leave(p) \/ DelEntry(p) \/ DelFails(p) \/ Split(p)
Single(p) == Reply(p) \/ Post(p) \/ RemoveOne(p) \/ Recover(p) \/ Find(p) \/ Mark(p)
Step(p)   == View(p) \/ LockDir(p) \/ WalkOn(p) \/ Single(p)
Next == \E p \in Procs : Step(p)

(* A walk that has begun goes on, and who is asked answers or leaves (he   *)
(* is thrown out after a while); nobody has to begin anything.             *)
Spec     == Init /\ [][Next]_vars
FairSpec == Spec /\ \A p \in Procs : WF_vars(WalkOn(p))

-----------------------------------------------------------------------------
Excused(who) == {who, Nobody} \cap harmed # {}

(* A walk has treated exactly the articles that were meant, each of the    *)
(* thread, of its rest, or of what descends from an article, unless the    *)
(* list the manager looked at had changed, with articles moved in it or    *)
(* added to it, or somebody worked on .DIR while a deletion went on        *)
(* without the lock (bbs.c:6358-6376, newread.c:1337, bbs.c:4750).         *)
WholeThread ==
  \A p \in Procs : pc[p] = "done" /\ task[p] \in Walks => done[p] = goal[p] \/ Excused(p)

(* While no thread is being split, a reply is in the thread of the article *)
(* it replies to, if that is there; replies written, and articles deleted, *)
(* before a split and added after it are left out (bbs.c:6463-6497).       *)
GroupOfParent ==
  (\A p \in Procs : pc[p] = "walk" => task[p] # "split") =>
    \A a, b \in Files : a.re = b.id => a.group = b.group \/ Excused(a.id)

(* Every article is in .DIR, once, or in the bin, but for those that have  *)
(* got a new id, and .DIR has nothing else (newread.c:1370, article.c:362- *)
(* 376, 714).                                                              *)
NothingLost ==
  \/ Excused(Nobody)
  \/ /\ \A i, j \in DOMAIN dir : i < j => dir[i].id < dir[j].id
     /\ \A a \in Files, b \in bin : a.id # b.id
     /\ {a.id : a \in Files \cup bin} = 1 .. lastid \ renumbered

(* Every walk ends, though a deletion that failed is tried again: the      *)
(* number of records and that of the list go down each time                *)
(* (newread.c:1370-1373).                                                  *)
WalkEnds == \A p \in Procs : pc[p] = "walk" ~> pc[p] \in {"done", "gone"}

-----------------------------------------------------------------------------
(* What the proofs in ThreadOp_proofs add. *)
Walking(p) == pc[p] \in {"walk", "asked"}
Holds(p)   == pc[p] \in {"viewed", "walk", "asked", "written"}
Locals     == [fh : Record, pos : Nat, files : Nat, first : BOOLEAN, now : Nat, count : Nat,
               size : Nat \cup {Unmapped}, old : Seq(0 .. MaxId)]
InPlace(p) ==
  /\ pc[p] \in {"viewed", "walk", "asked"} =>
       task[p] \in Walks /\ loc[p].pos >= 1 /\ (task[p] = "split" => ~loc[p].first)
  /\ pc[p] \in {"idle", "viewed"} => loc[p].size = Unmapped /\ loc[p].old = <<>>
  /\ Walking(p) => loc[p].now >= 1
  /\ pc[p] = "asked" => task[p] \in {"delete", "delmarkdel"}
  /\ pc[p] \in {"written", "found"} => task[p] \in Singles
TypeInv ==
  /\ task \in [Procs -> Walks \cup Singles \cup {"none"}]
  /\ dir \in Seq(Record) /\ bin \subseteq Record /\ lastid \in 0 .. MaxId
  /\ lock \in Procs \cup {Nobody}
  /\ pc \in [Procs -> {"idle", "viewed", "walk", "asked", "written", "found", "done", "gone"}]
  /\ loc \in [Procs -> Locals]
  /\ goal \in [Procs -> SUBSET Nat] /\ done \in [Procs -> SUBSET Nat]
  /\ \A p \in Procs : InPlace(p)

(* Who has the lock works on .DIR; only a walk that deletes goes on without. *)
LockInv ==
  /\ lock # Nobody => pc[lock] \in {"walk", "asked", "found"}
  /\ \A p \in Procs : pc[p] = "found" => lock = p
  /\ \A p \in Procs : Walking(p) /\ lock # p => task[p] \in {"delete", "delmarkdel"}

(* While nobody has met a walk without the lock: articles are as they were *)
(* posted, and each walk knows how many there are.                         *)
Posted(a, last) == a.id \in 1 .. last /\ a.re \in 1 .. a.id /\ a.group \in Ids
Ordered(d, b, last, others) ==
  /\ \A i, j \in DOMAIN d : i < j => d[i].id < d[j].id
  /\ \A i \in DOMAIN d : Posted(d[i], last) /\ d[i].id \notin others /\ \A a \in b : a.id # d[i].id
  /\ \A a \in b : Posted(a, last) /\ a.id \notin others /\ \A c \in b : a.id = c.id => a = c
  /\ others \subseteq 1 .. last
  /\ \A x \in 1 .. last \ others : (\E i \in DOMAIN d : d[i].id = x) \/ (\E a \in b : a.id = x)
Old(p) == {loc[p].old[n] : n \in DOMAIN loc[p].old}
InOrder(p) ==
  /\ Holds(p) => Posted(loc[p].fh, lastid)
  /\ Walking(p) => loc[p].count = Len(dir) /\ loc[p].size \in {Unmapped, Len(dir)} /\ Old(p) \subseteq Ids
OrderInv ==
  Nobody \notin harmed => Ordered(dir, bin, lastid, renumbered) /\ \A p \in Procs : InOrder(p)

(* A split has moved the articles it has met that descend from the first;  *)
(* their replies behind it are still in the old thread.                    *)
Splits(p)   == pc[p] = "walk" /\ task[p] = "split"
ToSplit(p, i, j) == Splits(p) /\ i >= loc[p].now /\ dir[j].id \in Old(p) /\ dir[i].group = loc[p].fh.group
GroupInv ==
  Nobody \notin harmed =>
    /\ \A p \in Procs : Splits(p) => \A x \in Old(p) : \E k \in DOMAIN dir :
         k < loc[p].now /\ dir[k].id = x /\ dir[k].group = loc[p].old[1]
    /\ \A i, j \in DOMAIN dir : dir[i].re = dir[j].id =>
         dir[i].group = dir[j].group \/ dir[i].id \in harmed \/ \E p \in Procs : ToSplit(p, i, j)

(* What a walk has still to treat is the rest of its thread, or of what    *)
(* descends from its article.                                              *)
Belongs(p, a) == a.id = loc[p].fh.id \/ (a.re \in goal[p] /\ a.re # a.id)
Whole(p) ==
  /\ \A x \in goal[p] : x \in done[p] \/ \E i \in DOMAIN dir : i >= loc[p].now /\ dir[i].id = x
  /\ done[p] \subseteq goal[p]
  /\ \A i \in DOMAIN dir : i >= loc[p].now =>
       (dir[i].id \in goal[p] <=> dir[i].group = loc[p].fh.group /\ (task[p] = "split" => Belongs(p, dir[i])))
  /\ task[p] = "split" =>
       /\ done[p] = Old(p) /\ loc[p].fh.id \in goal[p]
       /\ \A i \in DOMAIN dir : i >= loc[p].now => dir[i].id \notin Old(p)
       /\ IF loc[p].old = <<>> THEN loc[p].now \in DOMAIN dir /\ dir[loc[p].now].id = loc[p].fh.id
                              ELSE loc[p].fh.id \in Old(p)
WalkInv ==
  Nobody \notin harmed => \A p \in Procs \ harmed :
    /\ pc[p] \in {"idle", "viewed"} => done[p] = {}
    /\ pc[p] # "asked"
    /\ pc[p] = "walk" => Whole(p)
    /\ pc[p] = "done" /\ task[p] \in Walks => done[p] = goal[p]
=============================================================================
