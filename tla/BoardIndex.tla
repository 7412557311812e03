----------------------------- MODULE BoardIndex -----------------------------
(***************************************************************************)
(* The derived indexes of a board: .ORIGIN lists the first articles of the *)
(* threads of .DIR, .MARK the marked articles (libBBS/article.c,           *)
(* board_regenspecial in libBBS/bcache.c).                                 *)
(*                                                                         *)
(* Each has a dirty flag in shared memory.  Who finds it set when he wants *)
(* to see the index writes the index again from .DIR.  .MARK is only ever  *)
(* written this way; .ORIGIN, as long as it is clean, is also changed one  *)
(* entry at a time by those who post, delete and recover articles, after   *)
(* they have changed .DIR and let go of its lock.                          *)
(*                                                                         *)
(* .DIR itself changes here as in module Board, one entry at a time;       *)
(* BoardDir has the steps of that.  The locks are fcntl locks: closing any *)
(* descriptor of a file drops the process's lock on it.                    *)
(***************************************************************************)
EXTENDS DirSearch, FiniteSets, Functions

CONSTANTS
  Procs,      \* the processes serving users
  Mixes,      \* what each process does, a set of functions on Procs
  Old,        \* .DIR before the model starts: a sequence of entries
  LastOld,    \* the last id handed out by then
  MaxId,      \* bound: no id above this one is handed out
  MaxChanges, \* bound: so many changes of .DIR are begun
  Windows,    \* which windows the properties make an exception of
  Nobody

Kinds    == {"MARK", "ORIGIN"}
Files    == Kinds \cup {"DIR"}
Tasks    == {"read", "post", "delete", "thread", "undelete", "mark", "mark_ix", "range"}
Stages == {"idle", "regen_lock", "regen_stat", "regen_read", "regen_done", "post_ix", "post_add",
           "del_ix", "del_lock", "undel_ix", "undel_add", "set_mark", "end", "mark_dirty",
           "ix_lock", "ix_dir", "range_dirty"}
AllWindows == {"cleared", "stat", "half", "stale", "order", "unmarked", "empty", "death"}

Entry == [id : Nat, root : BOOLEAN, marked : BOOLEAN]
Rising(table) == \A i, j \in DOMAIN table : i < j => table[i].id < table[j].id
(* What a file shows where it was never written: id and groupid are equal. *)
Zero  == [id |-> 0, root |-> TRUE, marked |-> FALSE]

ASSUME MixesAssumption   == Mixes \subseteq [Procs -> SUBSET Tasks]
ASSUME OldAssumption     == /\ Old \in Seq(Entry) /\ Rising(Old) /\ LastOld \in Nat
                            /\ \A i \in DOMAIN Old : Old[i].id <= LastOld
ASSUME MaxIdAssumption   == MaxId \in Nat /\ MaxChanges \in Nat
ASSUME WindowsAssumption == Windows \subseteq AllWindows
ASSUME NobodyAssumption  == Nobody \notin Procs

VARIABLES
  tasks,      \* tasks[p]: what process p does
  changes,    \* how many changes were begun
  dir,        \* the content of .DIR
  deleted,    \* the entries of .DELETED
  lastid,     \* the last id handed out
  index,      \* the content of .ORIGIN and .MARK
  dirty,      \* bstatus[].updateorigin and .updatemark
  lock,       \* who has the lock of each file
  missed,     \* history: a change got lost in one of Windows since the index was last written from .DIR
  pc,         \* where each process is
  loc         \* its local variables

vars == <<tasks, changes, dir, deleted, lastid, index, dirty, lock, missed, pc, loc>>

(* ent: fileinfo, the entry it works on; size: a length noted earlier;     *)
(* ix: the index it writes; then: where it goes on afterwards.             *)
Fresh == [ent |-> Zero, size |-> 0, ix |-> "ORIGIN", then |-> "idle"]

Belongs(k, e) == IF k = "MARK" THEN e.marked ELSE e.root
(* The entries of a file that belong to index k, in their order. *)
Picked(k, seq) ==
  LET upto[n \in 0 .. Len(seq)] ==
        IF n = 0 THEN <<>>
        ELSE IF Belongs(k, seq[n]) THEN Append(upto[n - 1], seq[n]) ELSE upto[n - 1]
  IN  upto[Len(seq)]
Derived(k)    == {e.id : e \in {x \in Range(dir) : Belongs(k, x)}}
Ids(seq)      == {e.id : e \in Range(seq)}
View(seq, n)  == [i \in 1 .. n |-> IF i <= Len(seq) THEN seq[i] ELSE Zero]
RemoveAt(seq, i)    == [k \in 1 .. Len(seq) - 1 |-> seq[IF k < i THEN k ELSE k + 1]]
InsertAt(seq, i, e) == SubSeq(seq, 1, i - 1) \o <<e>> \o SubSeq(seq, i, Len(seq))

Goto(p, there)   == pc' = [pc EXCEPT ![p] = there]
Free(p, f)       == lock[f] \in {Nobody, p}
Lock(p, f)       == lock' = [lock EXCEPT ![f] = p]
Unlock(p, fs)    == lock' = [f \in Files |-> IF f \in fs /\ lock[f] = p THEN Nobody ELSE lock[f]]
Begin(p, ts)     == /\ pc[p] = "idle" /\ ts \cap tasks[p] # {}
                    /\ changes < MaxChanges /\ changes' = changes + 1

(* History: which index has lost a change, and in which window.            *)
Miss(w, ks)      == missed' = [k \in Kinds |-> missed[k] \/ (k \in ks /\ w \in Windows)]

(* A process that has read .DIR for index k and is about to clear its      *)
(* flag.  Who sets or trusts the flag now will be forgotten.               *)
AboutToClear(k)  == \E q \in Procs : pc[q] = "regen_done" /\ loc[q].ix = k

(* setboardmark and setboardorigin with 1. *)
SetDirty(ks) ==
  /\ dirty' = [k \in Kinds |-> dirty[k] \/ k \in ks]
  /\ Miss("cleared", {k \in ks : AboutToClear(k)})

(* Mutated: setboardmark is called only next to setboardorigin.             *)
Afterwards_Originals(e) == IF e.marked /\ e.root THEN "set_mark" ELSE "end"
(* Where an operation goes on when it has done with .ORIGIN. *)
Afterwards(e) == IF e.marked THEN "set_mark" ELSE "end"

(* q has added the article id to .DIR, or taken it out, and .ORIGIN does   *)
(* not show that yet.                                                      *)
ToAdd    == {"post_ix", "post_add", "undel_ix", "undel_add"}
ToRemove == {"del_ix", "del_lock"}
Adding(q, id)   == pc[q] \in ToAdd /\ loc[q].ent.id = id
Removing(q, id) == pc[q] \in ToRemove /\ loc[q].ent.id = id

-----------------------------------------------------------------------------
(* Mutated forms of definitions below. *)
PostIx_GoesOn(p) ==             \* the article is appended after a regeneration as well
  /\ pc[p] = "post_ix"
  /\ IF dirty["ORIGIN"]
     THEN /\ loc' = [loc EXCEPT ![p].ix = "ORIGIN", ![p].then = "post_add"]
          /\ Goto(p, "regen_lock")
     ELSE Goto(p, "post_add") /\ UNCHANGED loc
  /\ UNCHANGED <<tasks, changes, dir, deleted, lastid, index, dirty, lock, missed>>
PostEntry_KeepsLock(p) ==       \* .ORIGIN is appended to under the lock of .DIR
  /\ Begin(p, {"post"}) /\ lock["DIR"] = Nobody /\ lastid < MaxId
  /\ lastid' = lastid + 1
  /\ \E root, marked \in BOOLEAN :
       LET e == [id |-> lastid + 1, root |-> root, marked |-> marked] IN
       /\ dir' = Append(dir, e)
       /\ loc' = [loc EXCEPT ![p].ent = e]
       /\ Goto(p, IF root THEN "post_ix" ELSE Afterwards(e))
  /\ Lock(p, "DIR")
  /\ UNCHANGED <<tasks, deleted, index, dirty, missed>>
End_KeepsLock(p) ==             \* the thread lock is not released
  /\ pc[p] = "end"
  /\ loc' = [loc EXCEPT ![p] = Fresh] /\ Goto(p, "idle")
  /\ UNCHANGED <<tasks, changes, dir, deleted, lastid, index, dirty, lock, missed>>

-----------------------------------------------------------------------------
(* board_regenspecial.  A user wants to see an index and it is dirty.      *)
Read(p, k) ==
  /\ pc[p] = "idle" /\ "read" \in tasks[p] /\ dirty[k]
  /\ loc' = [loc EXCEPT ![p].ix = k, ![p].then = "end"]
  /\ Goto(p, "regen_lock")
  /\ UNCHANGED <<tasks, changes, dir, deleted, lastid, index, dirty, lock, missed>>

(* The lock of the index; another one may have done the work meanwhile.    *)
RegenLock(p) ==
  /\ pc[p] = "regen_lock" /\ lock[loc[p].ix] = Nobody
  /\ IF dirty[loc[p].ix]
     THEN Lock(p, loc[p].ix) /\ Goto(p, "regen_stat")
     ELSE Goto(p, loc[p].then) /\ UNCHANGED lock
  /\ UNCHANGED <<tasks, changes, dir, deleted, lastid, index, dirty, missed, loc>>

(* fstat on .DIR, before its read lock. *)
RegenStat(p) ==
  /\ pc[p] = "regen_stat"
  /\ loc' = [loc EXCEPT ![p].size = Len(dir)]
  /\ Goto(p, "regen_read")
  /\ UNCHANGED <<tasks, changes, dir, deleted, lastid, index, dirty, lock, missed>>

(* Under the read lock the entries that belong to the index are written    *)
(* over its beginning.  An empty .DIR cannot be mapped; the flag stays.    *)
(* Closing .DIR drops any lock this process has on it.                     *)
RegenRead(p) ==
  /\ pc[p] = "regen_read" /\ Free(p, "DIR")
  /\ LET k == loc[p].ix
         found == Picked(k, View(dir, loc[p].size)) IN
     IF dir = <<>>
     THEN Unlock(p, {k, "DIR"}) /\ Goto(p, loc[p].then) /\ UNCHANGED <<index, missed, loc>>
     ELSE /\ index' = [index EXCEPT ![k] = found \o SubSeq(@, Len(found) + 1, Len(@))]
          /\ missed' = [missed EXCEPT ![k] =
               \/ "stat" \in Windows /\ loc[p].size # Len(dir)
               \/ /\ "half" \in Windows /\ k = "ORIGIN"
                  /\ \E q \in Procs :
                       LET id == loc[q].ent.id IN
                       Adding(q, id) \/ (Removing(q, id) /\ id \in Ids(dir))]
          /\ loc' = [loc EXCEPT ![p].size = Len(found)]
          /\ Unlock(p, {"DIR"}) /\ Goto(p, "regen_done")
  /\ UNCHANGED <<tasks, changes, dir, deleted, lastid, dirty>>

(* ftruncate, the flag is cleared, the lock of the index released. *)
RegenDone(p) ==
  /\ pc[p] = "regen_done"
  /\ index' = [index EXCEPT ![loc[p].ix] = SubSeq(@, 1, loc[p].size)]
  /\ dirty' = [dirty EXCEPT ![loc[p].ix] = FALSE]
  /\ Unlock(p, {loc[p].ix}) /\ Goto(p, loc[p].then)
  /\ UNCHANGED <<tasks, changes, dir, deleted, lastid, missed, loc>>

(* setboardorigin(board, -1) decides between writing .ORIGIN again, from   *)
(* where the operation goes on with next, and changing one entry of it.    *)
Instead(p, next) ==
  /\ dirty["ORIGIN"]
  /\ loc' = [loc EXCEPT ![p].ix = "ORIGIN", ![p].then = next]
  /\ Miss("cleared", {k \in {"ORIGIN"} : AboutToClear(k)})
  /\ Goto(p, "regen_lock")

-----------------------------------------------------------------------------
(* after_post: .DIR, then .ORIGIN, then the flag of .MARK. *)
PostEntry(p) ==
  /\ Begin(p, {"post"}) /\ lock["DIR"] = Nobody /\ lastid < MaxId
  /\ lastid' = lastid + 1
  /\ \E root, marked \in BOOLEAN :
       LET e == [id |-> lastid + 1, root |-> root, marked |-> marked] IN
       /\ dir' = Append(dir, e)
       /\ loc' = [loc EXCEPT ![p].ent = e]
       /\ Goto(p, IF root THEN "post_ix" ELSE Afterwards(e))
  /\ UNCHANGED <<tasks, deleted, index, dirty, lock, missed>>
PostIx(p) ==
  /\ pc[p] = "post_ix"
  /\ \/ Instead(p, Afterwards(loc[p].ent))
     \/ ~dirty["ORIGIN"] /\ Goto(p, "post_add") /\ UNCHANGED <<loc, missed>>
  /\ UNCHANGED <<tasks, changes, dir, deleted, lastid, index, dirty, lock>>
PostAdd(p) ==
  /\ pc[p] = "post_add" /\ lock["ORIGIN"] = Nobody
  /\ index' = [index EXCEPT !["ORIGIN"] = Append(@, loc[p].ent)]
  /\ IF \E e \in Range(index["ORIGIN"]) : e.id > loc[p].ent.id
     THEN Miss("order", {"ORIGIN"}) ELSE UNCHANGED missed
  /\ Goto(p, Afterwards(loc[p].ent))
  /\ UNCHANGED <<tasks, changes, dir, deleted, lastid, dirty, lock, loc>>

(* do_del_post.  Called for each article of a thread it has, and keeps,    *)
(* the lock of .DIR (needlock is FALSE).                                   *)
DelEntry(p) ==
  /\ Begin(p, {"delete", "thread"}) /\ lock["DIR"] = Nobody
  /\ \E i \in DOMAIN dir :
       /\ dir' = RemoveAt(dir, i)
       /\ deleted' = deleted \cup {dir[i]}
       /\ loc' = [loc EXCEPT ![p].ent = dir[i]]
       /\ Goto(p, IF dir[i].root THEN "del_ix" ELSE Afterwards(dir[i]))
       /\ IF \E q \in Procs : Adding(q, dir[i].id)
          THEN Miss("half", {"ORIGIN"}) ELSE UNCHANGED missed
  /\ IF "thread" \in tasks[p] THEN Lock(p, "DIR") ELSE UNCHANGED lock
  /\ UNCHANGED <<tasks, lastid, index, dirty>>

(* del_origin.  prepare_write_dir maps .ORIGIN and notes its size.         *)
DelIx(p) ==
  /\ pc[p] = "del_ix"
  /\ \/ Instead(p, Afterwards(loc[p].ent))
     \/ /\ ~dirty["ORIGIN"] /\ index["ORIGIN"] = <<>>
        /\ Goto(p, Afterwards(loc[p].ent)) /\ UNCHANGED <<loc, missed>>
     \/ /\ ~dirty["ORIGIN"] /\ index["ORIGIN"] # <<>>
        /\ loc' = [loc EXCEPT ![p].size = Len(index["ORIGIN"])]
        /\ Goto(p, "del_lock") /\ UNCHANGED missed
  /\ UNCHANGED <<tasks, changes, dir, deleted, lastid, index, dirty, lock>>

(* The lock, the search, the move and the cut. *)
DelLock(p) ==
  /\ pc[p] = "del_lock" /\ lock["ORIGIN"] = Nobody
  /\ LET view == View(index["ORIGIN"], loc[p].size) IN
     \/ \E i \in Hits(view, loc[p].ent.id) :
          index' = [index EXCEPT !["ORIGIN"] = RemoveAt(view, i)]
     \/ Gaps(view, loc[p].ent.id) # {} /\ UNCHANGED index
  /\ IF loc[p].size # Len(index["ORIGIN"])
     THEN Miss("stale", {"ORIGIN"}) ELSE UNCHANGED missed
  /\ Goto(p, Afterwards(loc[p].ent))
  /\ UNCHANGED <<tasks, changes, dir, deleted, lastid, dirty, lock, loc>>

(* The article was marked. *)
SetMark(p) ==
  /\ pc[p] = "set_mark"
  /\ SetDirty({"MARK"}) /\ Goto(p, "end")
  /\ UNCHANGED <<tasks, changes, dir, deleted, lastid, index, lock, loc>>
End(p) ==
  /\ pc[p] = "end"
  /\ loc' = [loc EXCEPT ![p] = Fresh] /\ Goto(p, "idle") /\ Unlock(p, Files)
  /\ UNCHANGED <<tasks, changes, dir, deleted, lastid, index, dirty, missed>>

-----------------------------------------------------------------------------
(* do_undel_post.  The entry is back where its id belongs; in an empty     *)
(* .DIR it is a new one.  That it is marked is told to nobody.             *)
Insert(e) ==
  \/ \E i \in Gaps(dir, e.id) : dir # <<>> /\ dir' = InsertAt(dir, i, e)
  \/ dir = <<>> /\ dir' = <<e>>
UndelEntry(p) ==
  /\ Begin(p, {"undelete"}) /\ lock["DIR"] = Nobody
  /\ \E e \in deleted :
       LET new == IF dir = <<>> THEN [e EXCEPT !.id = lastid + 1, !.root = TRUE] ELSE e IN
       /\ new.id <= MaxId /\ Insert(new)
       /\ lastid' = IF dir = <<>> THEN new.id ELSE lastid
       /\ deleted' = deleted \ {e}
       /\ loc' = [loc EXCEPT ![p].ent = new]
       /\ Goto(p, IF new.root THEN "undel_ix" ELSE "end")
       /\ missed' = [k \in Kinds |->
            \/ missed[k]
            \/ k = "MARK" /\ e.marked /\ "unmarked" \in Windows
            \/ /\ k = "ORIGIN" /\ "half" \in Windows
               /\ \E q \in Procs : Removing(q, e.id)]
  /\ UNCHANGED <<tasks, index, dirty, lock>>
UndelIx(p) ==
  /\ pc[p] = "undel_ix"
  /\ \/ Instead(p, "end")
     \/ ~dirty["ORIGIN"] /\ Goto(p, "undel_add") /\ UNCHANGED <<loc, missed>>
  /\ UNCHANGED <<tasks, changes, dir, deleted, lastid, index, dirty, lock>>

(* mmap_search_apply with insert_func; if .ORIGIN has the id already, or   *)
(* is empty, the article is appended there with an id of its own.          *)
UndelAdd(p) ==
  /\ pc[p] = "undel_add" /\ lock["ORIGIN"] = Nobody
  /\ LET e == loc[p].ent
         ix == index["ORIGIN"] IN
     \/ /\ ix # <<>> /\ \E i \in Gaps(ix, e.id) : index' = [index EXCEPT !["ORIGIN"] = InsertAt(@, i, e)]
        /\ UNCHANGED <<lastid, missed>>
     \/ /\ (ix = <<>> \/ Hits(ix, e.id) # {}) /\ lastid < MaxId
        /\ lastid' = lastid + 1
        /\ index' = [index EXCEPT !["ORIGIN"] = Append(@, [e EXCEPT !.id = lastid + 1])]
        /\ IF ix = <<>> THEN Miss("empty", {"ORIGIN"}) ELSE UNCHANGED missed
  /\ Goto(p, "end")
  /\ UNCHANGED <<tasks, changes, dir, deleted, dirty, lock, loc>>

-----------------------------------------------------------------------------
(* change_post_flag in .DIR: the flag of .MARK is set under the lock. *)
MarkWrite(p) ==
  /\ Begin(p, {"mark"}) /\ lock["DIR"] = Nobody
  /\ \E i \in DOMAIN dir : dir' = [dir EXCEPT ![i].marked = ~@]
  /\ Lock(p, "DIR") /\ Goto(p, "mark_dirty")
  /\ UNCHANGED <<tasks, deleted, lastid, index, dirty, missed, loc>>
MarkDirty(p) ==
  /\ pc[p] = "mark_dirty"
  /\ SetDirty({"MARK"}) /\ Goto(p, "end")
  /\ UNCHANGED <<tasks, changes, dir, deleted, lastid, index, lock, loc>>

(* The same in a derived index, whose entries are copies: the copy first,  *)
(* then, inside its lock, the entry of .DIR.                               *)
MarkIxMap(p, k) ==
  /\ Begin(p, {"mark_ix"})
  /\ \E e \in Range(index[k]) :
       loc' = [loc EXCEPT ![p].ent = e, ![p].ix = k, ![p].size = Len(index[k])]
  /\ Goto(p, "ix_lock")
  /\ UNCHANGED <<tasks, dir, deleted, lastid, index, dirty, lock, missed>>
MarkIxLock(p) ==
  LET k == loc[p].ix
      view == View(index[k], loc[p].size) IN
  /\ pc[p] = "ix_lock" /\ lock[k] = Nobody
  /\ \/ /\ \E i \in Hits(view, loc[p].ent.id) :
             index' = IF i > Len(index[k]) THEN index
                      ELSE [index EXCEPT ![k][i].marked = ~loc[p].ent.marked]
        /\ SetDirty({"MARK"}) /\ Lock(p, k) /\ Goto(p, "ix_dir")
     \/ /\ Gaps(view, loc[p].ent.id) # {}
        /\ Goto(p, "end") /\ UNCHANGED <<index, dirty, missed, lock>>
  /\ UNCHANGED <<tasks, changes, dir, deleted, lastid, loc>>
MarkIxDir(p) ==
  /\ pc[p] = "ix_dir" /\ lock["DIR"] = Nobody
  /\ \/ /\ \E i \in Hits(dir, loc[p].ent.id) : dir' = [dir EXCEPT ![i].marked = ~loc[p].ent.marked]
        /\ Lock(p, "DIR") /\ Goto(p, "mark_dirty")
     \/ /\ dir = <<>> \/ Gaps(dir, loc[p].ent.id) # {}
        /\ Goto(p, "end") /\ UNCHANGED <<dir, lock>>
  /\ UNCHANGED <<tasks, changes, deleted, lastid, index, dirty, missed, loc>>

(* delete_range with force, then both flags. *)
RangeEntries(p) ==
  /\ Begin(p, {"range"}) /\ lock["DIR"] = Nobody
  /\ \E i, j \in DOMAIN dir :
       /\ i <= j
       /\ dir' = SubSeq(dir, 1, i - 1) \o SubSeq(dir, j + 1, Len(dir))
       /\ deleted' = deleted \cup {dir[k] : k \in i .. j}
       /\ IF \E q \in Procs, k \in i .. j : Adding(q, dir[k].id)
          THEN Miss("half", {"ORIGIN"}) ELSE UNCHANGED missed
  /\ Goto(p, "range_dirty")
  /\ UNCHANGED <<tasks, lastid, index, dirty, lock, loc>>
RangeDirty(p) ==
  /\ pc[p] = "range_dirty"
  /\ SetDirty(Kinds) /\ Goto(p, "end")
  /\ UNCHANGED <<tasks, changes, dir, deleted, lastid, index, lock, loc>>

-----------------------------------------------------------------------------
(* The process has changed .DIR, and index k neither shows that nor is its *)
(* flag set.                                                               *)
Owes(p, k) ==
  \/ pc[p] = "range_dirty"
  \/ k = "ORIGIN" /\ pc[p] \in {"post_ix", "post_add", "del_ix", "del_lock", "undel_ix", "undel_add"}
  \/ k = "MARK" /\ pc[p] = "mark_dirty"
  \/ k = "MARK" /\ loc[p].ent.marked /\ pc[p] \notin {"idle", "end", "ix_lock", "ix_dir"}

(* A process dies; the kernel drops its locks. *)
Die(p) ==
  /\ pc[p] \notin {"idle", "end"}
  /\ Unlock(p, Files) /\ Goto(p, "idle")
  /\ loc' = [loc EXCEPT ![p] = Fresh]
  /\ Miss("death", {k \in Kinds : Owes(p, k)})
  /\ UNCHANGED <<tasks, changes, dir, deleted, lastid, index, dirty>>

(* The machine is started again: the shared memory is zero, the files are  *)
(* what they were.                                                         *)
Reboot ==
  /\ \A p \in Procs : pc[p] = "idle"
  /\ dirty' = [k \in Kinds |-> FALSE]
  /\ Miss("death", {k \in Kinds : dirty[k]})
  /\ UNCHANGED <<tasks, changes, dir, deleted, lastid, index, lock, pc, loc>>

Init ==
  /\ tasks \in Mixes /\ changes = 0
  /\ dir = Old /\ deleted = {} /\ lastid = LastOld
  /\ index = [k \in Kinds |-> Picked(k, Old)]
  /\ dirty = [k \in Kinds |-> FALSE]
  /\ lock = [f \in Files |-> Nobody]
  /\ missed = [k \in Kinds |-> FALSE]
  /\ pc = [p \in Procs |-> "idle"]
  /\ loc = [p \in Procs |-> Fresh]

Regen(p) == (\E k \in Kinds : Read(p, k)) \/ RegenLock(p) \/ RegenStat(p) \/ RegenRead(p) \/ RegenDone(p)
Post(p)  == PostEntry(p) \/ PostIx(p) \/ PostAdd(p)
Del(p)   == DelEntry(p) \/ DelIx(p) \/ DelLock(p) \/ SetMark(p) \/ End(p)
Undel(p) == UndelEntry(p) \/ UndelIx(p) \/ UndelAdd(p)
Mark(p)  == \/ MarkWrite(p) \/ MarkDirty(p) \/ (\E k \in Kinds : MarkIxMap(p, k))
            \/ MarkIxLock(p) \/ MarkIxDir(p)
Delete_Range(p) == RangeEntries(p) \/ RangeDirty(p)

Next == (\E p \in Procs : \/ Regen(p) \/ Post(p) \/ Del(p) \/ Undel(p)
                          \/ Mark(p) \/ Delete_Range(p) \/ Die(p))
        \/ Reboot

Spec == Init /\ [][Next]_vars

-----------------------------------------------------------------------------
(* Types of the variables; only a process at work holds a lock. *)
TypeOK ==
  /\ tasks \in Mixes /\ changes \in 0 .. MaxChanges
  /\ dir \in Seq(Entry) /\ deleted \subseteq Entry /\ lastid \in Nat
  /\ index \in [Kinds -> Seq(Entry)]
  /\ dirty \in [Kinds -> BOOLEAN] /\ missed \in [Kinds -> BOOLEAN]
  /\ lock \in [Files -> Procs \cup {Nobody}]
  /\ \A f \in Files : lock[f] # Nobody => pc[lock[f]] # "idle"
  /\ pc \in [Procs -> Stages]
  /\ loc \in [Procs -> [ent : Entry, size : Nat, ix : Kinds, then : Stages]]

Quiet == \A p \in Procs : pc[p] = "idle"

(* A clean .MARK lists exactly the marked articles of .DIR, in its order,  *)
(* whenever nobody is at work, unless a change of a mark fell into one of  *)
(* Windows since .MARK was last written (bcache.c:667, 724).               *)
MarkCurrent ==
  Quiet /\ ~dirty["MARK"] /\ ~missed["MARK"] =>
    index["MARK"] = Picked("MARK", dir)

(* A clean .ORIGIN lists the first articles of .DIR, each once, whenever   *)
(* nobody is at work, with the same exceptions.                            *)
OriginCurrent ==
  Quiet /\ ~dirty["ORIGIN"] /\ ~missed["ORIGIN"] =>
    /\ Ids(index["ORIGIN"]) = Derived("ORIGIN")
    /\ Len(index["ORIGIN"]) = Cardinality(Derived("ORIGIN"))

(* is_sorted_mode (article.c:80) allows a search by id in .ORIGIN. *)
OriginSorted == SortedById(index["ORIGIN"])

(* The lock a process waits for. *)
Wants(p) == CASE pc[p] = "regen_lock" -> loc[p].ix
              [] pc[p] = "ix_lock" -> loc[p].ix
              [] pc[p] \in {"regen_read", "ix_dir"} -> "DIR"
              [] pc[p] \in {"post_add", "del_lock", "undel_add"} -> "ORIGIN"
              [] OTHER -> "none"

(* Nobody waits for a lock of somebody who waits for one of his: there     *)
(* fcntl would fail, and its result is not looked at (article.c:172).      *)
NoCircularWait ==
  \A p, q \in Procs :
    p # q => ~(/\ Wants(p) \in {f \in Files : lock[f] = q}
               /\ Wants(q) \in {f \in Files : lock[f] = p})

-----------------------------------------------------------------------------
(* What the proofs in BoardIndex_proofs add. *)
Regenerates(p) == pc[p] \in {"regen_lock", "regen_stat", "regen_read", "regen_done"}
HasIndex(p)    == pc[p] \in {"regen_stat", "regen_read", "regen_done"}

(* Where a regeneration goes on, and who goes to tell of a mark.           *)
InOrder ==
  \A p \in Procs :
    /\ Regenerates(p) => loc[p].then \in {"end", "set_mark"}
    /\ pc[p] = "set_mark" \/ (Regenerates(p) /\ loc[p].then = "set_mark") => loc[p].ent.marked

(* Where those are who hold a lock; an index is clean only when no one is  *)
(* writing it again.                                                       *)
LocksHeld ==
  \A p \in Procs :
    /\ HasIndex(p) => lock[loc[p].ix] = p /\ dirty[loc[p].ix]
    /\ \A k \in Kinds : lock[k] = p =>
         loc[p].ix = k /\ (HasIndex(p) \/ pc[p] \in {"ix_dir", "mark_dirty", "end"})
    /\ lock["DIR"] = p =>
         \/ pc[p] \in {"mark_dirty", "end"}
         \/ /\ "thread" \in tasks[p]
            /\ \/ pc[p] \in {"del_ix", "del_lock", "set_mark"}
               \/ pc[p] \in {"regen_lock", "regen_stat", "regen_read"} /\ loc[p].ix = "ORIGIN"

(* A file is not cut to more than it has. *)
Fits ==
  \A p \in Procs : pc[p] = "regen_done" => loc[p].size <= Len(index[loc[p].ix])

(* Only delete_range makes .ORIGIN dirty. *)
OriginClean ==
  (\A p \in Procs : "range" \notin tasks[p]) =>
    /\ ~dirty["ORIGIN"]
    /\ \A p \in Procs : pc[p] # "range_dirty" /\ (Regenerates(p) => loc[p].ix = "MARK")
IndexMarkers ==
  \A p \in Procs : pc[p] \in {"ix_lock", "ix_dir"} => "mark_ix" \in tasks[p]

(* Who has changed the marks of .DIR and will set the flag of .MARK.       *)
WillSay(p) ==
  \/ pc[p] \in {"set_mark", "range_dirty", "mark_dirty"}
  \/ pc[p] \in {"post_ix", "post_add", "del_ix", "del_lock"} /\ loc[p].ent.marked
  \/ Regenerates(p) /\ loc[p].then = "set_mark"

(* While nobody has that before him a clean .MARK is right, and so is what *)
(* has been written of one that is about to become clean.                  *)
MarkInv ==
  ~missed["MARK"] /\ (\A p \in Procs : ~WillSay(p)) =>
    /\ ~dirty["MARK"] => index["MARK"] = Picked("MARK", dir)
    /\ \A p \in Procs : pc[p] = "regen_done" /\ loc[p].ix = "MARK" =>
         SubSeq(index["MARK"], 1, loc[p].size) = Picked("MARK", dir)

(* Those who have an article to add to .ORIGIN, and to take out of it. *)
Pending   == {p \in Procs : pc[p] \in ToAdd}
Obsolete  == {p \in Procs : pc[p] \in ToRemove}
IdsOf(ps) == {loc[p].ent.id : p \in ps}

(* No id above the counter, and none that is both in .DIR and in the bin.  *)
IdsInv ==
  /\ Rising(dir)
  /\ \A e \in Range(dir) \cup deleted : e.id <= lastid
  /\ \A e \in deleted : e.id \notin Ids(dir) /\ \A f \in deleted : e.id = f.id => e = f
  /\ \A p \in Pending \cup Obsolete : loc[p].ent.id <= lastid

(* What is to be added is in .DIR and added by one only, what is to be     *)
(* taken out is not there.                                                 *)
WorkInv ==
  ~missed["ORIGIN"] =>
    /\ IdsOf(Pending) \subseteq Derived("ORIGIN")
    /\ \A p, q \in Pending : loc[p].ent.id = loc[q].ent.id => p = q
    /\ IdsOf(Obsolete) \cap Ids(dir) = {}

(* A file that lists the articles that belong to .ORIGIN, but for adds,    *)
(* and perhaps removes.                                                    *)
Lists(file, belong, adds, removes) ==
  /\ Rising(file)
  /\ Ids(file) \cap adds = {}
  /\ belong \ adds \subseteq Ids(file)
  /\ Ids(file) \subseteq belong \cup removes

(* A clean .ORIGIN is right but for the work in progress, and so is what   *)
(* has been written of one that is about to become clean.                  *)
OriginInv ==
  ~missed["ORIGIN"] /\ (\A p \in Procs : pc[p] # "range_dirty") =>
    /\ ~dirty["ORIGIN"] =>
         Lists(index["ORIGIN"], Derived("ORIGIN"), IdsOf(Pending), IdsOf(Obsolete))
    /\ \A p \in Procs : pc[p] = "regen_done" /\ loc[p].ix = "ORIGIN" =>
         Lists(SubSeq(index["ORIGIN"], 1, loc[p].size),
               Derived("ORIGIN"), IdsOf(Pending), IdsOf(Obsolete))
=============================================================================
