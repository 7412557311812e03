------------------------------ MODULE BoardDir ------------------------------
(***************************************************************************)
(* The article index of one board, boards/<board>/.DIR, as the processes   *)
(* that serve the users read and write it (libBBS/article.c).              *)
(*                                                                         *)
(* Every user is served by a process of its own.  A process posts          *)
(* (after_post), deletes (do_del_post), flags (change_post_flag) and       *)
(* recovers articles (do_undel_post).  Deleting and flagging share         *)
(* prepare_write_dir, which maps the file and notes its size first, takes  *)
(* the fcntl write lock afterwards, and then finds the entry again.        *)
(*                                                                         *)
(* An action is what a process does between two points where the others    *)
(* can interfere: a lock, a map, an id taken from the shared counter, a    *)
(* rename of the article file.                                             *)
(***************************************************************************)
EXTENDS DirSearch, FiniteSets, Functions

CONSTANTS
  Procs,      \* the processes serving users
  Ops,        \* Ops[p]: what process p does, a subset of Operations
  Posts,      \* the article files
  Old,        \* Old[i]: the article with id i, posted before the model starts
  Bins,       \* recycle bins: "D" is .DELETED, "J" is .JUNK
  MaxId,      \* bound: no id above this one is handed out
  MaxTrash,   \* bound: nothing is deleted into a bin that has so many entries
  Crash,      \* TRUE: the machine may go down without flush_bcache, and a
              \* process may die while it moves entries
  NoPost, NoProc

Operations == {"post", "delete", "flag", "undelete"}

ASSUME OpsAssumption   == Ops \in [Procs -> SUBSET Operations]
ASSUME OldAssumption   == /\ Old \in Seq(Posts)
                          /\ \A i, j \in DOMAIN Old : Old[i] = Old[j] => i = j
ASSUME MaxIdAssumption == MaxId \in Nat /\ MaxTrash \in Nat
ASSUME BinsAssumption  == Bins \subseteq {"D", "J"}
ASSUME NoneAssumption  == NoPost \notin Posts /\ NoProc \notin Procs
ASSUME CrashAssumption == Crash \in BOOLEAN

VARIABLES
  dir,        \* the content of .DIR, a sequence of entries
  lock,       \* the holder of the write lock on .DIR, or NoProc
  nowid,      \* bstatus[].nowid in shared memory: the last id handed out
  idseq,      \* boardheader.idseq in .BOARDS: nowid as last flushed
  body,       \* body[f]: the name the article file has: M, D, J, or none
  trash,      \* trash[b]: the entries of .DELETED and .JUNK
  pc,         \* where each process is
  op,         \* the operation it is at
  tgt,        \* fileinfo: its copy of the entry it works on
  ent,        \* dirarg->ent: where it believes that entry to be, 0 if unknown
  size,       \* dirarg->size, in entries
  bin         \* the bin it deletes to or recovers from

shared == <<dir, lock, nowid, idseq, body, trash>>
local  == <<pc, op, tgt, ent, size, bin>>
vars   == <<dir, lock, nowid, idseq, body, trash, pc, op, tgt, ent, size, bin>>

(* A zero entry is what a file shows where it was never written.           *)
Entry == [id : Nat, name : Posts \cup {NoPost}, marked : BOOLEAN]
Zero  == [id |-> 0, name |-> NoPost, marked |-> FALSE]

Index == Range(dir)         \* the entries of .DIR
LastId == IF dir = <<>> THEN 0 ELSE dir[Len(dir)].id

(* The file as a process sees it through a mapping of n entries: the       *)
(* entries beyond the end of the file read as zero, if they are on the     *)
(* file's last page (if they are not, the access faults, see CanFault).    *)
View(n) == [i \in 1 .. n |-> IF i <= Len(dir) THEN dir[i] ELSE Zero]

(* An access to the mapping may raise SIGBUS: it reaches behind the file.  *)
CanFault(p) == size[p] > Len(dir)

At(p, here)      == pc[p] = here
Goto(p, there)   == pc' = [pc EXCEPT ![p] = there]
LockFree         == lock = NoProc
Keep             == UNCHANGED <<op, tgt, ent, size, bin>>

(* The function returns: its local variables are gone. *)
Finish(p) ==
  /\ pc' = [pc EXCEPT ![p] = "idle"]
  /\ op' = [op EXCEPT ![p] = "none"]
  /\ tgt' = [tgt EXCEPT ![p] = Zero]
  /\ ent' = [ent EXCEPT ![p] = 0]
  /\ size' = [size EXCEPT ![p] = 0]
  /\ bin' = [bin EXCEPT ![p] = "none"]

(* A local variable that has the same value in every process. *)
Everywhere(v) == [p \in Procs |-> v]

-----------------------------------------------------------------------------
(* Mutated forms of definitions below: one plausible bug each, which the   *)
(* properties must catch.                                                  *)
PostFiltered_FallsThrough(p) ==     \* boardname is not set to FILTER_BOARD
  /\ At(p, "post") /\ nowid < MaxId
  /\ body' = [body EXCEPT ![tgt[p].name] = "none"]
  /\ nowid' = nowid + 1
  /\ UNCHANGED <<dir, lock, idseq, trash>> /\ UNCHANGED local

InPlace_Trusting(p) ==              \* the position is used as it was picked
  ent[p] \in 1 .. size[p]

FlagCommit_WholeEntry(p) ==         \* the user's copy is written back
  /\ At(p, "commit") /\ op[p] = "flag"
  /\ dir' = [dir EXCEPT ![ent[p]] = [tgt[p] EXCEPT !.marked = ~@]]
  /\ lock' = NoProc
  /\ Finish(p)
  /\ UNCHANGED <<nowid, idseq, body, trash>>

UndelStart_NoCheck(p) ==            \* the file of the article is not looked for
  /\ At(p, "idle") /\ "undelete" \in Ops[p]
  /\ \E b \in Bins : \E r \in trash[b] :
       /\ r.name # NoPost
       /\ tgt' = [tgt EXCEPT ![p] = r]
       /\ bin' = [bin EXCEPT ![p] = b]
  /\ op' = [op EXCEPT ![p] = "undelete"]
  /\ Goto(p, "undel_rename")
  /\ UNCHANGED shared /\ UNCHANGED <<ent, size>>

UndelRename_Missing(p) ==           \* the file keeps its name
  /\ At(p, "undel_rename")
  /\ Goto(p, "undel_insert")
  /\ UNCHANGED shared /\ Keep

ReloadedId_LastOnly(seq) ==         \* idseq is not consulted
  IF dir = <<>> THEN seq ELSE LastId
ReloadedId_SeqOnly(seq)  == seq     \* the last entry is not consulted
ReloadedId_OneLess(seq)  ==         \* idseq is taken for the next free id
  IF dir = <<>> \/ seq > LastId + 1 THEN seq - 1 ELSE LastId + 1

-----------------------------------------------------------------------------
(* Posting: GET_POSTFILENAME creates the file of the article, then         *)
(* after_post adds its entry.                                              *)
PostStart(p) ==
  /\ At(p, "idle") /\ "post" \in Ops[p]
  /\ \E f \in Posts :
       /\ body[f] = "none"
       /\ body' = [body EXCEPT ![f] = "M"]
       /\ tgt' = [tgt EXCEPT ![p] = [id |-> 0, name |-> f, marked |-> FALSE]]
  /\ op' = [op EXCEPT ![p] = "post"]
  /\ Goto(p, "post")
  /\ UNCHANGED <<dir, lock, nowid, idseq, trash, ent, size, bin>>

(* writew_lock, then get_nextid. *)
PostTakeId(p) ==
  /\ At(p, "post") /\ LockFree /\ nowid < MaxId
  /\ lock' = p
  /\ nowid' = nowid + 1
  /\ tgt' = [tgt EXCEPT ![p].id = nowid + 1]
  /\ Goto(p, "post_append")
  /\ UNCHANGED <<dir, idseq, body, trash, op, ent, size, bin>>

(* lseek to the end, safewrite, un_lock. *)
PostAppend(p) ==
  /\ At(p, "post_append")
  /\ dir' = Append(dir, tgt[p])
  /\ lock' = NoProc
  /\ Finish(p)
  /\ UNCHANGED <<nowid, idseq, body, trash>>

(* The content filter diverts the article to the board FILTER_BOARD; an id *)
(* of this board is used up, without the lock on its .DIR.                 *)
PostFiltered(p) ==
  /\ At(p, "post") /\ nowid < MaxId
  /\ body' = [body EXCEPT ![tgt[p].name] = "none"]
  /\ nowid' = nowid + 1
  /\ Finish(p)
  /\ UNCHANGED <<dir, lock, idseq, trash>>

-----------------------------------------------------------------------------
(* prepare_write_dir, for an entry the user picked from the list earlier.  *)
(* The position may be known (delarg.ent = conf->pos) or not (ent = -1).   *)
Pick(p, o) ==
  /\ At(p, "idle") /\ o \in Ops[p]
  /\ \E i \in DOMAIN dir, known \in BOOLEAN :
       /\ dir[i].name # NoPost
       /\ tgt' = [tgt EXCEPT ![p] = dir[i]]
       /\ ent' = [ent EXCEPT ![p] = IF known THEN i ELSE 0]
  /\ op' = [op EXCEPT ![p] = o]
  /\ Goto(p, "map")
  /\ UNCHANGED <<dir, lock, nowid, idseq, body, trash, size>>

DelStart(p) == /\ Pick(p, "delete")
               /\ \E b \in Bins : /\ Cardinality(trash[b]) < MaxTrash
                                  /\ bin' = [bin EXCEPT ![p] = b]

FlagStart(p) == Pick(p, "flag") /\ UNCHANGED bin

(* malloc_write_dir_arg: fstat and mmap; an empty file cannot be mapped.   *)
MapDir(p) ==
  /\ At(p, "map")
  /\ \/ dir = <<>> /\ Finish(p)
     \/ /\ dir # <<>>
        /\ size' = [size EXCEPT ![p] = Len(dir)]
        /\ Goto(p, "lock")
        /\ UNCHANGED <<op, tgt, ent, bin>>
  /\ UNCHANGED shared

(* The entry is where it was: no search. *)
InPlace(p) ==
  ent[p] \in 1 .. size[p] /\ View(size[p])[ent[p]].name = tgt[p].name

(* The positions Search_Bin can come up with. *)
Located(p) ==
  IF InPlace(p) THEN {ent[p]} ELSE Hits(View(size[p]), tgt[p].id)

(* writew_lock and relocation. *)
Locate(p) ==
  /\ At(p, "lock") /\ LockFree
  /\ \E e \in Located(p) : ent' = [ent EXCEPT ![p] = e]
  /\ lock' = p
  /\ Goto(p, "commit")
  /\ UNCHANGED <<dir, nowid, idseq, body, trash, op, tgt, size, bin>>

(* The entry is gone, or the search ran into SIGBUS: un_lock, return -1.   *)
LocateFails(p) ==
  /\ At(p, "lock") /\ LockFree
  /\ ~InPlace(p)
  /\ CanFault(p) \/ Gaps(View(size[p]), tgt[p].id) # {}
  /\ Finish(p)
  /\ UNCHANGED shared

-----------------------------------------------------------------------------
(* change_post_flag: the flag takes the opposite of the value the user saw; *)
(* un_lock.                                                                *)
FlagCommit(p) ==
  /\ At(p, "commit") /\ op[p] = "flag"
  /\ dir' = [dir EXCEPT ![ent[p]].marked = ~tgt[p].marked]
  /\ lock' = NoProc
  /\ Finish(p)
  /\ UNCHANGED <<nowid, idseq, body, trash>>

(* do_del_post: the entry is copied and the rest of the mapping is moved   *)
(* over it.                                                                *)
DelMove(p) ==
  /\ At(p, "commit") /\ op[p] = "delete"
  /\ tgt' = [tgt EXCEPT ![p] = dir[ent[p]]]
  /\ dir' = MoveOver(dir, View(size[p]), ent[p])
  /\ Goto(p, "del_cut")
  /\ UNCHANGED <<lock, nowid, idseq, body, trash, op, ent, size, bin>>

(* ftruncate to one entry less than the mapping has (a file that is        *)
(* shorter by now grows, with zeros), un_lock.                             *)
DelCut(p) ==
  /\ At(p, "del_cut")
  /\ dir' = View(size[p] - 1)
  /\ lock' = NoProc
  /\ Goto(p, "del_rename")
  /\ UNCHANGED <<nowid, idseq, body, trash>> /\ Keep

(* SIGBUS in the memmove: what is in the file has moved up, the file is    *)
(* not cut, and do_del_post goes on.                                       *)
DelFault(p) ==
  /\ At(p, "commit") /\ op[p] = "delete" /\ CanFault(p)
  /\ tgt' = [tgt EXCEPT ![p] = dir[ent[p]]]
  /\ dir' = MoveOver(dir, dir, ent[p])
  /\ lock' = NoProc
  /\ Goto(p, "del_rename")
  /\ UNCHANGED <<nowid, idseq, body, trash, op, ent, size, bin>>

(* cancelpost: the article file is renamed to D... or J... *)
DelRename(p) ==
  /\ At(p, "del_rename")
  /\ LET f == tgt[p].name IN
       body' = IF f # NoPost /\ body[f] = "M"
               THEN [body EXCEPT ![f] = bin[p]] ELSE body
  /\ Goto(p, "del_trash")
  /\ UNCHANGED <<dir, lock, nowid, idseq, trash>> /\ Keep

(* cancelpost: append_record to .DELETED or .JUNK, under that file's lock. *)
DelTrash(p) ==
  /\ At(p, "del_trash")
  /\ trash' = [trash EXCEPT ![bin[p]] = @ \cup {tgt[p]}]
  /\ Finish(p)
  /\ UNCHANGED <<dir, lock, nowid, idseq, body>>

-----------------------------------------------------------------------------
(* do_undel_post: a recycle bin entry is chosen; the article file must     *)
(* still have the name of that bin (dashf).                                *)
UndelStart(p) ==
  /\ At(p, "idle") /\ "undelete" \in Ops[p]
  /\ \E b \in Bins : \E r \in trash[b] :
       /\ r.name # NoPost /\ body[r.name] = b
       /\ tgt' = [tgt EXCEPT ![p] = r]
       /\ bin' = [bin EXCEPT ![p] = b]
  /\ op' = [op EXCEPT ![p] = "undelete"]
  /\ Goto(p, "undel_rename")
  /\ UNCHANGED shared /\ UNCHANGED <<ent, size>>

(* f_mv back to M...; its result is ignored. *)
UndelRename(p) ==
  /\ At(p, "undel_rename")
  /\ LET f == tgt[p].name IN
       body' = IF body[f] = bin[p] THEN [body EXCEPT ![f] = "M"] ELSE body
  /\ Goto(p, "undel_insert")
  /\ UNCHANGED <<dir, lock, nowid, idseq, trash>> /\ Keep

(* mmap_search_apply locks, maps and searches; insert_func makes room      *)
(* where the id of the article belongs.                                    *)
UndelShift(p) ==
  /\ At(p, "undel_insert") /\ LockFree /\ dir # <<>>
  /\ \E low \in Gaps(dir, tgt[p].id) :
       /\ dir' = MakeRoom(dir, low)
       /\ ent' = [ent EXCEPT ![p] = low]
  /\ lock' = p
  /\ Goto(p, "undel_write")
  /\ UNCHANGED <<nowid, idseq, body, trash, op, tgt, size, bin>>

(* insert_func writes the entry; un_lock. *)
UndelWrite(p) ==
  /\ At(p, "undel_write")
  /\ dir' = [dir EXCEPT ![ent[p]] = tgt[p]]
  /\ lock' = NoProc
  /\ Finish(p)
  /\ UNCHANGED <<nowid, idseq, body, trash>>

(* mmap_search_apply finds the id taken and returns 0 without un_lock.     *)
UndelTaken(p) ==
  /\ At(p, "undel_insert") /\ LockFree
  /\ Hits(dir, tgt[p].id) # {}
  /\ lock' = p
  /\ Goto(p, "undel_append")
  /\ UNCHANGED <<dir, nowid, idseq, body, trash>> /\ Keep

(* mmap_search_apply cannot map an empty file: un_lock, 0. *)
UndelEmpty(p) ==
  /\ At(p, "undel_insert") /\ LockFree /\ dir = <<>>
  /\ Goto(p, "undel_append")
  /\ UNCHANGED shared /\ Keep

(* The recovered article then gets a new id at the end of the index; the   *)
(* lock is taken here, or still held.                                      *)
UndelAppend(p) ==
  /\ At(p, "undel_append") /\ lock \in {NoProc, p} /\ nowid < MaxId
  /\ nowid' = nowid + 1
  /\ dir' = Append(dir, [tgt[p] EXCEPT !.id = nowid + 1])
  /\ lock' = NoProc
  /\ Finish(p)
  /\ UNCHANGED <<idseq, body, trash>>

-----------------------------------------------------------------------------
(* A process is in the middle of moving entries: one is there twice. *)
Moving(p) == pc[p] \in {"del_cut", "undel_write"}

(* A process dies (SIGKILL, SIGHUP of a lost line): the kernel drops its   *)
(* lock, what it had not done yet is not done.  Between the move of the    *)
(* entries and the system call or the store after it, only with Crash.     *)
Die(p) ==
  /\ ~At(p, "idle") /\ (Moving(p) => Crash)
  /\ lock' = IF lock = p THEN NoProc ELSE lock
  /\ Finish(p)
  /\ UNCHANGED <<dir, nowid, idseq, body, trash>>

(* flush_bcache, by flushd once a day.  (The one when flushd is stopped is  *)
(* part of Reboot, and makes this one matter only before a PowerLoss.)     *)
FlushBcache ==
  /\ Crash /\ idseq' = nowid
  /\ UNCHANGED <<dir, lock, nowid, body, trash>> /\ UNCHANGED local

(* resolve_boards: the counter of a board in fresh shared memory. *)
ReloadedId(seq) ==
  IF dir = <<>> \/ seq > LastId + 1 THEN seq ELSE LastId + 1

(* The system is stopped and started: no process is left, the shared       *)
(* memory is built again.  When it is stopped in order, flushd flushes     *)
(* after the last user has gone.                                           *)
Restart(seq) ==
  /\ idseq' = seq
  /\ nowid' = ReloadedId(seq)
  /\ lock' = NoProc
  /\ pc' = Everywhere("idle") /\ op' = Everywhere("none")
  /\ tgt' = Everywhere(Zero)  /\ ent' = Everywhere(0)
  /\ size' = Everywhere(0)    /\ bin' = Everywhere("none")
  /\ UNCHANGED <<dir, body, trash>>

Reboot == (\A p \in Procs : ~Moving(p)) /\ Restart(nowid)

PowerLoss == Crash /\ Restart(idseq)

-----------------------------------------------------------------------------
(* Before the model starts the articles Old were posted in this order, and *)
(* some of them deleted again.                                             *)
OldEntry(i) == [id |-> i, name |-> Old[i], marked |-> FALSE]
OldId(f)    == CHOOSE i \in DOMAIN Old : Old[i] = f

Init ==
  \E kept \in SUBSET DOMAIN Old, b \in Bins :
    /\ dir \in [1 .. Cardinality(kept) -> {OldEntry(i) : i \in kept}]
    /\ \A i, j \in DOMAIN dir : i < j => dir[i].id < dir[j].id
    /\ trash = [c \in Bins |->
                  IF c = b THEN {OldEntry(i) : i \in DOMAIN Old \ kept} ELSE {}]
    /\ body = [f \in Posts |->
                 IF f \notin Range(Old) THEN "none"
                 ELSE IF OldId(f) \in kept THEN "M" ELSE b]
    /\ lock = NoProc
    /\ nowid = Len(Old)
    /\ idseq = 0
    /\ pc = Everywhere("idle") /\ op = Everywhere("none")
    /\ tgt = Everywhere(Zero)  /\ ent = Everywhere(0)
    /\ size = Everywhere(0)    /\ bin = Everywhere("none")

Post(p)     == \/ PostStart(p) \/ PostTakeId(p) \/ PostAppend(p)
               \/ PostFiltered(p)
Prepare(p)  == MapDir(p) \/ Locate(p) \/ LocateFails(p)
Delete(p)   == \/ DelStart(p) \/ DelMove(p) \/ DelCut(p) \/ DelFault(p)
               \/ DelRename(p) \/ DelTrash(p)
SetFlag(p)  == FlagStart(p) \/ FlagCommit(p)
Undelete(p) == \/ UndelStart(p) \/ UndelRename(p) \/ UndelShift(p)
               \/ UndelWrite(p) \/ UndelTaken(p) \/ UndelEmpty(p) \/ UndelAppend(p)

Next ==
  \/ \E p \in Procs :
       Post(p) \/ Prepare(p) \/ Delete(p) \/ SetFlag(p) \/ Undelete(p) \/ Die(p)
  \/ FlushBcache \/ Reboot \/ PowerLoss

Spec == Init /\ [][Next]_vars

-----------------------------------------------------------------------------
(* Types of the variables. *)
TypeOK ==
  /\ dir \in Seq(Entry)
  /\ lock \in Procs \cup {NoProc}
  /\ nowid \in Nat /\ idseq \in Nat
  /\ body \in [Posts -> {"none", "M", "D", "J"}]
  /\ trash \in [Bins -> SUBSET Entry]
  /\ pc \in [Procs -> {"idle", "post", "post_append", "map", "lock", "commit",
                       "del_cut", "del_rename", "del_trash", "undel_rename",
                       "undel_insert", "undel_write", "undel_append"}]
  /\ op \in [Procs -> Operations \cup {"none"}]
  /\ tgt \in [Procs -> Entry]
  /\ ent \in [Procs -> Nat]
  /\ size \in [Procs -> Nat]
  /\ bin \in [Procs -> {"D", "J", "none"}]

(* is_sorted_mode (article.c:77-94): .DIR can be searched by id, at every  *)
(* moment, whoever is in the middle of posting, deleting or recovering.    *)
IdsSorted == SortedById(dir)

(* An article has at most one entry in .DIR, however often it is deleted   *)
(* and recovered while others post, delete and flag - apart from the one   *)
(* next to itself that is being moved.                                     *)
IndexedOnce ==
  \A i, j \in DOMAIN dir : i < j /\ dir[i].name = dir[j].name =>
    /\ j = i + 1
    /\ \E p \in Procs : Moving(p) /\ lock = p

(* An entry of .DIR leads to an article: no reader finds the file renamed  *)
(* or not there yet, also after the death of the process at any point of   *)
(* posting, deleting (cancelpost renames) or recovering.                   *)
IndexedHasBody ==
  \A r \in Index : r.name \in Posts /\ body[r.name] = "M"

(* When prepare_write_dir returns 0 the entry at filearg->ent is the one   *)
(* of the article asked for, and stays it until un_lock: the list may have *)
(* shifted since the user saw it, no other article is flagged or deleted.  *)
LocatedIsTarget ==
  \A p \in Procs : At(p, "commit") =>
    /\ lock = p
    /\ ent[p] \in DOMAIN dir
    /\ dir[ent[p]].name = tgt[p].name

(* The comment on prepare_write_dir (article.c:147): it puts the file at   *)
(* the right position, locks it and returns the corresponding data - the   *)
(* mapping it returns is the locked file.                                  *)
PreparedDataCurrent ==
  \A p \in Procs : At(p, "commit") => size[p] = Len(dir)

(* The id of a new post (get_nextid in after_post) was never given to an   *)
(* article that is still in .DIR or in a recycle bin, restarts included.   *)
NewIdFresh ==
  [][\A p \in Procs : At(p, "post") /\ pc'[p] = "post_append" =>
       \A r \in Index \cup UNION {trash[b] : b \in Bins} : r.id < tgt'[p].id]_vars

-----------------------------------------------------------------------------
(* What the proofs in BoardDir_proofs add to the properties above to make  *)
(* them inductive.                                                         *)

(* Whoever changes .DIR holds the lock on it. *)
LockHeld ==
  \A p \in Procs :
    pc[p] \in {"post_append", "commit", "del_cut", "undel_write"} => lock = p

(* An entry that names an article has an id; only zero entries have none.  *)
Numbered(r) == r.name # NoPost => r.id > 0
EntriesNumbered ==
  /\ \A i \in DOMAIN dir : Numbered(dir[i])
  /\ \A b \in Bins : \A r \in trash[b] : Numbered(r)
  /\ \A p \in Procs : pc[p] \notin {"idle", "post"} => Numbered(tgt[p])

(* Processes between the mapping and the commit have something to look     *)
(* for, in a mapping that is not empty, and what they found is in the file. *)
InRange ==
  \A p \in Procs :
    /\ pc[p] \in {"map", "lock", "commit"} => tgt[p].name # NoPost
    /\ pc[p] \in {"lock", "commit", "del_cut"} => size[p] > 0
    /\ pc[p] \in {"commit", "undel_write"} => ent[p] \in DOMAIN dir

TypeInv == TypeOK /\ LockHeld /\ EntriesNumbered /\ InRange

(* Every entry in .DIR, in a bin or in a process's hands. *)
InBins  == UNION {trash[b] : b \in Bins}
InHands == {tgt[p] : p \in Procs}
Known   == Index \cup InBins \cup InHands

(* Without a power loss no id is above the counter, and an id never names  *)
(* two articles.                                                           *)
IdsBounded == \A r \in Known : r.id <= nowid
IdNamesOne == \A r, s \in Known : r.id = s.id /\ r.id > 0 => r.name = s.name

IdInv == IdsBounded /\ IdNamesOne /\ LocatedIsTarget

(* An id taken under the lock is above all ids in .DIR until the entry is  *)
(* appended.                                                               *)
TakenIsLast ==
  \A p \in Procs : At(p, "post_append") =>
    \A i \in DOMAIN dir : dir[i].id < tgt[p].id

(* The deleting process, if it is the only one, maps nothing that is not   *)
(* in the file.                                                            *)
Deleting(p) == op[p] = "delete" /\ pc[p] \in {"lock", "commit", "del_cut"}
SizeCurrent ==
  \A p \in Procs :
    /\ op[p] = "delete" => "delete" \in Ops[p]
    /\ At(p, "del_cut") => op[p] = "delete"
    /\ Deleting(p) => size[p] <= Len(dir)

(* The room made by insert_func is where the article belongs. *)
RoomFits ==
  \A p \in Procs : At(p, "undel_write") =>
    \A i \in DOMAIN dir : /\ i < ent[p] => dir[i].id <= tgt[p].id
                          /\ i > ent[p] => tgt[p].id <= dir[i].id

SortInv == IdsSorted /\ TakenIsLast /\ SizeCurrent /\ RoomFits

(* A process has an article in hand that is on its way into .DIR or has    *)
(* just been taken out of it.  Nobody else has it in hand, its file has    *)
(* the name the process left it with, and it is not in .DIR - but for the  *)
(* entry behind those that were moved, until the file is cut.              *)
InHand(p) == pc[p] \in {"post", "post_append", "del_cut", "del_rename",
                        "undel_rename", "undel_insert", "undel_write", "undel_append"}
HandsOff ==
  \A p \in Procs : InHand(p) =>
    /\ tgt[p].name \in Posts
    /\ At(p, "undel_rename") => "undelete" \in Ops[p] /\ bin[p] \in Bins
    /\ body[tgt[p].name] = IF At(p, "undel_rename") THEN bin[p] ELSE "M"
    /\ \A i \in DOMAIN dir :
         dir[i].name = tgt[p].name => At(p, "del_cut") /\ i = size[p]
OneHand ==
  \A p, q \in Procs : InHand(p) /\ InHand(q) /\ tgt[p].name = tgt[q].name => p = q

(* The entry that is there twice is the one next to the room made, or the  *)
(* last one moved.                                                         *)
TwiceWhere ==
  \A i, j \in DOMAIN dir : i < j /\ dir[i].name = dir[j].name =>
    \A p \in Procs : /\ At(p, "undel_write") => ent[p] \in {i, j}
                     /\ At(p, "del_cut") => size[p] = j

(* What was located is in the mapping.                                     *)
EntMapped == \A p \in Procs : At(p, "commit") => ent[p] \in 1 .. size[p]

OnceInv == IndexedOnce /\ IndexedHasBody /\ HandsOff /\ OneHand /\ TwiceWhere

(* A process posts or recovers only if that is what it does. *)
RoleKept ==
  \A p \in Procs :
    /\ pc[p] \in {"post", "post_append"} => "post" \in Ops[p]
    /\ pc[p] \in {"undel_rename", "undel_insert", "undel_write", "undel_append"}
         => "undelete" \in Ops[p]

(* With one writer, the mapping of a deletion is the whole file. *)
SizeExact == \A p \in Procs : Deleting(p) => size[p] = Len(dir)

(* The entry that makes room is there a second time. *)
RoomMade ==
  \A p \in Procs : At(p, "undel_write") =>
    \E k \in DOMAIN dir \ {ent[p]} : dir[k] = dir[ent[p]]

WholeInv == RoleKept /\ SizeExact /\ RoomMade

-----------------------------------------------------------------------------
(* The index changes one entry at a time, as Board promises.               *)
Promise == INSTANCE Board WITH index <- Index
OneEntryAtATime == Promise!Spec
=============================================================================
