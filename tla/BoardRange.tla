----------------------------- MODULE BoardRange -----------------------------
(***************************************************************************)
(* Range operations of board managers on .DIR and .DIGEST (src/bm.c,       *)
(* delete_range_base in libBBS/article.c), beside users who mark single    *)
(* articles or put them into the digest (change_post_flag) and post.       *)
(*                                                                         *)
(* delete_range_base takes the size and the time of the file first and     *)
(* the lock afterwards, works on that many entries, appends what it takes  *)
(* out to .DELETED, and cuts the file to a length computed from that size. *)
(*                                                                         *)
(* The locks are fcntl locks: where two processes would wait for each      *)
(* other the second call fails with EDEADLK; writew_lock's callers in      *)
(* change_post_flag and append_record go on without the lock.              *)
(***************************************************************************)
EXTENDS DirSearch, FiniteSets, Functions

CONSTANTS
  Procs,      \* the processes
  Mixes,      \* what they may be there for
  Old,        \* the number of articles there are at first
  Nobody

RangeModes == {"token", "range", "force", "mpdel", "clear"}
Files == {"DIR", "DIGEST", "DELETED"}
Jobs  == {"DIR", "DIGEST",      \* a manager, who performs one range operation on it
          "marked", "digest",   \* a user who toggles this flag of one article
          "post", "none"}

(* job: what each process is there for; modes: the range operations the    *)
(* managers choose from; digested: the articles in the digest at first.    *)
Mix == [job : [Procs -> Jobs], modes : SUBSET RangeModes, digested : SUBSET (1 .. Old)]

ASSUME MixAssumption    == Mixes \subseteq Mix
ASSUME OldAssumption    == Old \in Nat
ASSUME NobodyAssumption == Nobody \notin Procs

VARIABLES
  mix,        \* which of the mixes it is
  file,       \* the index files, sequences of entries
  holder,     \* who has the write lock of each
  posted,     \* how many articles were posted; they have the ids 1 .. posted
  pc,         \* where each process is
  loc         \* its local variables

vars == <<mix, file, holder, posted, pc, loc>>

Managers  == {p \in Procs : mix.job[p] \in {"DIR", "DIGEST"}}
Markers   == {p \in Procs : mix.job[p] \in {"marked", "digest"}}
Posters   == {p \in Procs : mix.job[p] = "post"}
Source(m) == mix.job[m]
Flag(u)   == mix.job[u]

Entry == [id : Nat, marked : BOOLEAN, digest : BOOLEAN, del : BOOLEAN]
New(n)  == [id |-> n, marked |-> FALSE, digest |-> FALSE, del |-> FALSE]
Zero    == New(0)       \* what a file shows where it was never written
Ids(f)  == {e.id : e \in Range(file[f])}

(* look: the list the user saw; from, to: the range chosen in it; size:    *)
(* st_src.st_size or dirarg->size, in entries; sel: tab, the entries taken *)
(* out; todo: the digest articles whose originals are to be changed; ent:  *)
(* dirarg->ent; tgt: the user's copy of the entry he works on.             *)
Local == [look : Seq(Entry), from : Nat, to : Nat, mode : RangeModes \cup {"none"},
          over : BOOLEAN, check : BOOLEAN, size : Nat, sel : SUBSET (Nat \ {0}),
          todo : SUBSET Nat, ent : Nat, tgt : Entry]
Fresh == [look |-> <<>>, from |-> 0, to |-> 0, mode |-> "none",
          over |-> FALSE, check |-> TRUE, size |-> 0, sel |-> {},
          todo |-> {}, ent |-> 0, tgt |-> Zero]

(* The numbers of a set, from the smallest to the largest.                 *)
InOrder(S) ==
  CHOOSE q \in [1 .. Cardinality(S) -> S] :
    Range(q) = S /\ \A i, j \in DOMAIN q : i < j => q[i] < q[j]

(* A file through a mapping of n entries, and its entries n in a file that *)
(* was cut to n entries or extended to that length.                        *)
View(f, n) == [i \in 1 .. n |-> IF i <= Len(file[f]) THEN file[f][i] ELSE Zero]

Goto(p, there)  == pc' = [pc EXCEPT ![p] = there]
Lock(p, f)      == holder' = [holder EXCEPT ![f] = p]
Unlock_Never(p, fs) == UNCHANGED holder     \* (mutated)
Unlock(p, fs)   == holder' = [f \in Files |-> IF f \in fs /\ holder[f] = p
                                             THEN Nobody ELSE holder[f]]

(* The file a process waits for; where fcntl finds the wait circular.      *)
Wants(p) == CASE pc[p] = "lock" /\ p \in Managers -> Source(p)
              [] pc[p] = "lock_bin" -> "DELETED"
              [] pc[p] \in {"orig_lock", "flag_lock"} -> "DIR"
              [] pc[p] = "digest_lock" -> "DIGEST"
              [] OTHER -> "none"
Deadlocked(p, f) ==
  \E q \in Procs : holder[f] = q /\ Wants(q) \in {g \in Files : holder[g] = p}
LockOrFail(p, f) ==
  \/ holder[f] = Nobody /\ Lock(p, f)
  \/ Deadlocked(p, f) /\ UNCHANGED holder

-----------------------------------------------------------------------------
(* A manager chooses a range in the list he sees, and what to do.          *)
Choose(m) ==
  /\ m \in Managers /\ pc[m] = "idle"
  /\ \E a, b \in DOMAIN file[Source(m)], mode \in mix.modes, over \in BOOLEAN :
       /\ a <= b
       /\ loc' = [loc EXCEPT ![m].look = file[Source(m)], ![m].from = a,
                             ![m].to = b, ![m].mode = mode, ![m].over = over]
  /\ Goto(m, "stat")
  /\ UNCHANGED <<mix, file, holder, posted>>

(* The file is looked at again.  A change is seen by its time, which is in *)
(* seconds: one in the same second is not.                                 *)
Changed(m) == loc[m].look # file[Source(m)]
Stat(m) ==
  /\ m \in Managers /\ pc[m] = "stat"
  /\ loc' = [loc EXCEPT ![m].size = Len(file[Source(m)])]
  /\ \/ Goto(m, "lock")
     \/ loc[m].check /\ Changed(m) /\ Goto(m, "refused")
  /\ UNCHANGED <<mix, file, holder, posted>>

(* The manager is told that the list has changed and insists or gives up.  *)
Insist(m) ==
  /\ m \in Managers /\ pc[m] = "refused"
  /\ loc' = [loc EXCEPT ![m].check = FALSE]
  /\ Goto(m, "stat")
  /\ UNCHANGED <<mix, file, holder, posted>>
GiveUp(m) ==
  /\ m \in Managers /\ pc[m] = "refused"
  /\ loc' = [loc EXCEPT ![m] = Fresh] /\ Goto(m, "done")
  /\ UNCHANGED <<mix, file, holder, posted>>

(* The lock, and the end of the range; if it is empty nothing is done.     *)
InRange(m) == loc[m].from .. (IF loc[m].to > loc[m].size THEN loc[m].size ELSE loc[m].to)
TakesOut(m) == loc[m].mode \in {"token", "range", "force"}
HasBin(m)   == Source(m) = "DIR" /\ TakesOut(m)
LockSource(m) ==
  /\ m \in Managers /\ pc[m] = "lock" /\ holder[Source(m)] = Nobody
  /\ IF InRange(m) = {}
     THEN loc' = [loc EXCEPT ![m] = Fresh] /\ Goto(m, "done") /\ UNCHANGED holder
     ELSE /\ Lock(m, Source(m)) /\ UNCHANGED loc
          /\ Goto(m, IF HasBin(m) THEN "lock_bin"
                     ELSE IF TakesOut(m) THEN "take_out" ELSE "tokens")
  /\ UNCHANGED <<mix, file, posted>>

LockBin_Early(m) ==             \* (mutated: .DIR is let go of)
  /\ m \in Managers /\ pc[m] = "lock_bin" /\ holder["DELETED"] = Nobody
  /\ holder' = [holder EXCEPT !["DELETED"] = m, !["DIR"] = Nobody]
  /\ Goto(m, "take_out")
  /\ UNCHANGED <<mix, file, posted, loc>>
LockBin(m) ==
  /\ m \in Managers /\ pc[m] = "lock_bin" /\ holder["DELETED"] = Nobody
  /\ Lock(m, "DELETED")
  /\ Goto(m, "take_out")
  /\ UNCHANGED <<mix, file, posted, loc>>

(* DRBP_UNDEL: an entry that stays, in the modes that ask.                 *)
Undeletable_Seen(m, i) ==       \* (mutated: the marks are those the user saw)
  LET e == IF i \in DOMAIN loc[m].look THEN loc[m].look[i] ELSE Zero IN
  \/ loc[m].mode = "token" /\ ~e.del
  \/ ~(loc[m].over /\ loc[m].mode \in {"token", "mpdel"}) /\ e.marked
Undeletable(m, i) ==
  LET e == View(Source(m), loc[m].size)[i] IN
  \/ loc[m].mode = "token" /\ ~e.del
  \/ /\ ~(loc[m].over /\ loc[m].mode \in {"token", "mpdel"})
     /\ e.marked
Selected(m) ==
  {i \in InRange(m) : loc[m].mode = "force" \/ ~Undeletable(m, i)}

(* The article files are renamed or, without a bin, removed, and the       *)
(* entries appended to the bin.                                            *)
TakeOut(m) ==
  /\ m \in Managers /\ pc[m] = "take_out"
  /\ LET view == View(Source(m), loc[m].size)
         out  == InOrder(Selected(m)) IN
       /\ file' = IF ~HasBin(m) THEN file
                  ELSE [file EXCEPT !["DELETED"] =
                          @ \o [i \in DOMAIN out |-> view[out[i]]]]
       /\ loc' = [loc EXCEPT ![m].sel = Selected(m),
                             ![m].todo = {view[i].id : i \in Selected(m)}]
  /\ Unlock(m, {"DELETED"})
  /\ Goto(m, IF Source(m) = "DIGEST" THEN "originals" ELSE "compact")
  /\ UNCHANGED <<mix, posted>>

(* A range of .DIGEST: the flag of each original is cleared, by            *)
(* change_post_flag, which locks .DIR and looks for the id.  .DIR is       *)
(* mapped by the first call, and the mapping kept for the others.          *)
Original(m) ==
  /\ m \in Managers /\ pc[m] = "originals" /\ loc[m].todo # {}
  /\ loc[m].ent > 0 \/ file["DIR"] # <<>>
  /\ loc' = [loc EXCEPT ![m].ent = IF @ = 0 THEN Len(file["DIR"]) ELSE @]
  /\ Goto(m, "orig_lock")
  /\ UNCHANGED <<mix, file, holder, posted>>
OriginalLock(m) ==
  /\ m \in Managers /\ pc[m] = "orig_lock"
  /\ LockOrFail(m, "DIR")
  /\ Goto(m, "orig_flag")
  /\ UNCHANGED <<mix, file, posted, loc>>
OriginalFlag_Kept(m) ==         \* (mutated: the flag of the original is left)
  /\ m \in Managers /\ pc[m] = "orig_flag"
  /\ loc' = [loc EXCEPT ![m].todo = {}]
  /\ Unlock(m, {"DIR"}) /\ Goto(m, "originals")
  /\ UNCHANGED <<mix, file, posted>>
OriginalFlag(m) ==
  /\ m \in Managers /\ pc[m] = "orig_flag"
  /\ LET view == View("DIR", loc[m].ent)
         id == CHOOSE id \in loc[m].todo : \A x \in loc[m].todo : id <= x IN
       /\ \/ \E i \in Hits(view, id) :
               file' = IF i > Len(file["DIR"]) THEN file
                       ELSE [file EXCEPT !["DIR"][i].digest = FALSE]
          \/ Gaps(view, id) # {} /\ UNCHANGED file
       /\ loc' = [loc EXCEPT ![m].todo = @ \ {id}]
  /\ Unlock(m, {"DIR"})
  /\ Goto(m, "originals")
  /\ UNCHANGED <<mix, posted>>
OriginalsDone(m) ==     \* or .DIR, being empty, cannot be mapped
  /\ m \in Managers /\ pc[m] = "originals"
  /\ \/ loc[m].todo = {}
     \/ loc[m].ent = 0 /\ file["DIR"] = <<>>
  /\ Goto(m, "compact")
  /\ UNCHANGED <<mix, file, holder, posted, loc>>

(* The entries that stay are moved together and the file is cut.  They     *)
(* lose the token of the range they are in, except in force mode.          *)
Compacted_All(m) == View(Source(m), loc[m].size - Cardinality(loc[m].sel))   \* (mutated: nothing moved up)
Compacted(m) ==
  LET view == View(Source(m), loc[m].size)
      kept == InOrder((1 .. loc[m].size) \ loc[m].sel)
  IN  [k \in DOMAIN kept |->
         IF kept[k] \in InRange(m) THEN [view[kept[k]] EXCEPT !.del = FALSE]
         ELSE view[kept[k]]]
Compact(m) ==
  /\ m \in Managers /\ pc[m] = "compact"
  /\ file' = [file EXCEPT ![Source(m)] = Compacted(m)]
  /\ Unlock(m, Files) /\ Goto(m, "done")
  /\ loc' = [loc EXCEPT ![m] = Fresh]
  /\ UNCHANGED <<mix, posted>>

(* The modes that only set or clear the token.                             *)
Tokens(m) ==
  /\ m \in Managers /\ pc[m] = "tokens"
  /\ file' = [file EXCEPT ![Source(m)] =
       [i \in DOMAIN @ |->
          IF i \in InRange(m)
          THEN [@[i] EXCEPT !.del = loc[m].mode = "mpdel" /\ ~Undeletable(m, i)]
          ELSE @[i]]]
  /\ Unlock(m, Files) /\ Goto(m, "done")
  /\ loc' = [loc EXCEPT ![m] = Fresh]
  /\ UNCHANGED <<mix, posted>>

(* The mapping reaches behind the end of the file, which was cut by then:  *)
(* on another page the access raises SIGBUS, and the process ends.         *)
Fault(m) ==
  /\ m \in Managers /\ pc[m] \in {"take_out", "tokens"}
  /\ loc[m].size > Len(file[Source(m)])
  /\ Unlock(m, Files) /\ Goto(m, "done")
  /\ loc' = [loc EXCEPT ![m] = Fresh]
  /\ UNCHANGED <<mix, file, posted>>

-----------------------------------------------------------------------------
(* A user toggles a flag of an article in his list: change_post_flag maps  *)
(* .DIR, locks it and looks for the entry by its id.                       *)
Toggle(u) ==
  /\ u \in Markers /\ pc[u] = "idle"
  /\ \E e \in Range(file["DIR"]) :
       loc' = [loc EXCEPT ![u].tgt = e]
  /\ Goto(u, "flag_map")
  /\ UNCHANGED <<mix, file, holder, posted>>
FlagMap(u) ==
  /\ u \in Markers /\ pc[u] = "flag_map"
  /\ loc' = [loc EXCEPT ![u].size = Len(file["DIR"])]
  /\ Goto(u, "flag_lock")
  /\ UNCHANGED <<mix, file, holder, posted>>
FlagLock(u) ==
  /\ u \in Markers /\ pc[u] = "flag_lock"
  /\ LockOrFail(u, "DIR")
  /\ Goto(u, "flag_find")
  /\ UNCHANGED <<mix, file, posted, loc>>
FlagFind(u) ==
  /\ u \in Markers /\ pc[u] = "flag_find"
  /\ LET view == View("DIR", loc[u].size) IN
       \/ /\ \E i \in Hits(view, loc[u].tgt.id) \cap DOMAIN file["DIR"] :
               loc' = [loc EXCEPT ![u].ent = i]
          /\ Goto(u, IF Flag(u) = "marked" THEN "flag_mark"
                     ELSE IF loc[u].tgt.digest THEN "digest_clear" ELSE "digest_lock")
          /\ UNCHANGED holder
       \/ /\ Gaps(view, loc[u].tgt.id) # {} \/ loc[u].size > Len(file["DIR"])
          /\ Unlock(u, {"DIR"}) /\ Goto(u, "done")
          /\ loc' = [loc EXCEPT ![u] = Fresh]
  /\ UNCHANGED <<mix, file, posted>>

SetFlag(u, flag, value) ==
  file' = [file EXCEPT !["DIR"][loc[u].ent] = [@ EXCEPT ![flag] = value]]
Finish(u) == Unlock(u, Files) /\ Goto(u, "done") /\ loc' = [loc EXCEPT ![u] = Fresh]

FlagMark(u) ==
  /\ u \in Markers /\ pc[u] = "flag_mark"
  /\ SetFlag(u, "marked", ~loc[u].tgt.marked) /\ Finish(u)
  /\ UNCHANGED <<mix, posted>>

(* add_digest: append_record locks .DIGEST for the time of the write, then *)
(* the flag is set.                                                        *)
DigestLock_First(u) ==          \* (mutated: the flag is set before the record)
  /\ u \in Markers /\ pc[u] = "digest_lock"
  /\ LockOrFail(u, "DIGEST") /\ SetFlag(u, "digest", TRUE)
  /\ Goto(u, "digest_add")
  /\ UNCHANGED <<mix, posted, loc>>
DigestLock(u) ==
  /\ u \in Markers /\ pc[u] = "digest_lock"
  /\ LockOrFail(u, "DIGEST")
  /\ Goto(u, "digest_add")
  /\ UNCHANGED <<mix, file, posted, loc>>
DigestAdd(u) ==
  /\ u \in Markers /\ pc[u] = "digest_add"
  /\ file' = [file EXCEPT !["DIGEST"] =
                Append(@, New(file["DIR"][loc[u].ent].id))]
  /\ Unlock(u, {"DIGEST"}) /\ Goto(u, "digest_flag")
  /\ UNCHANGED <<mix, posted, loc>>
DigestFlag(u) ==
  /\ u \in Markers /\ pc[u] = "digest_flag"
  /\ SetFlag(u, "digest", TRUE) /\ Finish(u)
  /\ UNCHANGED <<mix, posted>>

(* The flag is cleared, then dele_digest removes the record with           *)
(* delete_record, which takes no lock: it moves the rest of the file up    *)
(* and cuts the file by one entry, as long as it was when it was mapped.   *)
DigestClear(u) ==
  /\ u \in Markers /\ pc[u] = "digest_clear"
  /\ SetFlag(u, "digest", FALSE)
  /\ Goto(u, "digest_map")
  /\ UNCHANGED <<mix, holder, posted, loc>>
DigestMap(u) ==
  /\ u \in Markers /\ pc[u] = "digest_map"
  /\ IF loc[u].tgt.id \in Ids("DIGEST")
     THEN /\ loc' = [loc EXCEPT ![u].size = Len(file["DIGEST"])]
          /\ Goto(u, "digest_shift") /\ UNCHANGED holder
     ELSE Finish(u)
  /\ UNCHANGED <<mix, file, posted>>
DigestShift(u) ==
  /\ u \in Markers /\ pc[u] = "digest_shift"
  /\ LET view == View("DIGEST", loc[u].size)
         hits == {i \in 1 .. loc[u].size : view[i].id = loc[u].tgt.id} IN
       IF hits = {} THEN Finish(u) /\ UNCHANGED file
       ELSE LET e == CHOOSE i \in hits : \A j \in hits : i <= j IN
            /\ file' = [file EXCEPT !["DIGEST"] = MoveOver(@, view, e)]
            /\ Goto(u, "digest_cut") /\ UNCHANGED <<holder, loc>>
  /\ UNCHANGED <<mix, posted>>
DigestCut(u) ==
  /\ u \in Markers /\ pc[u] = "digest_cut"
  /\ file' = [file EXCEPT !["DIGEST"] = View("DIGEST", loc[u].size - 1)]
  /\ Finish(u)
  /\ UNCHANGED <<mix, posted>>

(* after_post, which takes the id and appends in one hold of the lock.     *)
Post(q) ==
  /\ q \in Posters /\ pc[q] = "idle" /\ holder["DIR"] = Nobody
  /\ posted' = posted + 1
  /\ file' = [file EXCEPT !["DIR"] = Append(@, New(posted + 1))]
  /\ Goto(q, "done")
  /\ UNCHANGED <<mix, holder, loc>>

-----------------------------------------------------------------------------
Init ==
  /\ mix \in Mixes
  /\ posted = Old
  /\ file = [f \in Files |->
       CASE f = "DIR"     -> [i \in 1 .. Old |-> [New(i) EXCEPT !.digest = i \in mix.digested]]
         [] f = "DIGEST"  -> LET ids == InOrder(mix.digested)
                             IN  [k \in DOMAIN ids |-> New(ids[k])]
         [] f = "DELETED" -> <<>>]
  /\ holder = [f \in Files |-> Nobody]
  /\ pc = [p \in Procs |-> "idle"]
  /\ loc = [p \in Procs |-> Fresh]

Range_(m) == \/ Choose(m) \/ Stat(m) \/ Insist(m) \/ GiveUp(m) \/ LockSource(m)
             \/ LockBin(m) \/ TakeOut(m) \/ Original(m) \/ OriginalLock(m)
             \/ OriginalFlag(m) \/ OriginalsDone(m) \/ Compact(m) \/ Tokens(m)
             \/ Fault(m)
SetsFlag(u) == \/ Toggle(u) \/ FlagMap(u) \/ FlagLock(u) \/ FlagFind(u) \/ FlagMark(u)
               \/ DigestLock(u) \/ DigestAdd(u) \/ DigestFlag(u)
               \/ DigestClear(u) \/ DigestMap(u) \/ DigestShift(u) \/ DigestCut(u)

Next == \E p \in Procs : Range_(p) \/ SetsFlag(p) \/ Post(p)

Spec == Init /\ [][Next]_vars

-----------------------------------------------------------------------------
(* Where a process can be: on an index file, under its lock; at the flag   *)
(* of an article, under the lock of .DIR; or without a lock.               *)
OnSource == {"lock_bin", "take_out", "originals", "orig_lock", "orig_flag", "compact", "tokens"}
Flagging == {"flag_find", "flag_mark", "digest_lock", "digest_add", "digest_flag",
             "digest_clear", "digest_map", "digest_shift", "digest_cut"}
Stages   == {"idle", "stat", "refused", "lock", "flag_map", "flag_lock", "done"} \cup OnSource \cup Flagging

(* Types of the variables; only a process at work holds a lock. *)
TypeOK ==
  /\ mix \in Mixes
  /\ pc \in [Procs -> Stages]
  /\ \A f \in Files : holder[f] # Nobody => pc[holder[f]] \notin {"idle", "refused", "done"}
  /\ file \in [Files -> Seq(Entry)]
  /\ holder \in [Files -> Procs \cup {Nobody}]
  /\ posted \in Nat
  /\ loc \in [Procs -> Local]

(* An article is in .DIR or in .DELETED, once, whenever nobody is at work  *)
(* on .DIR: ranges that overlap are not deleted twice, and what is behind  *)
(* a range is moved up completely.                                         *)
Once(f) == \A i, j \in DOMAIN file[f] :
             file[f][i].id = file[f][j].id /\ file[f][i].id # 0 => i = j
NothingLost ==
  holder["DIR"] = Nobody =>
    /\ Once("DIR") /\ Once("DELETED")
    /\ Ids("DIR") \cap Ids("DELETED") \subseteq {0}
    /\ 1 .. posted \subseteq Ids("DIR") \cup Ids("DELETED")

(* A marked article leaves .DIR only if a manager forces it or extends his *)
(* rights over marked articles (DRBP_UNDEL).                               *)
MarkedStay ==
  [][\A e \in Range(file["DIR"]) :
       e.marked /\ e.id # 0 /\ e.id \notin {d.id : d \in Range(file'["DIR"])} =>
         \E m \in Managers : /\ pc[m] = "compact"
                             /\ \/ loc[m].mode = "force"
                                \/ loc[m].mode = "token" /\ loc[m].over]_vars

(* An article with the digest flag is in the digest: set_article_flag and  *)
(* change_post_flag take the flag for that (article.c:3022).               *)
FlagMeansDigest ==
  \A e \in Range(file["DIR"]) : e.digest => e.id \in Ids("DIGEST")

(* What is taken out of .DIR was in the range the manager chose, unless he *)
(* insisted after the list had changed (bm.c:1933).                        *)
RangeIsTarget ==
  [][\A m \in Managers : pc[m] = "compact" /\ pc'[m] = "done" /\ loc[m].check =>
       \A i \in loc[m].sel :
         View(Source(m), loc[m].size)[i].id \in
           {loc[m].look[k].id : k \in loc[m].from .. loc[m].to}]_vars
-----------------------------------------------------------------------------
(* The invariant the proofs rest on, one part per idea.                    *)

(* Mixes in which nobody posts while a manager takes articles out, and     *)
(* mixes in which the digest is changed either by users who toggle the     *)
(* flag, beside one manager of .DIR, or by managers of .DIGEST.            *)
At(x, j) == {p \in Procs : x.job[p] = j}
NoPostBeside(x) ==
  At(x, "DIR") = {} \/ x.modes \cap {"token", "range", "force"} = {} \/ At(x, "post") = {}
OneSideOfDigest(x) ==
  \/ At(x, "digest") = {} /\ (At(x, "DIR") = {} \/ At(x, "DIGEST") = {})
  \/ At(x, "DIGEST") = {} /\ \A p, q \in At(x, "DIR") : p = q

(* Who has which lock, by where he is.                                     *)
MayHold(p, f) ==
  \/ p \in Managers /\ Source(p) = f /\ pc[p] \in OnSource
  \/ p \in Managers /\ f = "DELETED" /\ HasBin(p) /\ pc[p] = "take_out"
  \/ p \in Managers /\ f = "DIR" /\ Source(p) = "DIGEST" /\ pc[p] = "orig_flag"
  \/ p \in Markers /\ f = "DIR" /\ pc[p] \in Flagging
  \/ p \in Markers /\ f = "DIGEST" /\ pc[p] = "digest_add"
LockInv ==
  /\ \A f \in Files, p \in Procs : holder[f] = p => MayHold(p, f)
  /\ \A m \in Managers : pc[m] \in OnSource => holder[Source(m)] = m
  /\ \A u \in Markers : pc[u] \in Flagging => holder["DIR"] = u
  /\ \A m \in Managers : pc[m] = "take_out" /\ HasBin(m) => holder["DELETED"] = m

(* What a manager has chosen, and what he takes out.                       *)
ManagerPlace(m) ==
  /\ pc[m] \notin {"idle", "done"} => loc[m].from >= 1 /\ loc[m].mode \in mix.modes
  /\ pc[m] \in {"lock_bin", "take_out", "originals", "orig_lock", "orig_flag", "compact"} => TakesOut(m)
  /\ pc[m] = "lock_bin" => Source(m) = "DIR"
  /\ pc[m] \in {"originals", "orig_lock", "orig_flag"} => Source(m) = "DIGEST"
  /\ pc[m] \in {"orig_lock", "orig_flag"} => loc[m].todo # {} /\ loc[m].ent > 0
  /\ pc[m] \in {"originals", "orig_lock", "orig_flag", "compact"} => loc[m].sel \subseteq 1 .. loc[m].size
MarkerPlace(u) ==
  /\ pc[u] \in Flagging \ {"flag_find"} =>
       /\ loc[u].ent \in DOMAIN file["DIR"]
       /\ file["DIR"][loc[u].ent].id = loc[u].tgt.id
       /\ Flag(u) = IF pc[u] = "flag_mark" THEN "marked" ELSE "digest"
  /\ pc[u] = "digest_cut" => loc[u].size >= 1
PlaceInv == /\ \A m \in Managers : ManagerPlace(m)
            /\ \A u \in Markers : MarkerPlace(u)

(* The entries behind the length a manager goes by are empty.              *)
Going == {"lock", "lock_bin", "take_out", "originals", "orig_lock", "orig_flag", "compact"}
Covers(m) ==
  pc[m] \in Going /\ TakesOut(m) =>
    \A i \in DOMAIN file[Source(m)] : i > loc[m].size => file[Source(m)][i].id = 0

(* An article is in .DIR or .DELETED, or in both while it is moved.        *)
TakenOut(m) == {View(Source(m), loc[m].size)[i].id : i \in loc[m].sel}
Moving == {m \in Managers : Source(m) = "DIR" /\ pc[m] = "compact"}
OnceInv == Once("DIR") /\ Ids("DIR") \subseteq 0 .. posted
MoveInv ==
  /\ \A m \in Managers : Source(m) = "DIR" => Covers(m)
  /\ Once("DELETED") /\ Ids("DELETED") \subseteq 0 .. posted
  /\ 1 .. posted \subseteq Ids("DIR") \cup Ids("DELETED")
  /\ Moving = {} => Ids("DIR") \cap Ids("DELETED") \subseteq {0}
  /\ \A m \in Moving : (Ids("DIR") \cap Ids("DELETED")) \cup {0} = TakenOut(m) \cup {0}

(* Marked articles are not among those taken out, except by right.         *)
MayTakeMarked(m) == loc[m].mode = "force" \/ (loc[m].mode = "token" /\ loc[m].over)
MarkInv ==
  \A m \in Moving : MayTakeMarked(m) \/
    \A i \in loc[m].sel : ~View("DIR", loc[m].size)[i].marked

(* The flag while the digest is changed: by a user, or by a manager of     *)
(* .DIGEST, who has the flags of the originals cleared first.              *)
Flagged == {e.id : e \in {x \in Range(file["DIR"]) : x.digest}}
Front(f, n) == {file[f][i].id : i \in {j \in DOMAIN file[f] : j <= n}}
FlagInv ==
  /\ \A m \in Managers : Source(m) = "DIGEST" => Covers(m)
  /\ Flagged \subseteq Ids("DIGEST")
  /\ \A u \in Markers :
       /\ pc[u] = "digest_flag" => loc[u].tgt.id \in Ids("DIGEST")
       /\ pc[u] \in {"digest_map", "digest_shift", "digest_cut"} => loc[u].tgt.id \notin Flagged
       /\ pc[u] \in {"digest_shift", "digest_cut"} => loc[u].size = Len(file["DIGEST"])
       /\ pc[u] = "digest_cut" => Flagged \subseteq Front("DIGEST", loc[u].size - 1)
  /\ \A m \in Managers : Source(m) = "DIGEST" =>
       /\ pc[m] \in {"originals", "orig_lock", "orig_flag"} => TakenOut(m) \cap Flagged \subseteq loc[m].todo
       /\ pc[m] = "compact" => TakenOut(m) \cap Flagged = {}

(* .DIR as the flags need it: without empty entries where a user works on  *)
(* the digest, and as it was posted where managers of .DIGEST do.          *)
DirInv ==
  /\ At(mix, "digest") # {} => 0 \notin Ids("DIR")
  /\ \A u \in Markers : pc[u] \notin {"idle", "done"} /\ At(mix, "digest") # {} => loc[u].tgt.id # 0
  /\ At(mix, "digest") # {} => \A m \in Managers : pc[m] \in Going \cup {"tokens"} => loc[m].size <= Len(file["DIR"])
  /\ At(mix, "DIGEST") # {} =>
       /\ Old <= Len(file["DIR"]) /\ posted = Len(file["DIR"])
       /\ \A i \in DOMAIN file["DIR"] : file["DIR"][i].id = i
       /\ \A m \in Managers : loc[m].ent \in {0} \cup Old .. Len(file["DIR"])
       /\ Flagged \subseteq 1 .. Old

Inv ==
  /\ TypeOK /\ LockInv /\ PlaceInv /\ OnceInv
  /\ NoPostBeside(mix) => MoveInv /\ MarkInv
  /\ OneSideOfDigest(mix) => FlagInv /\ DirInv
=============================================================================
