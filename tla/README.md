# A model of the KBS board system

TLA+ modules, TLC configurations and TLAPS proofs for the bulletin board system in this repository: the C program
`kbs_bbs/` (library `libBBS`, terminal front `src`, daemons, PHP extension) and the PHP pages `www2/`. The build
modelled is that of `site/sbbs.h`: Linux, fcntl locks, REDIS, FILTER, COMMEND_ARTICLE and NEWPOSTSTAT on;
HAVE_REPLY_COUNT, BATCHRECOVERY, ENABLE_REFER, ENABLE_MEMBER_CACHE, BOARD_SECURITY_LOG and
DELETE_RANGE_RESERVE_DIGEST off. The sources are GBK; quotations in `PROJECT.json` are converted to UTF-8.

## 1. The system

Every terminal user has a process of its own, every web visitor is served by whichever web server process gets the
request, and a few daemons run beside them. There is no database for the core: the processes share **index files**
(arrays of fixed-size records, mapped with mmap and locked with fcntl) and **shared memory** (the online table, the
account table, the board table). What makes the code hard is that each of these processes reads and writes them with
its own idea of their length and content.

| part | state | operations | with whom it interacts |
|---|---|---|---|
| article index (`libBBS/article.c`, `record.c`) | `.DIR` per board, sorted by id; the files of the articles; `.DELETED`, `.JUNK` | post, delete, flag, recover, search by id | id counter in the board table; `.DIGEST`, `.ORIGIN`, `.MARK`; events |
| range operations and digest (`delete_range_base`, `src/bm.c`, `add_digest`) | `.DIR`, `.DIGEST`, `.DELETED` | delete, mark or unmark a range; add to and remove from the digest | locks of two files at once |
| online table (`libBBS/utmp.c`, `daemon/miscd.c` utmpd) | slots in shared memory, hash chains by user, free chain, ring sorted by name | login, logout, clean-up, kick, list | telnet processes, web visitors, signals |
| account table (`libBBS/ucache.c`, userd, killd) | accounts in shared memory and `.PASSWDS`, hash chains | register, log in, delete, expire, rename | online table, mail directories |
| board table (`libBBS/bcache.c`) | boards and their status in shared memory, `.BOARDS` | create, delete, count users, last post, id counter, flush | all |
| derived indexes (`board_regenspecial`) | `.ORIGIN`, `.MARK`, dirty flags | regenerate, append, remove | `.DIR` under lock |
| threads (`src/bbs.c`, `src/newread.c`) | `.DIR` | an operation on all articles of a thread | article index |
| read marks (`brc_*`) | a list of ids per user and board, in a file per user; the lists in use in a file that all his sessions map | load, evict, write back, mark read, ask | all sessions of the user, id counter, online table |
| mail (`bbs_sendmail.c`, `src/mail.c`, `newpop3.c`) | mailboxes, used space | send, delete, count | record functions |
| messages (`libmsg.c`, `libnewmsg.c`, `webmsgd.c`) | message files, a daemon's lists | send, read, page a user by signal | online table |
| events (`log.c`, `cached`, `indexd`, `notifyd`, `postlogd`, `pushd`) | redis channel | publish, consume | article index |
| fronts (`src/`, `php/`, `www2/`) | one user's own | screens, pages | everything above |
| others | | chat, archive, votes, filters, news exchange, games, maintenance | |

What is hard about them, and correctness in a sentence each:

* article index: sizes noted before a lock is waited for, positions that are stale, two files changed one after the
  other, deaths in between, a counter flushed once a day. Correct: `.DIR` stays sorted by id and duplicate-free, no
  operation hits another article than the one chosen, an entry has its article.
* ranges and digest: as above with two locks, and with a dialogue between the choice and the action. Correct: nothing
  is lost that was not chosen, marks protect, flag and digest agree.
* online table: requests that outlive their client, readers without a lock, slots reused. Correct: a session keeps its
  slot until it leaves or is kicked, every slot is on one chain exactly, a kick reaches all sessions of its user and
  nobody else.
* account table: time-outs of registration, duplicates, expiry beside registration, slots that are given to somebody
  else while their number is still in use. Correct: an account stays with who has registered it until it is deleted, a
  search finds it, a name that is free can be had, an account that has expired goes.
* board table and derived indexes: counters and dirty flags outside the lock. Correct: `.ORIGIN` and `.MARK` are what
  `.DIR` says or marked dirty.
* threads: a walk through a file that it changes itself and that others change. Correct: each article of the thread is
  treated once and no other, a reply stays in the thread of its parent, the walk ends.
* read marks: bounded sorted lists that all sessions of a user share without a lock. Correct: what was read stays read,
  what was not read is shown, up to the bound of the list.
* mail, messages, events: at-most-once calls and counters kept beside the data they count.

`PROJECT.json` lists each component with its status and each hazard at its line, with the properties about it or the
reason why there is none yet. Hazards of the code beside those: a death between the move of the entries and the cut
leaves the last entry twice (`article.c:376`, in `BoardDir` with `Crash`); two managers pin one article too many
(`article.c:2661`); a deletion in the digest searches a file that is not sorted by id (`bbs.c:4788`); a request read
in part shifts all later ones (`miscd.c:373`); the reader of the ring may go round until its bound (`utmp.c:521`); a web
login writes its pid into a slot that may be another's (`php/bbslib.c:552`); a counter of users on a board is repaired
outside its lock (`bcache.c:592`); ids are handed out under one lock and entries written under another (`article.c:1580`,
`IdsSorted`); `mmap_search_apply` returns with the lock held when the id is taken (`article.c:1749`, `IndexedOnce`); a death
in the middle of a range leaves articles renamed whose entries stay (`article.c:3843`); `brc_initial` opens a missing
`.boardrc.gz` for writing and then reads from it, where every call fails and the loop counts down (`boards.c:870`).

## 2. The plan

The most important data of a board system is its article index, so it comes first. Done:

1. `DirSearch` (helpers), `Board` (abstract), `BoardDir` (posting, deleting, flagging, recovering, restarts),
   `BoardDir_proofs`.
2. `SearchBin` (the binary search in steps).
3. `UtmpTable` (abstract table), `UtmpLinks` (the arrays that implement it), `Utmp` (clients and utmpd);
   `UtmpTable_proofs`, `Utmp_proofs`, and `Links_proofs` for `UtmpLinks`.
4. `BoardRange` (ranges and digest); `BoardRange_proofs` (of ranges, digest and `SearchBin`).
5. `BoardIndex`: `.ORIGIN` and `.MARK`, dirty flags, regeneration beside the operations that change `.DIR`;
   `BoardIndex_proofs`.
6. `UserTable`: accounts, their chains and registration through userd, deletion, expiry through killd, restart;
   `Links_proofs`, which has what is said of linked slots in common for both tables.
7. `ThreadOp`: operations on a thread beside replies, deletions, recoveries and flags; `ThreadOp_proofs`.
8. `BrcList` (operators on a list of read marks), `Brc` (the sessions of a user who share them), `Brc_proofs` (of both).

Next, in this order:

9. `BoardCache`: adding and deleting boards, counters of users on a board.
10. `Mail`: the used-space counter; `Events`: publisher and subscriber.
11. Splitting the two lumps of `BoardRange` (renaming and writing the bin, compaction and cut) with deaths between.

Theorems planned: `SearchFinds` of `UserTable`; `RangeIsTarget` without managers who interfere.

## 3. The modules

### Article index: `DirSearch`, `Board`, `BoardDir`

`DirSearch` has operators on sequences of entries. `Hits` and `Gaps` are the answers a binary search by id may give in
a table *which need not be sorted*: every entry with the id, every gap between a smaller and a larger one. `MoveOver`
and `MakeRoom` are the memmoves of deletion and insertion.

`BoardDir` is one board. `dir`, `lock`, `trash` and `body` are `.DIR`, its fcntl lock, `.DELETED`/`.JUNK` and the name
each article file has; `nowid` and `idseq` the id counter in shared memory and in `.BOARDS`. Each process has `pc` and
the locals of the functions: `tgt` (`fileinfo`), `ent` and `size` (`dirarg`), `bin`. An action is what a process does
between two points where others can interfere:

| code | actions |
|---|---|
| `after_post` | `PostStart`, `PostTakeId`, `PostAppend`, `PostFiltered` |
| `prepare_write_dir` | `MapDir` (mmap, size), `Locate`, `LocateFails` (lock, search) |
| `change_post_flag` | `FlagStart`, `FlagCommit` |
| `do_del_post`, `cancelpost` | `DelStart`, `DelMove`, `DelCut`, `DelFault`, `DelRename`, `DelTrash` |
| `do_undel_post`, `mmap_search_apply`, `insert_func` | `UndelStart`, `UndelRename`, `UndelShift`, `UndelWrite`, `UndelTaken`, `UndelEmpty`, `UndelAppend` |
| `flush_bcache`, `resolve_boards` | `FlushBcache`, `Reboot`, `PowerLoss` |
| SIGKILL, lost line | `Die` |

A mapping longer than the file reads zeros on the file's last page and raises SIGBUS behind it; both are in the model
(`View`, `CanFault`). `Ops` says which operations each process performs, so that a run can ask about one mix.
`Crash` adds losing the flushed counter and dying in the middle of a move.

`Board` is the promise to the user: a set of entries that changes by one entry at a time. `OneEntryAtATime` says that
`BoardDir` implements it: a step of the file is a step of the set or none. (While entries are moved one of them is there
twice; as a set that is not visible.)

### Search: `SearchBin`

`Search_Bin` as a loop on `low` and `high` over any table, sorted or not: `ResultIsHitOrGap` says that it returns what
`Hits` and `Gaps` of `DirSearch` allow, which is what entitles `BoardDir` to use them; `FailureMeansAbsent` that in a
sorted table a failure means absence; `Terminates` that it ends.

### Online table: `UtmpTable`, `UtmpLinks`, `Utmp`

`UtmpTable` is the table as utmpd thinks of it: `info` (the slots), `chain` (per hash bucket a sequence of slots,
bucket 0 being the free chain) and `ring` (the sequence sorted by name), with `Alloc` and `Free`. `Free` keeps what
`clear_utmp2` does to a slot that is already free. `Garbage` is what the user id of a cleared slot can be:
`clear_utmp2` copies a structure from the stack of which it sets only some fields.

`UtmpLinks` is the same table as the code stores it (`hashhead`, `next`, `list_next`, `list_prev`, `listhead`), and
`ImplementsTable` the refinement, with the chains and the ring computed from the links.

`Utmp` puts clients around `UtmpTable`: a queue of requests served in order by utmpd, clients that wait or have given
up, utmpd's own cleaning (`sweep`), signals, and kickers who read the chains step by step without the lock
(`kick_user_utmp`, `apply_utmp`). A telnet process logs in, works, leaves or dies; a web visitor's session has pid 0
until the login has set it to 1, is cleaned when idle, and can log out twice. `meant` is a history variable: the
sessions a kicker's user had when he began.

### Ranges and digest: `BoardRange`

`.DIR`, `.DIGEST` and `.DELETED` with their locks; managers who choose a range in the list they see, answer the message
that it has changed, and apply one of the five modes; users who toggle the mark or the digest flag; users who post.
The steps of `delete_range_base` are `Stat`, `LockSource`, `LockBin`, `TakeOut` (renaming and writing the bin),
`Original`/`OriginalLock`/`OriginalFlag` (for `.DIGEST`), `Compact` or `Tokens`, and `Fault`. A call of fcntl which
would wait in a circle fails; the callers who ignore that go on without the lock (`LockOrFail`). A manager's change
detection compares times in seconds, so `Stat` may miss any change. `mix`, chosen at the start and constant, says what
each process does, so that one run asks about several mixes.

### Derived indexes: `BoardIndex`

`.DIR` changes one entry at a time, as in `Board`; the module follows what those who change it, and those who read the
indexes, do with `.ORIGIN`, `.MARK` and their dirty flags (`dirty`):

| code | actions |
|---|---|
| `board_regenspecial` | stat, lock of the index, read lock and copy of `.DIR`, write, flag cleared, unlock: one action each |
| `after_post`, `do_undel_post` | change of `.DIR`; look at the flag; append to or insert in `.ORIGIN`, or regenerate |
| `del_origin` | lock of `.ORIGIN`, search by id, removal |
| `change_post_flag` in `.DIR` and in an index | the flag in `.DIR`, in the index, and the dirty flag |
| `delete_range`, operations on a thread | several entries at once, and the lock of `.DIR` kept over `del_origin` |

An index is `missed` when one of the known windows has made it differ, until it is next written from `.DIR`.

### Accounts: `UserTable`

`pw`, `head` and `unext` are the table and its chains, bucket 0 the free one; `file` is `.PASSWDS`, `home` who has files
under a name, `holder` (history) who has registered it. Clients of both fronts register (`Register`, `RHome`, `RRm`,
`RSend`, `RWrite`, `REnter`), log in and delete accounts (`Delete`, `DFiles`, `DSend`, `DLevel`); userd serves one
request a step under the lock of the table (`Serve`, `Taken`, `Unlink`, `SetHead`); a client that has waited too long is
answered all the same (`Hang`); killd goes through the accounts (`KDay` to `KLevel`); `Walk` is `searchuser`, one slot
a step, without the lock; `Flush` copies the table slot by slot, `Reboot` loads it with `FillUcache`.
A client does one task, the table has three slots; `.badname` is a set of names that is never emptied.

### Threads: `ThreadOp`

`View` is the manager at an article of his list, `LockDir` the lock and the mapping. `PassBy`, `SetFlags`, `DelEntry`,
`DelFails`, `Ask`, `Answer`, `Leave` and `Split` are the steps of `apply_thread` with its callbacks, one record each.
Others reply (`Reply`, `Post`: the thread is that of the record read at the beginning), delete, recover and mark single
articles in one step each, since `BoardDir` has their own steps; an article that is recovered into an empty `.DIR` gets a
new id (`renumbered` remembers the old one). The first `DelEntry` of a walk loses the lock:
`updatelastpost` opens and closes `.DIR`, and closing any descriptor of a file drops the process's fcntl locks on it.
An article behind the end of the list as the manager saw it is taken for a pinned one: he is asked a question, whose
answer never deletes it (`Ask`). `goal` (history) is what a walk is to treat, noted when it takes the lock: the thread, its
rest from the article on, or, for a split, the least set with the article and the replies of the thread to what is in it;
`done` (history) is what it has treated.

### Read marks: `BrcList`, `Brc`

`BrcList` is the list of one user on one board: at most `BRC_MAXNUM` ids, newest first, ended by a 0; what is below the
last is read. `AddRead`, `ClearTo` and `ClearAll` are `brc_add_read`, `brc_clear_new_flag` and `brc_clear`, `Unread` is
`brc_unread`. `AddTo(old, l, f)` is `brc_add_read` whose place was found in `old` and which writes to `l`.

`Brc` is one user. `row` is his file `.boardrc.gz` (`tmp` the temporary one), `maps` the files `entry` in tmpfs that
there have been, `entry` the one that has the name, `count` the counter of his sessions. A telnet session maps `entry`
until it ends, a web session for each request; both enter a board, which gives it a slot, and then work on the slot.

| code | actions |
|---|---|
| `init_cachedata`, `clean_cachedata` | `Login`, `CountIn`; `Leave`, `Unlink` |
| `init_brc_cache` | `Stat`, `Zero` |
| `brc_initial`, `brc_getcache` | `Lookup`, `Fill`, `Bid` |
| `brc_update` | `URead`, `UCopy` and `UFlag` for each changed slot, `UWrite`, `UMove` |
| `brc_add_read`; `brc_clear_new_flag`; `brc_clear` | `ReadFind`, `ReadSet`; `ReadTo`; `Clear` |
| `brc_board_unread` | `ListNow`, `ListScan` |
| `get_nextid` and `after_post` of others | `Number`, `Appear` |
| a killed process, utmpd's cleaning | `Purge` |

`seen` (history) is what the user has read or marked as read. `Chose` and `Late` are only there for the window `evict`.

### Windows

`BoardIndex`, `UserTable`, `ThreadOp` and `Brc` have a constant `Windows`: the names of the places where the code is known to
go wrong. When something happens in one of them, a history variable (`missed`, `harmed`) remembers the index, the name,
the process or the board that was hit, at the event that does the harm, and the properties leave out just that one. With all
windows named the properties say that **nothing else** goes wrong; with one of them left out of `Windows` TLC shows what
happens there. The windows are:

| window | in | what happens |
|---|---|---|
| `cleared` | `BoardIndex` | a change falls between the copy of `.DIR` and the clearing of the dirty flag (`bcache.c:724`) |
| `stat` | `BoardIndex` | `.DIR` gets longer or shorter between its stat and its read lock (`bcache.c:682`) |
| `half` | `BoardIndex` | an article goes from `.DIR` while who added it has still to add it to `.ORIGIN`, or the other way round (`article.c:401`, `1681`); or `.ORIGIN` is written from `.DIR` while somebody has still to add an article there, or to take one out that has been recovered since (`bcache.c:682`) |
| `stale` | `BoardIndex` | `del_origin` cuts `.ORIGIN` by a size noted before its lock (`article.c:168`) |
| `order` | `BoardIndex` | `.ORIGIN` out of order, so that a search by id fails (`article.c:1682`) |
| `unmarked` | `BoardIndex` | a marked article is recovered, `.MARK` is not told (`article.c:714`) |
| `empty` | `BoardIndex` | an article recovered into an empty `.ORIGIN` gets a new id (`article.c:734`) |
| `death` | `BoardIndex` | a process dies between `.DIR` and the index, or a restart forgets a dirty flag (`bcache.c:185`) |
| `level` | `UserTable` | killd clears the level of a slot it has given back (`miscd.c:261`) |
| `number` | `UserTable` | an account is written by slot number (`ucache.c:778`; in the mixes `WideMixes` of `MCUserTable`) |
| `check` | `UserTable` | the home of a name is removed though the name has been taken since (`register.c:111`) |
| `walk` | `UserTable` | `searchuser` is led to another chain (`ucache.c:529`) |
| `copy` | `UserTable` | killd decides on a copy (`miscd.c:235`) |
| `enter` | `UserTable` | who registers finds the name, and the slot it is in is about to be deleted or given to another (`php/phpbbs_reg.c:614`; in the mix with two who register and one who deletes) |
| `torn` | `UserTable` | the table is copied while it changes, and a restart follows (`ucache.c:301`; in the mixes `TornMixes`) |
| `unlocked` | `ThreadOp` | somebody changes `.DIR` while a deletion walks without the lock (`bcache.c:81`) |
| `moved` | `ThreadOp` | the list the manager points at has changed (`newread.c:1326`) |
| `asked` | `ThreadOp` | an article posted after the list was drawn is taken for a pinned one (`bbs.c:4750`) |
| `reply` | `ThreadOp` | a reply begun before a split is posted after it (`article.c:1586`) |
| `recover` | `ThreadOp` | an article deleted before a split is recovered after it (`article.c:714`) |
| `insert` | `Brc` | the list changes between the search for an article's place and the insertion (`boards.c:972`) |
| `evict` | `Brc` | the slot a session works on is given to another board, two sessions fill slots for one board, or a slot is marked or copied by one session while another has chosen to fill it (`boards.c:851`, `864`, `900`) |
| `flag` | `Brc` | a list is marked between its copying and the clearing of its flag (`boards.c:703`) |
| `update` | `Brc` | two sessions write back at once, or one loads a board while another writes (`boards.c:688`, `858`) |
| `disk` | `Brc` | the file cannot be written, the flags are cleared (`boards.c:716`) |
| `zero` | `Brc` | two sessions find no `entry`, the later fills with zeros what the other uses (`boards.c:809`) |
| `unlink` | `Brc` | `entry` is removed while another session has it (`ucache.c:1021`) |
| `purged` | `Brc` | a session ends without `brc_update` (`utmp.c:324`) |
| `numbered` | `Brc` | a board is cleared while an article has its id and is not in `.DIR` yet (`boards.c:1011`) |
| `stale` | `Brc` | a list is ahead of a `nowid` read before, and all of the board is cleared (`boards.c:946`) |

The counterexample of a window is that of `<module>_all.cfg` without the window's name (and with the mixes named).

## 4. The runs

All runs are exhaustive on their instance. In the tables, *p* is a passing run and *v* one whose property is violated.

| run | | instance | what it shows |
|---|---|---|---|
| `boarddir_one_deleter` | p | one deletes, one recovers, one posts; 4 ids, deaths, reboots | `.DIR` sorted, no article twice, entries have their articles, fresh ids |
| `boarddir_deleters` | p | two delete, one of them recovers, the other flags; `Crash` | the entry acted on is the one chosen, also with stale sizes and faults |
| `boarddir_refines` | p | one does everything, one flags | refinement of `Board` |
| `boarddir_stale_map` | v | a deleter, a poster | what `prepare_write_dir` returns under the lock is the file before the lock |
| `searchbin_all` | p | tables up to 5 entries over 4 ids, keys 0 to 5 | the search in all of them |
| `utmplinks_all` | p | 3 users, 2 buckets, 4 slots | two-way ring, consistent table, refinement |
| `utmp_all` | p | two casts of 2 slots, with faults: 3 telnet sessions of two users, those of one of them kicked; 2 web visitors and a telnet session of another user, who is picked from the list | slots stay with their sessions, late requests do not hit strangers, chains a partition, ring sorted |
| `range_all` | p | three mixes: managers of `.DIR` and of `.DIGEST` in the five modes, a marker, users of the digest, a poster; 3 articles | nothing lost or twice; marks protect; a flagged article is in the digest |
| `boardindex_all` | p | seven kinds of work in five mixes of three processes; 2 old articles, 4 ids, 3 changes | a clean index is what `.DIR` says but for the windows; no circular wait |
| `usertable_all` | p | three clients, 3 names in 2 chains, 3 slots, all daemons, restart; tables with a name twice | chains, accounts, searches and refusals are right but for the windows; what has expired goes |
| `thread_all` | p | twelve mixes of three processes: delete, mark, split a thread; reply, delete, recover, mark; a thread of four and a stranger | the whole thread is treated, nothing is lost but for the windows; every walk ends |
| `brc_all` | p | nine mixes of two telnet sessions and one of the web: one board, three boards, a poster, lists that overflow; 3 boards, 2 slots, lists of 3; deaths, full disk | what was read stays read, nothing else becomes read, lists sorted but for the windows |

**The mixes are part of the result.** The passing runs say with whom the code is safe; beyond them it is not, and
configurations with the counterexamples are kept beside the runs (`tlc -config <cfg> <module>`; each ends in an error):

| configuration | violated | what happens |
|---|---|---|
| `BoardDir_two_deleters.cfg` | `IdsSorted` | the second truncates to a size from before the first: a zero entry (`article.c:376`) |
| `BoardDir_two_recoverers.cfg` | `IndexedOnce` | checks before the rename, whose failure is ignored (`710`): the same article twice |
| `BoardDir_id_reused.cfg` | `IdsSorted` | after a power loss ids are handed out again (`bcache.c:206`), a recovery then breaks the order |
| `SearchBin_minus_one.cfg` | `MinusOneReserved` | -1, kept for errors by the comment at `article.c:2149`, is a regular answer (`2165`) |
| `Utmp_cleared_twice.cfg` | `ChainsPartition` | a slot with the kicked user's id left on the stack is cleared twice (`utmp.c:663`) |
| `Utmp_wrong_window.cfg` | `KickHitsUser` | the session picked has ended, the signal reaches another user (`740`) |
| `Utmp_derailed.cfg` | `AllKicked` | the walk without the lock continues on the free chain (`578`) |
| `Utmp_given_up.cfg` | `Reclaimable` | a web login times out, its session stays with pid 0 (`316`) |
| `BoardRange_post_lost.cfg` | `NothingLost` | a post between the stat and the lock is cut off (`article.c:3754`) |
| `BoardRange_wrong_articles.cfg` | `RangeIsTarget` | the change is not noticed within a second: the range covers other articles (`3756`) |
| `BoardRange_digest_broken.cfg` | `FlagMeansDigest` | EDEADLK ignored (`3937`, `2692`): the record is lost, the flag stays |
| `BoardIndex_circular.cfg` | `NoCircularWait` | an operation on a thread holds `.DIR` and wants `.ORIGIN`, a reader the other way round (`3103`) |
| `BoardIndex_unsorted.cfg` | `OriginSorted` | two posters append in another order than their ids (`1682`), which `is_sorted_mode` (`80`) does not expect |
| `UserTable_twice.cfg` | `FreeFound` | a duplicate in `.PASSWDS` becomes the whole free chain (`ucache.c:275`) |
| `UserTable_odd.cfg` | `RefusedRightly` | a name `id_invalid` refuses is left at the head of the free chain, and nobody gets past it |
| `UserTable_last.cfg` | `AllGone` | the account in the last slot cannot be deleted, killd ends there (`ucache.c:716`) |

**Bounds and why they are enough.** Three articles and four ids give every relation between two positions that move
(before, at, behind) and one more that must not be touched; a third process adds the interference between two steps of
two others. Three is the least number of telnet sessions at which a slot (of two) is freed, reused and asked for again.
`Garbage` in `utmp_all` is anything but the id of the user who is picked from the list, since that value leads to
`Utmp_cleared_twice.cfg`. Four slots and two buckets are the least for removal at
the head, middle and end of a chain and of the ring. `MaxId` and `MaxTrash` stop `BoardDir` from posting and deleting for ever; `MAX_DIGEST`, `MAXUSERS` and the size of a file page
are far away and left out (a stale mapping may read zeros or fault, whichever the page would decide). `MaxKick` is the
10 of `kickuser_save`, made 2 where the loop round a full list is of interest.
`BoardIndex` begins with two articles and ends after three changes of `.DIR`: one that an index misses, one that hides
or repairs it, one more. In `UserTable` two names share a chain and three slots make a chain whose middle goes; a
client does one task. `ThreadOp` has a thread of four articles with a stranger among them, replies to replies, a marked
one and one to be deleted, and room for one reply. `Brc` has three
boards for two slots, so that one is evicted, and lists of three marks, the least `brc_add_read` writes to, that four
articles overflow; two sessions at once, since each window is between two.
Deadlock checking is off wherever processes do a bounded amount of work and stop; `utmplinks_all` has it on.

**Fairness.** `Terminates` of `SearchBin` needs weak fairness of the next step of a sequential loop. `ExpiredGone` of
`UserTable` needs that the daemons run on: weak fairness of userd's and killd's steps, which nobody can hold up, for a
holder of the table's lock always goes on. `WalkEnds` of `ThreadOp` needs that a walk that has begun goes on, and that
who is asked answers or leaves; a terminal that is silent is closed after a while. The other properties are safety.
Liveness of those who wait for fcntl locks is not claimed: fcntl promises no order of waiters.

**Finding.** `boarddir_stale_map` contradicts the comment at `article.c:147`: `prepare_write_dir` takes the size of the
file before it waits for the lock, and a deletion then truncates a post away that came in between.

## 5. The proofs

| theorem | assumes | states, for every value of the constants |
|---|---|---|
| `TypeCorrect` | | types of `BoardDir`, and every store is to an entry that exists |
| `RightTarget` | no `Crash` | `LocatedIsTarget` |
| `FreshIds` | no `Crash` | `NewIdFresh` |
| `AlwaysSorted` | no `Crash`, one process deletes | `IdsSorted` |
| `IndexedRight` | no `Crash`, one process deletes, one recovers | `IndexedOnce` and `IndexedHasBody` |
| `KeepsPromise` | no `Crash`, one process posts, deletes and recovers | `OneEntryAtATime`: `BoardDir` implements `Board` |
| `RangeTypeCorrect` | | types of `BoardRange`, and who has finished or asks his user holds no lock |
| `NoArticleLost` | nobody posts beside a manager who takes articles out of `.DIR` (`NoPostBeside`) | `NothingLost` of `BoardRange` |
| `MarkedArticlesStay` | the same | `MarkedStay` |
| `FlaggedIsInDigest` | users who toggle the digest flag beside one manager of `.DIR` at most, or managers of `.DIGEST` without managers of `.DIR` (`OneSideOfDigest`) | `FlagMeansDigest` |
| `ProbesInside` | | types of `SearchBin`: no probe outside |
| `HitOrGap` | | `ResultIsHitOrGap`, sorted table or not |
| `SortedFindsAll` | | `FailureMeansAbsent` |
| `TableConsistent` | (the specification clears only sessions that are online) | `ChainsPartition` and `RingSorted` of `UtmpTable` |
| `LinksConsistent` | (the same) | `RingTwoWay` and `TableConsistent` of `UtmpLinks`: the arrays have no loose ends |
| `LinksImplement` | (the same) | `ImplementsTable`: the arrays do what the chains and the ring do |
| `AccountsTypeCorrect` | | types of `UserTable` (`UserTypeOK`), and who is between two steps of `setuserid_internal` has the lock |
| `ChainsStayRight` | window `torn` named | `ChainsRight`: the hash chains of the accounts |
| `OnlyRefusedRightly` | window `torn` named, no record of `.PASSWDS` has a name that `id_invalid` refuses (`CleanTables`) | `RefusedRightly` |
| `AccountsKept` | windows `level`, `number`, `check`, `copy`, `enter`, `torn` named, the records of `.PASSWDS` are whole accounts of their users (`EarlierTables`) | `AccountKept` |
| `UtmpTypeCorrect` | | types of `Utmp` |
| `SlotsKept` | every cast is `Harmless` | `OwnSlot`, `OwnWebSlot`, `ChainsPartition` and `RingSorted` |
| `IndexTypeCorrect` | | types of `BoardIndex`, and no file is cut to more than it has |
| `NobodyCrosses` | in a mix nobody works on threads, or nobody cuts ranges or marks from an index | `NoCircularWait` |
| `MarkIsCurrent` | windows `cleared`, `stat`, `unmarked`, `death` named | `MarkCurrent` |
| `OriginIsCurrent` | windows `cleared`, `stat`, `half`, `stale`, `order`, `empty`, `death` named | `OriginCurrent` |
| `ThreadNothingLost` | window `unlocked` named | `NothingLost` of `ThreadOp` |
| `ThreadTogether` | windows `unlocked`, `reply`, `recover` named | `GroupOfParent` |
| `ThreadWhole` | windows `unlocked`, `moved`, `asked` named | `WholeThread` |
| `AddedIsRead` | | after `brc_add_read` of an article it is read |
| `ReadStaysRead` | | and nothing that was read is unread |
| `UnreadStaysUnread` | the other's place in the list is not the last; if the list is empty, it is not article 1 | and nothing else has become read |
| `SortedKept` | | the marks go down after every operation if they did before |
| `NothingIsForgotten` | windows `insert`, `evict`, `flag`, `update`, `disk`, `zero`, `unlink`, `purged` named | `NothingForgotten` of `Brc` |
| `MarksStaySorted` | the same | `MarksSorted` of `Brc` |
| `NothingIsFalselyRead` | these and the windows `numbered` and `stale` named | `NothingFalselyRead` of `Brc` |

Besides what the table names, the assumptions are those the modules declare of their constants; TLC evaluates them on every
run. No theorem is about one instance: the number of processes, clients, slots, buckets, users, the length of `.DIR` and the
bounds on ids and changes are arbitrary.

*`BoardDir`* has five invariants, each resting on the ones before. `TypeInv` adds to the types what is known of a
process by its place in the code: who has the lock is at a place that has it, `ent` lies in the file while it is used.
It holds in all circumstances. `IdInv` relates everything that ever had an id, `Known` (`.DIR`, the bins, the copies
processes hold): no id above the counter, and two of them with the same id are the same article. Neither
`LocatedIsTarget` nor `NewIdFresh` is inductive alone: whether a search by id finds the chosen article depends on ids
being unique among all copies, whether a new id is fresh on the counter being above all of them. The theorem does not
need `.DIR` to be sorted: `Hits` is only about equality. `SortInv` then states the order of `.DIR` with its
exceptions: while a process moves entries one is there twice. It needs that only one process deletes, for two lead
to a zero entry (`BoardDir_two_deleters.cfg`); and that the machine is stopped in order, for a power loss leads to reused
ids (`BoardDir_id_reused.cfg`). `OnceInv` says who has an article in hand: between the renaming of its file and the change
of `.DIR` the article belongs to one process, its file has the name that process gave it, and `.DIR` does not list it, but
for the entry that stays behind the moved ones until the file is cut (`HandsOff`, `OneHand`, `TwiceWhere`). Two who
recover can both find the article's file gone and its entry to be written, hence one process that recovers
(`BoardDir_two_recoverers.cfg`). `WholeInv` adds what the refinement of `Board` needs: the mapping a deletion uses is the
whole file, and the entry that makes room is there a second time, so that writing over it takes nothing away. It needs that
one process does all the writing: a post between the mapping and the lock of a deletion is cut off with the last entry
(`BoardDir_stale_map.cfg`). Then each step changes the set of entries by one entry or not at all.

*`SearchBin`* has one invariant, `SearchInv`: what lies before `low` at its border is smaller than the key, what lies behind
`high` at its border is larger, and in a sorted table that extends to all of both sides.

*`UtmpTable`*: `TableInv` says with the types that each slot is on exactly one chain and there once, and that the ring has
the slots in use, sorted. The lemmas on `PushFront`, `RemoveFirst` and `InsertAt` are stated index by index.

*`UtmpLinks`*: `LinksInv` says that there are sequences, a chain for each bucket, the free chain and the ring, such that each
`next` leads to the next element (`Linked`), and `list_next` and `list_prev` lead round the ring (`Ringed`). `FollowFinds`
says that walking the links gives the sequence back (`Linked` is about any set of slots, and serves the accounts too), so the table that `Follow` reads from the arrays is the one the
sequences make; every step of `Spec` is then a step of `UtmpTable`, and its invariant carries over. Where an induction over
the walk is needed, it is an argument by the least index that goes wrong (`LeastNat`), since the library's induction
theorems take an operator as parameter.

*`Utmp`*: `SlotInv` says, for the cast that is on the stage, that a request to clear a slot is in the queue only when its
session is through, has had its signal or is still in the slot (`RequestsMeant`, `SavedThere`), that the slot a login waits
for is kept for it (`SetsOwnPid`, `GrantKept`) and that a free slot has no pid. `OwnSlot` alone is not inductive: what a late
request does depends on what `clear_utmp3` compares it with. The proof splits in two. For each action seven facts about the
step are shown (`Onward`: nobody goes back; `HoldersFrom`, `SavedFrom`, `QueueFrom`, `SweepFrom`: where a holder, a saved
session, a request or the cleaning comes from; `StillHas`: who had a slot has it still), and `Keeps` derives the invariant
from them once. `Harmless` is what the casts must satisfy: no visitor of the web comes with somebody who kicks
his user, and no free slot looks like a kicked user's when visitors of the web or somebody who chooses from a list are
there. The casts of `Utmp_all.cfg` satisfy it; `Utmp_cleared_twice.cfg` shows what another does.

*`BoardRange`*: the parts of the invariant stand at the end of the module, and `Inv` is their conjunction; with `Inv` for
`INVARIANTS` in `BoardRange_all.cfg` TLC checks it on the mixes of the run. `CoreInv` holds for every mix: the types, who has
which lock by where he is (`LockInv`), and what is known of a process by its place, also that the article a user has
looked up under the lock stays where it is until he lets go (`PlaceInv`). `NothingLost` speaks of the times when nobody has `.DIR`,
which says nothing of the middle of a range, and a manager goes by a length from before his lock. `Covers` is what makes that
harmless: behind that length there are empty entries only. It is true when he takes the length, and stays true
because `.DIR` only gets shorter where nobody posts; ranges that overlap take their articles from what is there under the
lock, and a length that has become too great shows zeros. `MoveInv` then says that the articles in both
files are those the one manager between writing the bin and compacting has taken out, and `MarkInv` that no marked one is
among these unless he may take it. A mix with a poster breaks `Covers`, and `BoardRange_post_lost.cfg` shows the article lost.

For the digest, `FlagInv` follows both kinds of work that change it. A user puts the article in before he sets the flag, and clears the flag
before he takes it out; until `delete_record` has cut the file, the flagged articles lie in all but the last entry (`Front`).
A manager of `.DIGEST` has the flags of the articles he takes out cleared one by one, and what is still to be cleared is
in `todo`, since nobody sets a flag meanwhile. Both look the original up by id in `.DIR`, so `DirInv` says what makes the search find
it: with users no empty entry gets into `.DIR` (its only manager does not go by a length greater than the file), with managers of
`.DIGEST` `.DIR` is as it was posted. What `OneSideOfDigest` leaves out is what goes wrong: in `BoardRange_digest_broken.cfg`
users and a manager of `.DIGEST` meet.

*`BoardIndex`*: `Core` has the types, where the locks are held (`LocksHeld`), where a regeneration goes on (`InOrder`), and
that a file is not cut to more than it has. `NobodyCrosses` adds that `.ORIGIN` is dirty only where ranges are cut; its
assumption is satisfied by the mixes of `BoardIndex_all.cfg` and broken by those of `BoardIndex_circular.cfg`. For
`MarkIsCurrent`, `MarkInv` says that while nobody is on the way to set the dirty flag a clean `.MARK` is right, and so is what a
regeneration has written that is about to clear the flag. `OriginCurrent` is harder, since `.ORIGIN` is
kept by adding and removing single entries: `OriginInv` says that a clean `.ORIGIN` lists the first articles
but for those that processes have still to add, and with those that they have still to take out; `WorkInv` that what is to
be added is in `.DIR` and added by one process only, and what is to be taken out is not there; `IdsInv` that ids go up in
`.DIR` and none is in use twice. "Each once" follows from the ids going up (`RisingCounts`). The first version of `WorkInv` was
not inductive: `.ORIGIN` can be written again from `.DIR` when an article has been recovered that its deleter has still to
take out of `.ORIGIN`, and the deleter then takes the recovered article out. No mix of the run reached it. It is now part of
window `half`, and a mix with somebody who deletes, somebody who recovers and a dirty `.ORIGIN` at once has been added.

*`ThreadOp`*: `LockInv` says that only a deletion goes on without the lock, so whoever changes `.DIR` outside window
`unlocked` is alone there (`Alone`): no walk is under way but his own. `OrderInv` is what follows for everybody: `.DIR` is
sorted and apart from the bin, an article's `re` is no greater than its id, a walk's count and size are the length of
`.DIR`. That is `NothingLost`, and it makes every deletion of a walk find its entry. Neither of the others is inductive
while a split is under way: `GroupInv` says which pairs are torn then, an article before the walk that replies to one the
split has moved (`ToSplit`), and that what it has moved lies behind it in the new thread. `WalkInv` says that what a
walk has still to treat is what of its thread lies before it, and for a split that an article belongs to it exactly when
the one it replies to does (`Belongs`); a parent lies above its replies, so the split has met it. The start of a split
rests on the least closed set: but for the article itself each of its members is a reply to another (`LeastReplies`). The
proof attempt found two errors in the model: `goal` of a split had counted articles of other threads, strays
that had been posted to a split thread, which the walk passes by; and a recovery into an empty `.DIR` had kept its id. Both
are corrected, and a mix for each has been added to the run.

*`BrcList`*: a loop over the list stops at one place at most (`StopsOnce`), so `Place` is it; `AddCases` has the three
things `brc_add_read` can do. `ReadStaysRead` and `UnreadStaysUnread` follow an article from its place in the old list to
that in the new, which is the same or the next. What the second assumes is needed: the first mark of an empty list comes
with a mark for article 1, and what falls out of a full list takes the unread ones below it with it.
These are facts about one call.

*`Brc`*: that the sessions together keep what each call keeps rests on six invariants. `TypeInv` has the types; `PostsInv` that
what is read is there and no id is above `nowid`, so that no list has a mark that a later article gets as its id.
`PlaceInv` says where a session is: which of its variables mean something (`Placed`); that it has mapped the `entry` that has
the name (`Mapping`), and that the slot it works on is that of its board (`Bound`). The last two are about boards outside the
windows, like all that follows. `KeptInv` relates the row of a board, its one slot and what sessions in `brc_update` have read
and are going to write (`Kept`). A list is ahead of the row and of all those copies: what they have as read is read in it too;
and a slot that is not flagged has nothing the file has not, or there is a copy with it on its way. So the board may lose its slot, and
what is shown then, the row, has all that has been read. `ChangedInv` says of a flagged slot that no session is about to fill
it, having passed the point where it would copy it, and that there is a session that will write it back, or one that has died:
hence the last one out leaves nothing behind in `entry`. `RestSorted` has the lists nobody reads
any more. `NothingForgotten` alone is far from inductive: it speaks of one list, and which one that is changes when `entry`
is removed, a slot is filled and the file is moved. The facts about lists that carry the proof are those of `BrcList`: a session adds
to what is read (`ReadStaysRead`), and `Within`, being read wherever the other list reads, is transitive.

`NothingFalselyRead` is the other direction, and rests on a seventh invariant, `HonestInv`, that follows a mark back to where
it came from. It is about every list of a board that is still in use (`Held`): the row, the temporary file, its slot, what
sessions in `brc_update` will write. A mark in such a list is the id of an article that has been read, or all that there
was at that id and below it had been read when it was put there (`Backed`); and an article that the list has as
read, but is not, lies below `BRC_MAXNUM` that are (`Crowded`). The first part is what makes the second inductive: when
`brc_add_read` pushes the last mark out, and an article becomes read with it, then all marks of the new list lie above that
article (`AddFull`), differ, since they go down, and have been read, since they are backed: so there are `BRC_MAXNUM` of
them (`FullIsCrowded`). `brc_clear` is where the windows come in: it writes `nowid`, and an article that has
that id and is still to come has not been read. The sessions add nothing to this: each step but a command of the
board only copies lists that are in use already (`PlainHeld` to `SetHeld`).

The proof attempt showed that the window `evict` had been drawn too narrowly: between the choice of a slot and its filling
another session may mark the slot and go on to another board, or be about to copy it. No mix of the run had two sessions that
mark and one that loads a third board; one has been added. It is also the reason why the window is noted where the
slot is marked (`Late`) and not where it is filled: a slot that is filled although it is flagged, with nobody else
at work, would be an error of `brc_initial`, and is not excused. In the same way what the last one out removes is excused only
when somebody died or is still at work.

*`UserTable`*: `UserInv` has the types, what is known of each process by its place (`ClientInv`, `KilldInv`, `UserdInv`,
`FlushdInv`, `PowerInv`), that only userd and killd ever have the lock and are inside `setuserid_internal` exactly when
they do (`LockInv`), that requests in the queue are whole and the one who waits for an answer has asked for his own
name (`QueueInv`, `WaitInv`). `ChainsRight` speaks of the times when nobody has the lock; `ChainInv` says what holds between two of its
steps: with the slot that is on its way taken out (`Moving`), and under the name it is getting (`Now`), the chains `Stand`:
each `next` leads on, no slot is on two of them, a slot with a name is on the chain of its name and one without
is on the free chain. A name `id_invalid` refuses stands on the free chain, since `load_ucache` puts it there (`Place`); that
such a slot is never taken out of it is why `CanSet` fails for it, and why `OnlyRefusedRightly` needs `CleanTables`
(`UserTable_odd.cfg` shows a table with such a name at the head). The loop of `setuserid_internal` that starts at `next[-1]` when the
chain is empty is followed too: it then walks along the last chain and finds nothing. That the table is right
after `load_ucache`, at the start and after a restart, from every `.PASSWDS`, is shown by the least record after which it
is not (`Stood`, `Filled`); a name that is there twice makes slots leave the free chain (`UserTable_twice.cfg`), which is why `torn`
must be among the windows. Then a refused registration has a reason: the free chain has a slot, its head can be
taken out, so the name was found on its chain.

`AccountKept` is far from inductive: userd, killd and the managers act on slots they have found or were told of
before, and it says nothing of them. `KeptInv` adds who aims at which slot. An account whose deletion is decided, by a
manager, in the queue of userd or under killd (`Falls`), is nobody's any more (`FallInv`); a slot that was found for its name and not looked at again
(`Seeks`) still has that name, or none (`SeekInv`): so what a decision takes away is what was meant. The slot userd has in hand for a new
user has no name yet, no other slot has the new one and nobody aims at it (`HandInv`, from the chains of `UserInv`, which say that the
head of the free chain can only be taken if it is free, `FreeToGive`). Of each name there is one slot (`OneSlot`), which has the
password, the level and the home of who holds the name (`HolderInv`); a home that has stayed behind when a restart lost its account is
there only as long as nobody is registering past the point where it is removed (`HomeInv`). After a restart the table is what `load_ucache`
makes of the file: a record keeps its password and level, names are unique, and a name that is in the file once
stays (`Loaded`). The proof does not need window `walk`: what a search misses can hurt only who searches. It
needs one the model did not have before the attempt: who has been given a slot looks his name up again
and takes what he finds for his account, which a deletion may have in hand by then. `enter` is that window, and a mix of two
who register the same name beside a manager who deletes it has been added to show it.

**Only model-checked**: in `UserTable`, `SearchFinds`, which is about a search beside a slot that changes its chain. Liveness
stays with TLC throughout: termination of the search and of a thread operation, the end of every walk over a chain, the
removal of expired accounts; the prover has neither fairness nor ENABLED. No module that is proved about uses a RECURSIVE
operator: recursion is written as recursive functions, and what they compute is shown by the least index that goes wrong.

## 6. What is not modelled

Components without a module are listed with the reason in `PROJECT.json`. Within the modelled ones:

* The content of articles, titles, owners, formats of logs; permission checks decide who may start an operation, and
  every user of a run may.
* Events are published after a change and nothing in the core reads them.
* `BoardDir`: editing, cross-posting and pinning. The write
  of an inserted entry across a page border (`insert_func`) can fault; faults are modelled only where sizes are stale.
* `BoardRange`: a fault in the middle of a range (it happens before anything is changed, or not at all); renaming the
  article files and writing the bin are one step; a full disk; mailboxes.
* `Utmp`: messages are whole (a partial read leaves utmpd shifted, `miscd.c:373`); process groups (`kill(0)`); a web
  login's late `pid = 1` is in the model, but no web session is kicked in a passing run, for with that it breaks
  `OwnSlot`; a second logout
  of a visitor can end his own newer session, which `OwnWebSlot` leaves out.
* `BoardIndex`: the title index; several boards; more than the first deletion of an operation on a thread (`ThreadOp`).
* `UserTable`: changing a name, other fields of an account, sessions of a user who is deleted (kicking them is part of
  `KRm`, without its failures); `.badname` keeps a name for ever, not for a month; one restart.
* `ThreadOp`: the digest, where threads are told by their titles; importing and collecting a thread; the 1000 articles
  at which a split stops.
* `Brc`: marks handed over as a whole by the PHP functions `bbs2_brcdump` and `bbs2_brcsync`; notifyd, which reads
  the marks of others; deletion of articles; the user `guest`, who has no marks; a `.boardrc.gz` that is not there yet; a
  temporary file that cannot be opened, which leaves the flags as they are.
