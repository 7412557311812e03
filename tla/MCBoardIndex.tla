---------------------------- MODULE MCBoardIndex ----------------------------
(* Instances of BoardIndex for TLC: .DIR has a marked first article and a    *)
(* reply, and each mix says what the processes do.                           *)
EXTENDS BoardIndex, TLC
CONSTANTS p1, p2, p3
E1 == [id |-> 1, root |-> TRUE, marked |-> TRUE]
E2 == [id |-> 2, root |-> FALSE, marked |-> FALSE]
OldTwo   == <<E1, E2>>

Three(a, b, c) == (p1 :> a) @@ (p2 :> b) @@ (p3 :> c)

SafeMixes ==
  {Three({"delete"}, {"undelete"}, {"read", "range"}),
   Three({"read"}, {"mark", "delete", "undelete"}, {"post", "mark_ix"}),
   Three({"read", "range"}, {"post"}, {"undelete"}),
   Three({"thread"}, {"post", "mark"}, {"delete", "undelete"}),
   Three({"post"}, {"post"}, {"delete"})}

(* One deletes a thread under the lock of .DIR, the other looks at .ORIGIN *)
(* or marks an article there.                                              *)
ThreadMix == {Three({"thread"}, {"read", "mark_ix"}, {"range"})}
(* Two users post, one deletes. *)
PostMix   == {Three({"post"}, {"post"}, {"delete"})}
=============================================================================
