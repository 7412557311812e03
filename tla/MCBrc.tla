------------------------------- MODULE MCBrc -------------------------------
(* Instances of Brc for TLC: three boards, two slots, lists of three.      *)
EXTENDS Brc, TLC
CONSTANTS t, u, w

Cmd(o, b, f) == [op |-> o, b |-> b, id |-> f]
Mix(a, b, c) == (t :> a) @@ (u :> b) @@ (w :> c)

(* Four articles on the first board, where one more may come; the nowid of *)
(* the second is ahead after a boot.                                       *)
SomePosts == (1 :> 4) @@ (2 :> 2) @@ (3 :> 2)
SomeNowid == (1 :> 4) @@ (2 :> 3) @@ (3 :> 2)
OnePost   == (1 :> 5) @@ (2 :> 3) @@ (3 :> 2)

(* One session: the list of a board overflows, boards are evicted.         *)
Alone ==
  {Mix({Cmd("read", 1, f) : f \in 1 .. 4} \cup {Cmd("read", 2, 2), Cmd("look", 3, 0)}, {}, {}),
   Mix({Cmd("read", 1, 2), Cmd("to", 1, 3), Cmd("read", 2, 1), Cmd("clear", 3, 0), Cmd("list", 1, 0)}, {}, {}),
   Mix({}, {}, {Cmd("read", 1, 3), Cmd("read", 1, 4), Cmd("read", 2, 2), Cmd("clear", 3, 0), Cmd("list", 2, 0)})}

(* Two sessions: on one board, on three, while an article comes, of telnet. *)
Together ==
  {Mix({Cmd("read", 1, 2), Cmd("read", 1, 4)}, {}, {Cmd("read", 1, 3)}),
   Mix({Cmd("read", 1, 2)}, {}, {Cmd("clear", 1, 0), Cmd("look", 2, 0)}),
   Mix({Cmd("read", 1, 2)}, {}, {Cmd("read", 2, 2), Cmd("read", 3, 2)}),
   Mix({Cmd("list", 1, 0)}, {}, {Cmd("read", 1, 5)}),
   Mix({Cmd("read", 1, 2)}, {Cmd("read", 1, 4)}, {}),
   Mix({Cmd("to", 1, 3), Cmd("read", 2, 2), Cmd("look", 3, 0)}, {}, {Cmd("to", 1, 3)})}
SomeMixes == Alone \cup Together
=============================================================================
