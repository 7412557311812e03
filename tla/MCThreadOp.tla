------------------------------ MODULE MCThreadOp ------------------------------
(* Instances of ThreadOp for TLC: three processes, a thread of four articles *)
(* with another one in the midst, room for one reply.                        *)
EXTENDS ThreadOp, TLC
CONSTANTS p1, p2, p3

Mix(a, b, c) == (p1 :> a) @@ (p2 :> b) @@ (p3 :> c)
SafeMixes ==
  {Mix("delete", "reply", "recover"), Mix("delete", "split", "none"), Mix("delete", "remove", "reply"),
   Mix("mark", "remove", "recover"), Mix("markdel", "delmarkdel", "reply"),
   Mix("split", "reply", "remove"), Mix("split", "split", "none"), Mix("split", "remove", "recover"),
   Mix("delete", "delete", "none"), Mix("mark", "split", "flag"),
   Mix("delete", "remove", "recover"), Mix("split", "reply", "split")}

New(id, g, re, f) == [id |-> id, group |-> g, re |-> re, flags |-> f]
SomeDirs == {<<New(1, 1, 1, {}), New(2, 1, 1, {}), New(3, 3, 3, {}), New(4, 1, 2, m), New(5, 1, 4, {"x"})>> : m \in {{}, {"m"}}}
=============================================================================
