----------------------------- MODULE MCUserTable -----------------------------
(* Instances of UserTable for TLC: three names in two chains, three slots.   *)
EXTENDS UserTable, TLC
CONSTANTS c1, c2, c3, a, b, d
TwoChains == (a :> 1) @@ (b :> 1) @@ (d :> 2)

(* What the three clients do; whether killd, flushd and the power switch act. *)
Mix(x, y, z, k, f) ==
  (c1 :> x) @@ (c2 :> y) @@ (c3 :> z) @@ ("userd" :> {})
    @@ ("killd"  :> IF k THEN {<<"kill", None>>} ELSE {})
    @@ ("flushd" :> IF f THEN {<<"flush", None>>} ELSE {})
    @@ ("power"  :> IF f THEN {<<"reboot", None>>} ELSE {})
SafeMixes ==
  {Mix({<<"telnet", a>>}, {<<"web", a>>}, {}, TRUE, FALSE),
   Mix({<<"telnet", d>>}, {<<"web", d>>}, {<<"delete", a>>}, FALSE, FALSE),
   Mix({<<"telnet", a>>}, {<<"delete", a>>}, {}, TRUE, FALSE),
   Mix({<<"web", d>>}, {<<"delete", d>>}, {}, TRUE, FALSE),
   Mix({<<"login", a>>}, {<<"delete", b>>}, {}, TRUE, FALSE),
   Mix({<<"telnet", a>>}, {<<"delete", a>>}, {}, FALSE, TRUE),
   Mix({<<"web", d>>}, {}, {}, TRUE, TRUE),
   Mix({<<"telnet", d>>}, {<<"web", b>>}, {<<"delete", b>>}, FALSE, FALSE),
   Mix({<<"telnet", d>>}, {<<"web", d>>}, {<<"delete", d>>}, FALSE, FALSE)}

(* The same with more at once, without the property of fairness. *)
TornMixes == {Mix({<<"telnet", d>>}, {<<"web", a>>}, {}, TRUE, TRUE)}
WideMixes ==
  {Mix({<<"telnet", d>>}, {<<"web", a>>}, {<<"delete", a>>}, TRUE, FALSE)} \cup TornMixes

User(n, w) == [name |-> n, who |-> Earlier, level |-> 1, logins |-> 1, expired |-> w]
OldTables   == {<<User(a, TRUE), User(b, FALSE), Empty(None)>>}

(* .PASSWDS has a name twice, the later record with more logins. *)
TwiceTables == {<<User(a, FALSE), Empty(None), [User(a, FALSE) EXCEPT !.logins = 2]>>}
SomeTables  == OldTables \cup TwiceTables
(* The record of a name id_invalid refuses is the first of the free chain. *)
OddTables   == {<<User(d, FALSE), Empty(None), Empty(None)>>}
(* An account worth nothing in the last slot, and one in the first. *)
LastTables  == {<<User(a, TRUE), Empty(None), User(b, TRUE)>>}

(* What ChainsRight and ExpiredGone make an exception of. *)
FreeFound == lock = Nobody => \A s \in Uids : pw[s].name = None => s \in InChain(0)
AllGone   == \A s \in Uids :
  (tasks["killd"] # {} /\ pw[s].expired /\ pw[s].name # None) ~> (~pw[s].expired \/ pw[s].name = None)
=============================================================================
