------------------------------- MODULE MCUtmp -------------------------------
(* Instances of Utmp for TLC: who logs in as which user, who kicks whom.    *)
EXTENDS Utmp, TLC
CONSTANTS t1, t2, t3, w1, w2, w3, k1, k2
OneChain  == (1 :> 1) @@ (2 :> 1)
TwoUsers  == {1, 2}
Anything  == {0, 1, 2}
NotFirst  == {0, 2}
Zero      == {0}
TelnetPids == Telnet \cup {WebPid}
Everybody == (t1 :> 1) @@ (t2 :> 1) @@ (t3 :> 2) @@ (w1 :> 1) @@ (w2 :> 2) @@ (w3 :> 2)
UsersHere == [c \in Telnet \cup Web |-> Everybody[c]]
AllCome   == {Clients}
(* Three telnet sessions, those of user 2 are kicked; two web visitors of    *)
(* user 2 and a session of user 1, which is picked and kicked.               *)
TwoCasts  == {{t1, t2, t3, k1}, {t1, w2, w3, k2}}
OneAndTwo == [c \in Telnet \cup Web |-> IF c = t1 THEN 1 ELSE 2]
BothUsers == (k1 :> 2) @@ (k2 :> 1)
FirstUser == [k \in Kickers |-> 1]
=============================================================================
