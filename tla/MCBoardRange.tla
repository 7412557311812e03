---------------------------- MODULE MCBoardRange ----------------------------
(* Instances of BoardRange for TLC.                                          *)
EXTENDS BoardRange, TLC
CONSTANTS p1, p2, p3

Jobs3(a, b, c) == (p1 :> a) @@ (p2 :> b) @@ (p3 :> c)

(* Two managers of .DIR and a user who marks. *)
TwoManagers   == [job |-> Jobs3("DIR", "DIR", "marked"),
                  modes |-> {"token", "range", "mpdel"}, digested |-> {}]
(* Two users on the digest flag, and a manager of .DIR. *)
TwoOnDigest   == [job |-> Jobs3("DIR", "digest", "digest"),
                  modes |-> {"range", "force"}, digested |-> {1}]
(* A manager of .DIGEST, a user who marks, and one who posts. *)
DigestManager == [job |-> Jobs3("DIGEST", "marked", "post"),
                  modes |-> RangeModes, digested |-> {1, 2}]
SafeMixes     == {TwoManagers, TwoOnDigest, DigestManager}

(* A manager, while one posts; two managers; a manager of .DIGEST and a    *)
(* user who puts an article there.                                         *)
ManagerAndPoster == {[job |-> Jobs3("DIR", "post", "none"),
                      modes |-> {"range"}, digested |-> {}]}
Managers2        == {[job |-> Jobs3("DIR", "DIR", "none"),
                      modes |-> {"range"}, digested |-> {}]}
DigestAndDigest  == {[job |-> Jobs3("DIGEST", "digest", "none"),
                      modes |-> {"range"}, digested |-> {1}]}
=============================================================================
