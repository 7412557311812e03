----------------------------- MODULE MCBoardDir -----------------------------
(***************************************************************************)
(* Instances of BoardDir for TLC.  An instance says which operations each  *)
(* process performs, which articles exist before, and bounds the ids.      *)
(***************************************************************************)
EXTENDS BoardDir, TLC

CONSTANTS p1, p2, p3, f1, f2, f3, f4

OldOne   == <<f1>>
OldTwo   == <<f1, f2>>

(* Deleting, recovering and posting in different hands. *)
OneDeleter == (p1 :> {"delete"}) @@ (p2 :> {"undelete"}) @@ (p3 :> {"post"})

Posters == (p1 :> {"post"}) @@ (p2 :> {"post", "flag"})

(* One process does everything, the other only flags. *)
OneWriter == (p1 :> {"post", "delete", "undelete"}) @@ (p2 :> {"flag"})

DeleterAndPoster == (p1 :> {"delete"}) @@ (p2 :> {"post"})

(* Two users who delete; one recovers as well, the other flags. *)
TwoDeleters == (p1 :> {"delete", "undelete"}) @@ (p2 :> {"delete", "flag"})

TwoRecoverers == (p1 :> {"undelete"}) @@ (p2 :> {"undelete"})

=============================================================================
