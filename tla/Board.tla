------------------------------- MODULE Board -------------------------------
(***************************************************************************)
(* What the index of a board promises to its users, whatever the file it   *)
(* is kept in: a set of entries that changes by one entry at a time.  A    *)
(* new post gets an id no entry of the index has and is added to what is   *)
(* there; a deletion takes away one entry and a recovery brings back one;  *)
(* a flag operation touches the flag of one entry.  Nothing else happens   *)
(* to any entry.                                                           *)
(***************************************************************************)
EXTENDS Naturals

CONSTANT Posts              \* the article files

VARIABLE index              \* the set of entries

Entry == [id : Nat, name : Posts, marked : BOOLEAN]

Init == /\ index \subseteq Entry
        /\ \A r, s \in index : r.id = s.id => r = s

(* An entry is added, under an id and for an article not yet in the index: *)
(* a new post, or a deleted one that is brought back.                      *)
Add == \E r \in index' \ index :
          /\ r \in Entry
          /\ \A s \in index : s.id # r.id /\ s.name # r.name
          /\ index' = index \cup {r}

(* One entry is deleted. *)
Remove == \E r \in index : index' = index \ {r}

(* The flag of one entry is set or cleared. *)
Flag == \E r \in index :
           index' = (index \ {r}) \cup {[r EXCEPT !.marked = ~r.marked]}

Next == Add \/ Remove \/ Flag

Spec == Init /\ [][Next]_index
=============================================================================
