----------------------------- MODULE MCListing -----------------------------
(* A small instance of Listing for TLC.  No reader looks at both tables, so  *)
(* runs start with one of them, either one, empty and its ids used up: all   *)
(* the edits of a run are then in the other.                                 *)
EXTENDS Listing

CONSTANTS alice, r1

OneTableInit == Init /\ \E t \in Table : rows[t] = {} /\ nextId[t] = MaxId + 1

OneTableSpec == OneTableInit /\ [][Next]_vars /\ Fairness
=============================================================================
