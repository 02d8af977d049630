------------------------------ MODULE ReadTally ------------------------------
(* What the read counter promises: the number of reads of a question, which  *)
(* grows by one with each read and by nothing else.  Where the number is     *)
(* kept, and that it moves from Redis to PostgreSQL, is left out.            *)
EXTENDS Integers

CONSTANT Question

VARIABLE tally

Init == tally = [q \in Question |-> 0]

Read(q) == tally' = [tally EXCEPT ![q] = @ + 1]

Spec == Init /\ [][\E q \in Question : Read(q)]_tally
=============================================================================
