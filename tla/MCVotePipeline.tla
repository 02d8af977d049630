--------------------------- MODULE MCVotePipeline ---------------------------
(* Small instances of VotePipeline for TLC. *)
EXTENDS VotePipeline, TLC

CONSTANTS alice, bob, a1, a2, r1, r2, c1, c2

(* Users, and consumer processes, are interchangeable. *)
Interchangeable == Permutations(User) \cup Permutations(Consumer)
=============================================================================
