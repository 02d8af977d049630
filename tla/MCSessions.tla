----------------------------- MODULE MCSessions -----------------------------
(* Small instances of Sessions for TLC. *)
EXTENDS Sessions, TLC

CONSTANTS alice, bob, p1, p2, o1, o2, r1, r2

(* Names, people, openids and slots are interchangeable. *)
Interchangeable == Permutations(User) \cup Permutations(Client)
                   \cup Permutations(OpenId) \cup Permutations(Request)
=============================================================================
