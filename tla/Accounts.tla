------------------------------ MODULE Accounts ------------------------------
(* What registration, login and logout promise: a name belongs to whoever    *)
(* registers it first, only its owner is ever given a token for it, a        *)
(* request is let through only for a holder of a token while the user is     *)
(* logged in, and whatever is done under a name is done by a request that    *)
(* was let through for it.  Tables, keys, openids, tokens, times and the     *)
(* steps of a call are left out.                                             *)
CONSTANTS User, Client, Request, None

VARIABLES
    owner,     \* per name the one who registered it, or None
    told,      \* who was told that a name is registered
    holders,   \* who was given a token for which name
    loggedIn,  \* the users with a session
    admitted,  \* per request for whom it was let through, or Nobody
    acts       \* what was done for which user, by whom

vars == <<owner, told, holders, loggedIn, admitted, acts>>

Person(n, c) == [name |-> n, by |-> c]
Nobody == Person(None, None)

Init == /\ owner = [n \in User |-> None]
        /\ told = {} /\ holders = {} /\ loggedIn = {} /\ acts = {}
        /\ admitted = [r \in Request |-> Nobody]

(* The row is stored; the answer may be lost. *)
Register(n, c) ==
    /\ owner[n] = None
    /\ owner' = [owner EXCEPT ![n] = c]
    /\ told' \in {told, told \cup {Person(n, c)}}
    /\ UNCHANGED <<holders, loggedIn, admitted, acts>>

(* The session is stored; the token may be lost. *)
LogIn(n, c) ==
    /\ owner[n] = c
    /\ loggedIn' = loggedIn \cup {n}
    /\ holders' \in {holders, holders \cup {Person(n, c)}}
    /\ UNCHANGED <<owner, told, admitted, acts>>

(* Time passes and sessions end. *)
Lapse ==
    /\ loggedIn' \in SUBSET loggedIn
    /\ UNCHANGED <<owner, told, holders, admitted, acts>>

Admit(r, n, c) ==
    /\ admitted[r] = Nobody
    /\ n \in loggedIn /\ Person(n, c) \in holders
    /\ admitted' = [admitted EXCEPT ![r] = Person(n, c)]
    /\ UNCHANGED <<owner, told, holders, loggedIn, acts>>

(* A request does what it is for, or nothing when it claims another name. *)
Act(r) ==
    /\ admitted[r] # Nobody
    /\ acts' \in {acts, acts \cup {[for |-> admitted[r].name, by |-> admitted[r].by]}}
    /\ admitted' = [admitted EXCEPT ![r] = Nobody]
    /\ UNCHANGED <<owner, told, holders, loggedIn>>

LogOut(r) ==
    /\ admitted[r] # Nobody
    /\ loggedIn' \in {loggedIn, loggedIn \ {admitted[r].name}}
    /\ admitted' = [admitted EXCEPT ![r] = Nobody]
    /\ UNCHANGED <<owner, told, holders, acts>>

Next == \/ \E n \in User, c \in Client : Register(n, c) \/ LogIn(n, c)
        \/ \E r \in Request, n \in User, c \in Client : Admit(r, n, c)
        \/ \E r \in Request : Act(r) \/ LogOut(r)
        \/ Lapse

Spec == Init /\ [][Next]_vars
=============================================================================
