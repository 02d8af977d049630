------------------------------ MODULE Exchange ------------------------------
(* What a client may count on, whatever happens to the processes behind the  *)
(* gateway.  A request comes once and ends once: with an answer that is      *)
(* final, or without one.  What it changes is never undone, nothing is       *)
(* changed before it comes or behind its answer, and the answer is true.     *)
(* Tokens, calls, pools, threads, processes and failures are left out.       *)
EXTENDS Integers

CONSTANTS
    Requests,
    Asked,      \* what a request may ask
    Admitted,   \* what the middleware lets through
    Changing,   \* what may change something
    Promising   \* what has changed something when it is answered with 200

VARIABLES
    ask,     \* of a request: what it asks
    phase,   \* of a request: coming, open, answered, dropped
    status,  \* of a request: the HTTP status of its answer, or 0
    effect   \* of a request: it has changed something

vars == <<ask, phase, status, effect>>

Init == /\ ask \in [Requests -> Asked]
        /\ phase \in [Requests -> {"coming", "dropped"}]
        /\ status = [r \in Requests |-> 0]
        /\ effect = [r \in Requests |-> FALSE]

Becomes(r, p) == phase'[r] = p
NoAnswer(r) == status'[r] = status[r]
NoChange(r) == effect'[r] = effect[r]

(* Its change is made, if it is one that may. *)
MayTakeEffect(r) == NoChange(r) \/ (ask[r] \in Changing /\ effect'[r])

Come(r) == /\ phase[r] = "coming" /\ Becomes(r, "open")
           /\ NoAnswer(r) /\ NoChange(r)

(* A client error means that nothing was changed; anything else says nothing *)
(* of that, except success where a change is promised.                       *)
Answer(r) == /\ phase[r] = "open" /\ Becomes(r, "answered")
             /\ status'[r] # 0 /\ NoChange(r)
             /\ status'[r] \in 400..499 => ~effect[r]
             /\ status'[r] = 200 => ask[r] \in Admitted
             /\ status'[r] = 200 /\ ask[r] \in Promising => effect[r]

(* Its client leaves, or the gateway dies. *)
Drop(r) == /\ phase[r] = "open" /\ Becomes(r, "dropped")
           /\ NoAnswer(r) /\ MayTakeEffect(r)

(* Work goes on for who waits, and for a while for who no longer does.       *)
Work(r) == /\ phase[r] \in {"open", "dropped"} /\ Becomes(r, phase[r])
           /\ NoAnswer(r) /\ MayTakeEffect(r)

Rest(r) == Becomes(r, phase[r]) /\ NoAnswer(r) /\ NoChange(r)

(* The end of a process concerns many requests at once. *)
Next == /\ UNCHANGED ask
        /\ \A r \in Requests : Come(r) \/ Answer(r) \/ Drop(r) \/ Work(r) \/ Rest(r)

Spec == Init /\ [][Next]_vars
=============================================================================
