----------------------------- MODULE VoteLedger -----------------------------
(* What the vote tables promise a reader of the service, with the broker,   *)
(* the consumer and the requests left out: a set of (user, answer) pairs,   *)
(* and for every answer a counter that moves by exactly one with that set.  *)
EXTENDS Integers

CONSTANTS User,      \* usernames
          Answer,    \* ids of answers
          Deletable  \* the answers their owner may delete

VARIABLES answers,     \* rows of table answers
          agreeCount,  \* answers.agree_count
          voters       \* the (user, answer) pairs that count as a vote

vars == <<answers, agreeCount, voters>>

Init == /\ answers = Answer
        /\ agreeCount = [a \in Answer |-> 0]
        /\ voters = {}

(* A user who has no vote on a live answer casts one. *)
Vote(u, a) ==
    /\ a \in answers /\ <<u, a>> \notin voters
    /\ voters' = voters \cup {<<u, a>>}
    /\ agreeCount' = [agreeCount EXCEPT ![a] = @ + 1]
    /\ UNCHANGED answers

(* A user who has a vote on a live answer withdraws it. *)
Cancel(u, a) ==
    /\ a \in answers /\ <<u, a>> \in voters
    /\ voters' = voters \ {<<u, a>>}
    /\ agreeCount' = [agreeCount EXCEPT ![a] = @ - 1]
    /\ UNCHANGED answers

(* The owner deletes the answer: its votes stay behind, counted by nothing. *)
Delete(a) ==
    /\ a \in answers \cap Deletable
    /\ answers' = answers \ {a}
    /\ UNCHANGED <<agreeCount, voters>>

Next == \/ \E u \in User, a \in Answer : Vote(u, a) \/ Cancel(u, a)
        \/ \E a \in Answer : Delete(a)

Spec == Init /\ [][Next]_vars
=============================================================================
