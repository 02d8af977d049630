---------------------------- MODULE VotePipeline ----------------------------
(* Agreeing with an answer is asynchronous.  A gRPC call reads the answer   *)
(* and the caller's vote, publishes a VoteMessage to a Pulsar topic and     *)
(* replies at once with a guess of the new count; a consumer on an          *)
(* Exclusive subscription applies each message to PostgreSQL in a           *)
(* transaction (a row of users_votes and answers.agree_count) and then      *)
(* acknowledges it.                                                         *)
(*                                                                          *)
(* The broker is modelled from how user_vote.rs uses it: an ordered topic,  *)
(* delivery in order, and, when a subscription is opened again, redelivery  *)
(* of everything not acknowledged by then.                                  *)
EXTENDS Integers, Sequences, FiniteSets

CONSTANTS
    User,       \* usernames
    Answer,     \* ids of answers
    Deletable,  \* the answers their owner may delete while the system runs
    Request,    \* slots for gRPC calls in flight
    Consumer,   \* processes that may run UserVoteRepository::consumer
    Action,     \* actions a caller may name
    Fault,      \* kinds of failure that may occur
    None,       \* no consumer holds the subscription
    U64,        \* stands for 2^64
    MaxMsgs,    \* bound: messages published
    MaxFaults   \* bound: failures

FaultKind == {"read", "publish", "db", "commit", "ack", "stop", "crash", "connection"}

ASSUME DeletableAssumption == Deletable \subseteq Answer
ASSUME ActionAssumption == Action \subseteq {"up", "down", "other"}
ASSUME FaultAssumption == Fault \subseteq FaultKind
ASSUME NoneAssumption == None \notin Consumer
ASSUME BoundAssumption == /\ MaxMsgs \in Nat /\ MaxFaults \in Nat
                          /\ U64 \in Nat /\ U64 > MaxMsgs

VARIABLES
    answers,     \* PostgreSQL: ids of the rows of table answers
    agreeCount,  \* PostgreSQL: answers.agree_count
    votes,       \* PostgreSQL: rows of table users_votes
    nextId,      \* PostgreSQL: the next bigserial id of users_votes
    topic,       \* Pulsar: every message stored in the topic, in order
    acked,       \* Pulsar: positions of the acknowledged messages
    owner,       \* Pulsar: the consumer that holds the Exclusive subscription
    req,         \* the gRPC calls in flight
    cons,        \* the consumers
    faults,      \* failures so far
    failed       \* history: positions of the messages whose handling failed

tables == <<answers, agreeCount, votes, nextId>>
broker == <<topic, acked, owner>>
vars == <<tables, broker, req, cons, faults, failed>>

-----------------------------------------------------------------------------
(* Types and initial state *)

Message == [target : Answer, by : User, action : Action]
Vote == [id : Nat, target : Answer, by : User]
NotStarted == [pc |-> "off", msg |-> 0, next |-> 1, skip |-> {}]
Idle == [pc |-> "idle"]
Call == {Idle}
        \cup [pc : {"found", "allowed", "accepted"}, msg : Message, count : Nat]
ConsumerState == [pc : {"off", "poll", "check", "insert", "cancel", "ack"},
                  msg : Nat, next : Nat, skip : SUBSET Nat]

Init == /\ answers = Answer
        /\ agreeCount = [a \in Answer |-> 0]
        /\ votes = {}
        /\ nextId = 1
        /\ topic = << >>
        /\ acked = {}
        /\ owner = None
        /\ req = [r \in Request |-> Idle]
        /\ cons = [c \in Consumer |-> NotStarted]
        /\ faults = 0 /\ failed = {}

(* One more failure of kind f. *)
Fails(f) == f \in Fault /\ faults < MaxFaults /\ faults' = faults + 1

(* The rows of users_votes by user u on answer a, and whether there is one. *)
Rows(u, a) == {v \in votes : v.by = u /\ v.target = a}
IsVoted(u, a) == Rows(u, a) # {}

(* Defect: the signed count is put into the reply as it is. *)
AsU64_Unconverted(n) == n

(* `as u64` of an i64. *)
AsU64(n) == n % U64

-----------------------------------------------------------------------------
(* The gRPC calls agree_answer and answer_agree, whose bodies are the same. *)
(* A call that is refused or fails changes nothing but its own slot.        *)

(* find_one: the answer's row, agree_count included, is read; a call on an  *)
(* answer that is gone fails at once.                                       *)
FindAnswer(r, m) ==
    /\ req[r] = Idle
    /\ m.target \in answers
    /\ req' = [req EXCEPT ![r] = [pc |-> "found", msg |-> m, count |-> agreeCount[m.target]]]
    /\ UNCHANGED <<tables, broker, cons, faults, failed>>

(* An "up" of a user who has a vote is refused, and so is every other action *)
(* of a user who has none.                                                  *)
Allowed(m, voted) == IF m.action = "up" THEN ~voted ELSE voted

Decide(r, voted) ==
    req' = [req EXCEPT ![r] = IF Allowed(req[r].msg, voted) THEN [@ EXCEPT !.pc = "allowed"]
                                                           ELSE Idle]

(* is_voted(..).unwrap_or(false): a query that fails reads as "no vote". *)
CheckVoted(r) ==
    /\ req[r].pc = "found"
    /\ \/ Decide(r, IsVoted(req[r].msg.by, req[r].msg.target)) /\ UNCHANGED faults
       \/ Decide(r, FALSE) /\ Fails("read")
    /\ UNCHANGED <<tables, broker, cons, failed>>

(* The count of the reply: the one read by find_one, moved by one. *)
RepliedCount(call) ==
    AsU64(IF call.msg.action = "up" THEN call.count + 1 ELSE call.count - 1)

(* The message is stored and the call replies state 1. *)
Publish(r) ==
    /\ req[r].pc = "allowed" /\ Len(topic) < MaxMsgs
    /\ topic' = Append(topic, req[r].msg)
    /\ req' = [req EXCEPT ![r] = [pc |-> "accepted", msg |-> @.msg, count |-> RepliedCount(@)]]
    /\ UNCHANGED <<tables, acked, owner, cons, faults, failed>>

(* publish returns an error: the producer was not built (its name is taken) *)
(* or its receipt never came, and then the message may have been stored.    *)
PublishFails(r) ==
    /\ req[r].pc = "allowed" /\ Fails("publish")
    /\ \/ UNCHANGED topic
       \/ Len(topic) < MaxMsgs /\ topic' = Append(topic, req[r].msg)
    /\ req' = [req EXCEPT ![r] = Idle]
    /\ UNCHANGED <<tables, acked, owner, cons, failed>>

(* The reply has reached the caller. *)
Return(r) ==
    /\ req[r].pc = "accepted"
    /\ req' = [req EXCEPT ![r] = Idle]
    /\ UNCHANGED <<tables, broker, cons, faults, failed>>

-----------------------------------------------------------------------------
(* The consumer loop *)

(* A consumer that goes on to the next message without an acknowledgement   *)
(* has failed with the one at hand.                                         *)
Goto(c, pc) ==
    /\ cons' = [cons EXCEPT ![c].pc = pc]
    /\ failed' = IF pc = "poll" /\ cons[c].pc # "ack" THEN failed \cup {cons[c].msg} ELSE failed

MsgOf(c) == topic[cons[c].msg]

(* A process calls consumer(): the Exclusive subscription refuses a second  *)
(* consumer, and redelivers what is not acknowledged.                       *)
Subscribe(c) ==
    /\ cons[c].pc = "off" /\ owner = None
    /\ owner' = c
    /\ cons' = [cons EXCEPT ![c] = [pc |-> "poll", msg |-> 0, next |-> 1, skip |-> acked]]
    /\ UNCHANGED <<tables, topic, acked, req, faults, failed>>

(* The client library reconnects by itself while the loop goes on. *)
Reconnect(c) ==
    /\ cons[c].pc # "off" /\ owner = None
    /\ owner' = c
    /\ cons' = [cons EXCEPT ![c] = [pc |-> @.pc, msg |-> @.msg, next |-> 1, skip |-> acked]]
    /\ UNCHANGED <<tables, topic, acked, req, faults, failed>>

(* What the broker still has to deliver to c on its subscription. *)
Undelivered(c) == {i \in DOMAIN topic : i >= cons[c].next /\ i \notin cons[c].skip}

(* Defect: the message is acknowledged when it arrives, before its handling. *)
Receive_AcksFirst(c) ==
    /\ cons[c].pc = "poll" /\ owner = c
    /\ \E i \in Undelivered(c) :
         /\ \A j \in Undelivered(c) : i <= j
         /\ cons' = [cons EXCEPT ![c] = [pc |-> "check", msg |-> i, next |-> i + 1, skip |-> @.skip]]
         /\ acked' = acked \cup {i}
    /\ UNCHANGED <<tables, topic, owner, req, faults, failed>>

(* consumer.try_next() yields the next message. *)
Receive(c) ==
    /\ cons[c].pc = "poll" /\ owner = c
    /\ \E i \in Undelivered(c) :
         /\ \A j \in Undelivered(c) : i <= j
         /\ cons' = [cons EXCEPT ![c] = [pc |-> "check", msg |-> i, next |-> i + 1, skip |-> @.skip]]
    /\ UNCHANGED <<tables, broker, req, faults, failed>>

(* Defect: no test of has_voted before an insert. *)
NextStep_VotesAgain(action, voted) ==
    CASE action = "up"   -> "insert"
      [] action = "down" -> IF voted THEN "cancel" ELSE "ack"
      [] OTHER           -> "poll"

(* Where handler_answer_agree goes on, given the vote it found. *)
NextStep(action, voted) ==
    CASE action = "up"   -> IF voted THEN "ack" ELSE "insert"
      [] action = "down" -> IF voted THEN "cancel" ELSE "ack"
      [] OTHER           -> "poll"   \* bail!: logged, not acknowledged

(* The consumer is no more: its subscription is free. *)
Gone(c) == /\ cons' = [cons EXCEPT ![c] = NotStarted]
           /\ owner' = IF owner = c THEN None ELSE owner
           /\ UNCHANGED failed

(* Defect: `?` instead of `continue`, an unsupported action ends the loop. *)
CheckHandled_Fatal(c) ==
    /\ cons[c].pc = "check"
    /\ IF MsgOf(c).action = "other"
         THEN Gone(c)
         ELSE /\ Goto(c, NextStep(MsgOf(c).action, IsVoted(MsgOf(c).by, MsgOf(c).target)))
              /\ UNCHANGED owner
    /\ UNCHANGED <<tables, topic, acked, req, faults>>

CheckHandled(c) ==
    /\ cons[c].pc = "check"
    /\ Goto(c, NextStep(MsgOf(c).action, IsVoted(MsgOf(c).by, MsgOf(c).target)))
    /\ UNCHANGED <<tables, broker, req, faults>>

(* Defect: the `continue` is missing, a message is acknowledged although its *)
(* handling failed.                                                         *)
HandlerFails_Acks(c) ==
    /\ cons[c].pc \in {"check", "insert", "cancel"} /\ Fails("db")
    /\ Goto(c, "ack")
    /\ UNCHANGED <<tables, broker, req>>

(* The handler returns an error before anything is committed: the loop logs *)
(* it and continues, and the message stays unacknowledged.                  *)
HandlerFails(c) ==
    /\ cons[c].pc \in {"check", "insert", "cancel"} /\ Fails("db")
    /\ Goto(c, "poll")
    /\ UNCHANGED <<tables, broker, req>>

(* commit() may report an error for a transaction that did commit. *)
Committed(c) == \/ Goto(c, "ack") /\ UNCHANGED faults
                \/ Goto(c, "poll") /\ Fails("commit")

(* vote_answer: one transaction, rolled back when the answer is gone. *)
VoteAnswer(c) ==
    LET m == MsgOf(c) IN
    /\ cons[c].pc = "insert"
    /\ \/ /\ m.target \in answers
          /\ votes' = votes \cup {[id |-> nextId, target |-> m.target, by |-> m.by]}
          /\ nextId' = nextId + 1
          /\ agreeCount' = [agreeCount EXCEPT ![m.target] = @ + 1]
          /\ Committed(c)
       \/ /\ m.target \notin answers
          /\ Goto(c, "poll")
          /\ UNCHANGED <<agreeCount, votes, nextId, faults>>
    /\ UNCHANGED <<answers, broker, req>>

(* agree_count of an answer after a cancelled vote: greatest(n - 1, 0). *)
Decremented(n) == IF n > 1 THEN n - 1 ELSE 0

(* Defect: the first `ensure!` accepts any number of deleted votes. *)
CancelVoteAnswer_AnyRows(c) ==
    LET m == MsgOf(c) IN
    /\ cons[c].pc = "cancel"
    /\ IF m.target \in answers
         THEN /\ votes' = votes \ Rows(m.by, m.target)
              /\ agreeCount' = [agreeCount EXCEPT ![m.target] = Decremented(@)]
              /\ Committed(c)
         ELSE Goto(c, "poll") /\ UNCHANGED <<agreeCount, votes, faults>>
    /\ UNCHANGED <<answers, nextId, broker, req>>

(* Defect: the second `ensure!` is missing, a vote on a deleted answer goes. *)
CancelVoteAnswer_Unchecked(c) ==
    LET m == MsgOf(c) IN
    /\ cons[c].pc = "cancel"
    /\ votes' = votes \ Rows(m.by, m.target)
    /\ agreeCount' = [agreeCount EXCEPT ![m.target] = Decremented(@)]
    /\ Committed(c)
    /\ UNCHANGED <<answers, nextId, broker, req>>

(* cancel_vote_answer: one transaction, rolled back unless it deletes       *)
(* exactly one vote of a live answer.                                       *)
CancelVoteAnswer(c) ==
    LET m == MsgOf(c) IN
    /\ cons[c].pc = "cancel"
    /\ \/ /\ Cardinality(Rows(m.by, m.target)) = 1 /\ m.target \in answers
          /\ votes' = votes \ Rows(m.by, m.target)
          /\ agreeCount' = [agreeCount EXCEPT ![m.target] = Decremented(@)]
          /\ Committed(c)
       \/ /\ ~(Cardinality(Rows(m.by, m.target)) = 1 /\ m.target \in answers)
          /\ Goto(c, "poll")
          /\ UNCHANGED <<agreeCount, votes, faults>>
    /\ UNCHANGED <<answers, nextId, broker, req>>

(* consumer.ack(&msg), which reaches the broker on the current subscription. *)
Ack(c) ==
    /\ cons[c].pc = "ack"
    /\ acked' = IF owner = c THEN acked \cup {cons[c].msg} ELSE acked
    /\ Goto(c, "poll")
    /\ UNCHANGED <<tables, topic, owner, req, faults>>

(* ack(..).await? and try_next()? end the loop with the error, and a dropped *)
(* shutdown sender ends it between two messages.  Nothing starts it again.  *)
AckFails(c) ==
    /\ cons[c].pc = "ack" /\ Fails("ack")
    /\ Gone(c)
    /\ UNCHANGED <<tables, topic, acked, req>>

LoopEnds(c) ==
    /\ cons[c].pc = "poll" /\ Fails("stop")
    /\ Gone(c)
    /\ UNCHANGED <<tables, topic, acked, req>>

(* The process dies at any point of the loop; a transaction it had not      *)
(* committed is rolled back by PostgreSQL.                                  *)
Crash(c) ==
    /\ cons[c].pc # "off" /\ Fails("crash")
    /\ Gone(c)
    /\ UNCHANGED <<tables, topic, acked, req>>

(* The broker gives up on the connection of a consumer that is still alive. *)
ConnectionLost(c) ==
    /\ owner = c /\ Fails("connection")
    /\ owner' = None
    /\ UNCHANGED <<tables, topic, acked, req, cons, failed>>

-----------------------------------------------------------------------------
(* delete_answer by the owner of the answer: its votes stay behind. *)
DeleteAnswer(a) ==
    /\ a \in answers \cap Deletable
    /\ answers' = answers \ {a}
    /\ UNCHANGED <<agreeCount, votes, nextId, broker, req, cons, faults, failed>>

ConsumerStep(c) ==
    \/ Subscribe(c) \/ Reconnect(c) \/ Receive(c) \/ CheckHandled(c) \/ HandlerFails(c)
    \/ VoteAnswer(c) \/ CancelVoteAnswer(c) \/ Ack(c) \/ AckFails(c) \/ LoopEnds(c)
    \/ Crash(c) \/ ConnectionLost(c)

RequestStep(r) ==
    \/ \E m \in Message : FindAnswer(r, m)
    \/ CheckVoted(r) \/ Publish(r) \/ PublishFails(r) \/ Return(r)

Next == \/ \E r \in Request : RequestStep(r)
        \/ \E c \in Consumer : ConsumerStep(c)
        \/ \E a \in Answer : DeleteAnswer(a)

Spec == Init /\ [][Next]_vars

(* The consumer task is scheduled, its queries and the broker answer, and   *)
(* consumer() is called; no call and no failure has to happen.              *)
Fairness == \A c \in Consumer :
    WF_vars(\/ Subscribe(c) \/ Reconnect(c) \/ Receive(c) \/ CheckHandled(c)
            \/ VoteAnswer(c) \/ CancelVoteAnswer(c) \/ Ack(c))

FairSpec == Spec /\ Fairness

-----------------------------------------------------------------------------
(* Properties *)

(* Every variable has its type; in particular a reply carries a uint64.      *)
(* (The records and casts of user_vote.rs and app.rs.)                       *)
TypeOK ==
    /\ answers \subseteq Answer
    /\ agreeCount \in [Answer -> Nat]
    /\ votes \subseteq Vote /\ nextId \in Nat
    /\ topic \in Seq(Message)
    /\ acked \subseteq DOMAIN topic
    /\ owner \in Consumer \cup {None}
    /\ req \in [Request -> Call]
    /\ cons \in [Consumer -> ConsumerState]
    /\ \A c \in Consumer : cons[c].pc \notin {"off", "poll"} => cons[c].msg \in DOMAIN topic
    /\ faults \in Nat /\ failed \subseteq DOMAIN topic

(* The votes on an answer, whoever cast them. *)
VotesOn(a) == {v \in votes : v.target = a}

(* The stored counter of every answer that exists is the number of its vote  *)
(* rows, however many consumers apply, lose or repeat messages.              *)
(* (The two transactions of vote_answer and cancel_vote_answer.)             *)
CountMatchesVotes == \A a \in answers : agreeCount[a] = Cardinality(VotesOn(a))

(* No user counts twice on an answer, however often a message is delivered,  *)
(* although users_votes has no unique key: the consumer's is_voted test, out *)
(* of the transaction, is all that prevents it.                              *)
OneVotePerUser == \A v, w \in votes : v.by = w.by /\ v.target = w.target => v = w

(* When a message is acknowledged, and so will never be delivered again, its *)
(* effect is in the tables: the loop acknowledges nothing it has not done.   *)
AckedAfterEffect ==
    [][\A i \in acked' \ acked :
          LET m == topic[i] IN
          /\ m.action = "up" => IsVoted(m.by, m.target)
          /\ m.action = "down" => ~IsVoted(m.by, m.target)
          /\ m.action # "other"]_vars

(* The positions of the messages of user u on answer a. *)
MessagesOf(u, a) == {i \in DOMAIN topic : topic[i].by = u /\ topic[i].target = a
                                         /\ topic[i].action \in {"up", "down"}}

(* Once the consumer has nothing left to handle, each user's vote on a live  *)
(* answer is what that user's last message said, restarts, redeliveries and  *)
(* what fails for others notwithstanding.  That is not so for a user one of  *)
(* whose messages failed: it may be applied behind later ones.               *)
LastMessageWins ==
    \A c \in Consumer : owner = c /\ cons[c].pc = "poll" /\ Undelivered(c) = {} =>
        \A u \in User, a \in answers : MessagesOf(u, a) \cap failed = {} =>
            \A i \in MessagesOf(u, a) :
                (\A j \in MessagesOf(u, a) : j <= i) =>
                    (IsVoted(u, a) <=> topic[i].action = "up")

(* Message i failed, and the consumer that holds the subscription is past it *)
(* (the `continue` of the loop, user_vote.rs:262): with no nack it does not  *)
(* come again before that subscription ends.                                 *)
LeftBehind(i) ==
    /\ i \in failed
    /\ \E c \in Consumer : owner = c /\ cons[c].pc = "poll" /\ i \notin Undelivered(c)

(* Every stored vote on an answer that stays is in the end acknowledged, or  *)
(* its handler or commit failed and it is left behind (not acknowledged for  *)
(* as long as the consumer lives); when the subscription ends it is due      *)
(* again.  So a message that fails, once or for good (an unsupported action, *)
(* a deleted answer), does not hold up those behind it, and none that never  *)
(* failed is passed over.                                                    *)
EveryVoteHandled ==
    \A i \in 1..MaxMsgs :
        (i \in DOMAIN topic /\ topic[i].action # "other" /\ topic[i].target \notin Deletable)
            ~> (i \in acked \/ LeftBehind(i))

(* cancel_vote_answer refuses to commit "answer vote record does not exist"  *)
(* (user_vote.rs:121) only when there is no such record, never because there *)
(* are several: a user can always take a vote back.                          *)
VoteCanBeCancelled ==
    \A c \in Consumer : cons[c].pc = "cancel" =>
        Cardinality(Rows(MsgOf(c).by, MsgOf(c).target)) <= 1

(* A reply carries a number of likes the answer can have ("uint64            *)
(* agree_count" of AgreeAnswerReply): no more than there are messages.       *)
RepliedCountPlausible ==
    \A r \in Request : req[r].pc = "accepted" => req[r].count <= MaxMsgs

(* VoteLedger, with a pair (user, answer) for the rows of that pair. *)
Ledger == INSTANCE VoteLedger WITH voters <- {<<v.by, v.target>> : v \in votes}

(* The tables move as VoteLedger says: one vote of one user at a time, on an *)
(* answer that exists, with the counter in step.                             *)
ImplementsLedger == Ledger!Spec
=============================================================================
