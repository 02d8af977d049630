------------------------- MODULE VotePipelineProofs -------------------------
(* What VotePipeline guarantees for every number of users, answers, calls,  *)
(* consumers, messages and failures.                                        *)
EXTENDS VotePipeline, FiniteSetTheorems, TLAPS

(* The count put into a reply is a uint64, whatever count was read. *)
LEMMA RepliedCountType ==
    ASSUME NEW call \in Call, call.pc # "idle"
    PROVE  RepliedCount(call) \in Nat
<1>1. U64 \in Nat /\ U64 > 0
  BY BoundAssumption
<1>2. call.count \in Nat
  BY DEF Call, Idle
<1>3. ASSUME NEW n \in Int PROVE n % U64 \in Nat
  BY <1>1, <1>3
<1>4. QED
  BY <1>2, <1>3 DEF RepliedCount, AsU64

(* Where the handler goes on is a program counter that holds a message. *)
LEMMA NextStepType ==
    ASSUME NEW action, NEW voted \in BOOLEAN
    PROVE  NextStep(action, voted) \in {"ack", "insert", "cancel", "poll"}
BY DEF NextStep

(* A failure is counted. *)
LEMMA FaultsType ==
    ASSUME TypeOK, NEW f, faults' = faults \/ Fails(f)
    PROVE  faults' \in Nat
BY DEF TypeOK, Fails

(* A message in the topic is a message. *)
LEMMA InTopic ==
    ASSUME TypeOK, NEW c \in Consumer, cons[c].pc \notin {"off", "poll"}
    PROVE  /\ MsgOf(c) \in Message
           /\ MsgOf(c).target \in Answer /\ MsgOf(c).by \in User
           /\ MsgOf(c).action \in Action
<1>1. cons[c].msg \in 1..Len(topic) /\ topic \in Seq(Message)
  BY DEF TypeOK
<1>2. MsgOf(c) \in Message
  BY <1>1 DEF MsgOf
<1>3. QED
  BY <1>2 DEF Message

(* A step that moves one consumer to a pc keeps the types of the consumers   *)
(* if the pc is one that needs no message, or the consumer holds one.        *)
LEMMA GotoType ==
    ASSUME TypeOK, NEW c \in Consumer, cons[c].pc \notin {"off", "poll"},
           NEW pc \in {"poll", "insert", "cancel", "ack"}, Goto(c, pc)
    PROVE  /\ cons' \in [Consumer -> ConsumerState]
           /\ \A d \in Consumer : cons'[d].pc \notin {"off", "poll"}
                                    => cons'[d].msg \in DOMAIN topic
           /\ failed' \subseteq DOMAIN topic
BY DEF TypeOK, Goto, ConsumerState

(* The consumers, typed against a topic that may have grown. *)
LEMMA GrownTopic ==
    ASSUME TypeOK, NEW m \in Message, topic' = Append(topic, m)
    PROVE  /\ topic' \in Seq(Message)
           /\ DOMAIN topic \subseteq DOMAIN topic'
           /\ \A i \in DOMAIN topic : topic'[i] = topic[i]
BY DEF TypeOK

LEMMA InitType == Init => TypeOK
BY NoneAssumption DEF Init, TypeOK, Call, Idle, NotStarted, ConsumerState, Vote

LEMMA RequestStepType ==
    ASSUME TypeOK, NEW r \in Request, RequestStep(r)
    PROVE  TypeOK'
<1> USE DEF TypeOK
<1>1. ASSUME NEW m \in Message, FindAnswer(r, m) PROVE TypeOK'
  <2>1. m.target \in Answer
    BY <1>1 DEF FindAnswer
  <2>2. [pc |-> "found", msg |-> m, count |-> agreeCount[m.target]] \in Call
    BY <2>1 DEF Call
  <2>3. QED
    BY <1>1, <2>2 DEF FindAnswer, tables, broker
<1>2. CASE CheckVoted(r)
  <2>1. req[r] \in Call /\ req[r].pc = "found"
    BY <1>2 DEF CheckVoted
  <2>2. [req[r] EXCEPT !.pc = "allowed"] \in Call
    BY <2>1 DEF Call, Idle
  <2>3. Idle \in Call
    BY DEF Call
  <2>4. req' \in [Request -> Call]
    BY <1>2, <2>2, <2>3 DEF CheckVoted, Decide
  <2>5. UNCHANGED faults \/ Fails("read")
    BY <1>2 DEF CheckVoted
  <2>6. faults' \in Nat
    BY <2>5, FaultsType
  <2>7. UNCHANGED <<tables, broker, cons, failed>>
    BY <1>2 DEF CheckVoted
  <2>8. QED
    BY <2>4, <2>6, <2>7 DEF tables, broker
<1>3. CASE Publish(r)
  <2>1. req[r] \in Call /\ req[r].pc = "allowed"
    BY <1>3 DEF Publish
  <2>2. req[r].msg \in Message
    BY <2>1 DEF Call, Idle
  <2>3. RepliedCount(req[r]) \in Nat
    BY <2>1, RepliedCountType
  <2>4. req' \in [Request -> Call]
    <3>1. [pc |-> "accepted", msg |-> req[r].msg, count |-> RepliedCount(req[r])] \in Call
      BY <2>2, <2>3 DEF Call
    <3>2. QED
      BY <1>3, <3>1 DEF Publish
  <2>5. topic' = Append(topic, req[r].msg)
    BY <1>3 DEF Publish
  <2>6. QED
    BY <1>3, <2>2, <2>4, <2>5, GrownTopic DEF Publish, tables
<1>4. CASE PublishFails(r)
  <2>1. req[r] \in Call /\ req[r].pc = "allowed"
    BY <1>4 DEF PublishFails
  <2>2. req[r].msg \in Message
    BY <2>1 DEF Call, Idle
  <2>3. req' \in [Request -> Call]
    BY <1>4 DEF PublishFails, Call
  <2>4. faults' \in Nat
    BY <1>4, FaultsType DEF PublishFails
  <2>5. CASE topic' = topic
    BY <1>4, <2>3, <2>4, <2>5 DEF PublishFails, tables
  <2>6. CASE topic' = Append(topic, req[r].msg)
    BY <1>4, <2>2, <2>3, <2>4, <2>6, GrownTopic DEF PublishFails, tables
  <2>7. QED
    BY <1>4, <2>5, <2>6 DEF PublishFails
<1>5. CASE Return(r)
  <2>1. req' \in [Request -> Call]
    BY <1>5 DEF Return, Call
  <2>2. QED
    BY <1>5, <2>1 DEF Return, tables, broker
<1>6. QED
  BY <1>1, <1>2, <1>3, <1>4, <1>5 DEF RequestStep

(* A consumer that goes away keeps the types of the consumers and the owner. *)
LEMMA GoneType ==
    ASSUME TypeOK, NEW c \in Consumer, Gone(c)
    PROVE  /\ cons' \in [Consumer -> ConsumerState]
           /\ owner' \in Consumer \cup {None}
           /\ \A d \in Consumer : cons'[d].pc \notin {"off", "poll"}
                                    => cons'[d].msg \in DOMAIN topic
           /\ failed' \subseteq DOMAIN topic
BY DEF TypeOK, Gone, NotStarted, ConsumerState

(* What a vote transaction leaves is typed. *)
LEMMA VoteAnswerType ==
    ASSUME TypeOK, NEW c \in Consumer, VoteAnswer(c)
    PROVE  TypeOK'
<1>1. cons[c].pc \notin {"off", "poll"}
  BY DEF VoteAnswer
<1>2. MsgOf(c).target \in Answer /\ MsgOf(c).by \in User
  BY <1>1, InTopic
<1>3. Goto(c, "ack") \/ Goto(c, "poll")
  BY DEF VoteAnswer, Committed
<1>4. UNCHANGED faults \/ Fails("commit")
  BY DEF VoteAnswer, Committed
<1>5. UNCHANGED <<answers, broker, req>>
  BY DEF VoteAnswer
<1>6. /\ cons' \in [Consumer -> ConsumerState]
      /\ \A d \in Consumer : cons'[d].pc \notin {"off", "poll"}
                               => cons'[d].msg \in DOMAIN topic
      /\ failed' \subseteq DOMAIN topic
  BY <1>1, <1>3, GotoType
<1>7. /\ agreeCount' \in [Answer -> Nat]
      /\ votes' \subseteq Vote /\ nextId' \in Nat
  BY <1>2 DEF VoteAnswer, TypeOK, Vote
<1>8. QED
  BY <1>4, <1>5, <1>6, <1>7, FaultsType DEF TypeOK, broker

(* So is what a cancelling transaction leaves. *)
LEMMA CancelVoteAnswerType ==
    ASSUME TypeOK, NEW c \in Consumer, CancelVoteAnswer(c)
    PROVE  TypeOK'
<1>1. cons[c].pc \notin {"off", "poll"}
  BY DEF CancelVoteAnswer
<1>2. MsgOf(c).target \in Answer /\ MsgOf(c).by \in User
  BY <1>1, InTopic
<1>3. Goto(c, "ack") \/ Goto(c, "poll")
  BY DEF CancelVoteAnswer, Committed
<1>4. UNCHANGED faults \/ Fails("commit")
  BY DEF CancelVoteAnswer, Committed
<1>5. UNCHANGED <<answers, nextId, broker, req>>
  BY DEF CancelVoteAnswer
<1>6. /\ cons' \in [Consumer -> ConsumerState]
      /\ \A d \in Consumer : cons'[d].pc \notin {"off", "poll"}
                               => cons'[d].msg \in DOMAIN topic
      /\ failed' \subseteq DOMAIN topic
  BY <1>1, <1>3, GotoType
<1>7. \A n \in Nat : Decremented(n) \in Nat
  BY DEF Decremented
<1>8. /\ agreeCount' \in [Answer -> Nat]
      /\ votes' \subseteq Vote
  <2>1. votes' \subseteq votes
    BY DEF CancelVoteAnswer
  <2>2. \/ agreeCount' = [agreeCount EXCEPT ![MsgOf(c).target] = Decremented(@)]
        \/ agreeCount' = agreeCount
    BY DEF CancelVoteAnswer
  <2>3. \A a \in Answer : \A n \in Nat : [agreeCount EXCEPT ![a] = n] \in [Answer -> Nat]
    BY DEF TypeOK
  <2>4. Decremented(agreeCount[MsgOf(c).target]) \in Nat
    BY <1>2, <1>7 DEF TypeOK
  <2>5. agreeCount' \in [Answer -> Nat]
    BY <1>2, <2>2, <2>3, <2>4 DEF TypeOK
  <2>6. QED
    BY <2>1, <2>5 DEF TypeOK
<1>9. QED
  BY <1>4, <1>5, <1>6, <1>8, FaultsType DEF TypeOK, broker

LEMMA ConsumerStepType ==
    ASSUME TypeOK, NEW c \in Consumer, ConsumerStep(c)
    PROVE  TypeOK'
<1>1. CASE Subscribe(c)
  BY <1>1 DEF Subscribe, TypeOK, ConsumerState, tables
<1>2. CASE Reconnect(c)
  <2>1. acked \in SUBSET Nat
    BY DEF TypeOK
  <2>2. cons' \in [Consumer -> ConsumerState]
    BY <1>2, <2>1 DEF Reconnect, TypeOK, ConsumerState
  <2>3. \A d \in Consumer : cons'[d].pc = cons[d].pc /\ cons'[d].msg = cons[d].msg
    BY <1>2 DEF Reconnect, TypeOK, ConsumerState
  <2>4. QED
    BY <1>2, <2>2, <2>3 DEF Reconnect, TypeOK, tables
<1>3. CASE Receive(c)
  BY <1>3 DEF Receive, Undelivered, TypeOK, ConsumerState, tables, broker
<1>4. CASE CheckHandled(c)
  <2>1. cons[c].pc \notin {"off", "poll"}
    BY <1>4 DEF CheckHandled
  <2>2. \E pc \in {"poll", "insert", "cancel", "ack"} : Goto(c, pc)
    BY <1>4, NextStepType DEF CheckHandled, IsVoted
  <2>3. QED
    BY <1>4, <2>1, <2>2, GotoType DEF CheckHandled, TypeOK, tables, broker
<1>5. CASE HandlerFails(c)
  BY <1>5, GotoType, FaultsType DEF HandlerFails, TypeOK, tables, broker
<1>6. CASE VoteAnswer(c)
  BY <1>6, VoteAnswerType
<1>7. CASE CancelVoteAnswer(c)
  BY <1>7, CancelVoteAnswerType
<1>8. CASE Ack(c)
  <2>1. cons[c].msg \in DOMAIN topic
    BY <1>8 DEF Ack, TypeOK
  <2>2. acked' \subseteq DOMAIN topic
    BY <1>8, <2>1 DEF Ack, TypeOK
  <2>3. QED
    BY <1>8, <2>2, GotoType DEF Ack, TypeOK, tables
<1>9. CASE AckFails(c)
  BY <1>9, GoneType, FaultsType DEF AckFails, TypeOK, tables
<1>10. CASE LoopEnds(c)
  BY <1>10, GoneType, FaultsType DEF LoopEnds, TypeOK, tables
<1>11. CASE Crash(c)
  BY <1>11, GoneType, FaultsType DEF Crash, TypeOK, tables
<1>12. CASE ConnectionLost(c)
  BY <1>12, FaultsType DEF ConnectionLost, TypeOK, tables
<1>13. QED
  BY <1>1, <1>2, <1>3, <1>4, <1>5, <1>6, <1>7, <1>8, <1>9, <1>10, <1>11, <1>12
     DEF ConsumerStep

LEMMA NextType == TypeOK /\ [Next]_vars => TypeOK'
<1> SUFFICES ASSUME TypeOK, [Next]_vars PROVE TypeOK'
  OBVIOUS
<1>1. ASSUME NEW a \in Answer, DeleteAnswer(a) PROVE TypeOK'
  BY <1>1 DEF DeleteAnswer, TypeOK, broker
<1>2. CASE UNCHANGED vars
  BY <1>2 DEF TypeOK, vars, tables, broker
<1>3. QED
  BY <1>1, <1>2, RequestStepType, ConsumerStepType DEF Next

(* TypeOK holds in every reachable state: what app.rs and user_vote.rs store *)
(* and reply has its type, for any number of messages and failures.          *)
THEOREM TypeCorrect == Spec => []TypeOK
BY InitType, NextType, PTL DEF Spec

-----------------------------------------------------------------------------
(* The counter and the rows, for any number of consumers.  CountMatchesVotes *)
(* needs to know that the rows are finitely many and that the next id is new *)
(* (else an insert could add no row).                                        *)

CountInv == /\ IsFiniteSet(votes)
            /\ \A v \in votes : v.id < nextId
            /\ CountMatchesVotes

(* Only the two transactions and a deleted answer change the tables. *)
LEMMA TablesFrame ==
    ASSUME [Next]_vars
    PROVE  \/ \E c \in Consumer : VoteAnswer(c) \/ CancelVoteAnswer(c)
           \/ \E a \in Answer : DeleteAnswer(a)
           \/ UNCHANGED tables
<1>1. ASSUME NEW r \in Request, RequestStep(r) PROVE UNCHANGED tables
  BY <1>1 DEF RequestStep, FindAnswer, CheckVoted, Publish, PublishFails, Return
<1>2. ASSUME NEW c \in Consumer, ConsumerStep(c), ~VoteAnswer(c), ~CancelVoteAnswer(c)
      PROVE  UNCHANGED tables
  BY <1>2 DEF ConsumerStep, Subscribe, Reconnect, Receive, CheckHandled, HandlerFails,
              Ack, AckFails, LoopEnds, Crash, ConnectionLost
<1>3. CASE UNCHANGED vars
  BY <1>3 DEF vars
<1>4. QED
  BY <1>1, <1>2, <1>3 DEF Next

LEMMA VoteAnswerCounts ==
    ASSUME TypeOK, CountInv, NEW c \in Consumer, VoteAnswer(c)
    PROVE  CountInv'
<1> DEFINE m == MsgOf(c)
           row == [id |-> nextId, target |-> m.target, by |-> m.by]
<1>1. m.target \in Answer
  BY InTopic DEF VoteAnswer
<1>2. CASE UNCHANGED <<agreeCount, votes, nextId>>
  BY <1>2 DEF VoteAnswer, CountInv, CountMatchesVotes, VotesOn
<1>3. CASE /\ m.target \in answers
           /\ votes' = votes \cup {row}
           /\ nextId' = nextId + 1
           /\ agreeCount' = [agreeCount EXCEPT ![m.target] = @ + 1]
  <2>1. nextId \in Nat /\ agreeCount \in [Answer -> Nat] /\ \A v \in votes : v.id \in Nat
    BY DEF TypeOK, Vote
  <2>2. row \notin votes
    BY <2>1 DEF CountInv
  <2>3. IsFiniteSet(votes')
    BY <1>3, FS_AddElement DEF CountInv
  <2>4. \A v \in votes' : v.id < nextId'
    BY <1>3, <2>1 DEF CountInv
  <2>5. ASSUME NEW a \in answers PROVE agreeCount'[a] = Cardinality(VotesOn(a)')
    <3>1. IsFiniteSet(VotesOn(a)) /\ agreeCount[a] = Cardinality(VotesOn(a)) /\ a \in Answer
      BY <2>5, FS_Subset DEF CountInv, CountMatchesVotes, VotesOn, TypeOK
    <3>2. CASE a = m.target
      <4>1. VotesOn(a)' = VotesOn(a) \cup {row} /\ row \notin VotesOn(a)
        BY <1>3, <2>2, <3>2 DEF VotesOn
      <4>2. Cardinality(VotesOn(a)') = Cardinality(VotesOn(a)) + 1
        BY <3>1, <4>1, FS_AddElement
      <4>3. QED
        BY <1>3, <2>1, <3>1, <3>2, <4>2
    <3>3. CASE a # m.target
      <4>1. VotesOn(a)' = VotesOn(a)
        BY <1>3, <3>3 DEF VotesOn
      <4>2. QED
        BY <1>3, <2>1, <3>1, <3>3, <4>1
    <3>4. QED
      BY <3>2, <3>3
  <2>6. answers' = answers
    BY DEF VoteAnswer
  <2>7. QED
    BY <2>3, <2>4, <2>5, <2>6 DEF CountInv, CountMatchesVotes
<1>4. QED
  BY <1>2, <1>3 DEF VoteAnswer

LEMMA CancelVoteAnswerCounts ==
    ASSUME TypeOK, CountInv, NEW c \in Consumer, CancelVoteAnswer(c)
    PROVE  CountInv'
<1> DEFINE m == MsgOf(c)
<1>1. UNCHANGED <<answers, nextId>>
  BY DEF CancelVoteAnswer
<1>2. CASE UNCHANGED <<agreeCount, votes>>
  BY <1>1, <1>2 DEF CountInv, CountMatchesVotes, VotesOn
<1>3. CASE /\ Cardinality(Rows(m.by, m.target)) = 1
           /\ votes' = votes \ Rows(m.by, m.target)
           /\ agreeCount' = [agreeCount EXCEPT ![m.target] = Decremented(@)]
  <2>1. IsFiniteSet(Rows(m.by, m.target))
    BY FS_Subset DEF CountInv, Rows
  <2>2. PICK v : Rows(m.by, m.target) = {v}
    BY <1>3, <2>1, FS_Singleton
  <2>3. v \in votes /\ v.target = m.target /\ votes' = votes \ {v}
    BY <1>3, <2>2 DEF Rows
  <2>4. IsFiniteSet(votes') /\ \A w \in votes' : w.id < nextId'
    BY <1>1, <2>3, FS_RemoveElement DEF CountInv
  <2>5. ASSUME NEW a \in answers PROVE agreeCount'[a] = Cardinality(VotesOn(a)')
    <3>1. /\ IsFiniteSet(VotesOn(a)) /\ agreeCount[a] = Cardinality(VotesOn(a))
          /\ a \in Answer /\ agreeCount \in [Answer -> Nat]
      BY <2>5, FS_Subset DEF CountInv, CountMatchesVotes, VotesOn, TypeOK
    <3>2. CASE a = m.target
      <4>1. VotesOn(a)' = VotesOn(a) \ {v} /\ v \in VotesOn(a)
        BY <2>3, <3>2 DEF VotesOn
      <4>2. Cardinality(VotesOn(a)') = Cardinality(VotesOn(a)) - 1
        BY <3>1, <4>1, FS_RemoveElement
      <4>3. agreeCount[a] \in Nat /\ agreeCount[a] # 0
        BY <3>1, <4>1, FS_EmptySet
      <4>4. Decremented(agreeCount[a]) = agreeCount[a] - 1
        BY <4>3 DEF Decremented
      <4>5. agreeCount'[a] = Decremented(agreeCount[a])
        BY <1>3, <3>1, <3>2
      <4>6. QED
        BY <3>1, <4>2, <4>4, <4>5
    <3>3. CASE a # m.target
      <4>1. VotesOn(a)' = VotesOn(a)
        BY <2>3, <3>3 DEF VotesOn
      <4>2. agreeCount'[a] = agreeCount[a]
        BY <1>3, <3>1, <3>3
      <4>3. QED
        BY <3>1, <4>1, <4>2
    <3>4. QED
      BY <3>2, <3>3
  <2>6. QED
    BY <1>1, <2>4, <2>5 DEF CountInv, CountMatchesVotes
<1>4. QED
  BY <1>2, <1>3 DEF CancelVoteAnswer

LEMMA CountInvInit == Init => CountInv
<1> SUFFICES ASSUME Init PROVE CountInv
  OBVIOUS
<1>1. \A a \in Answer : VotesOn(a) = {} /\ agreeCount[a] = 0
  BY DEF Init, VotesOn
<1>2. QED
  BY <1>1, FS_EmptySet DEF Init, CountInv, CountMatchesVotes

LEMMA CountInvNext == TypeOK /\ CountInv /\ [Next]_vars => CountInv'
<1> SUFFICES ASSUME TypeOK, CountInv, [Next]_vars PROVE CountInv'
  OBVIOUS
<1>1. ASSUME NEW a \in Answer, DeleteAnswer(a) PROVE CountInv'
  BY <1>1 DEF DeleteAnswer, CountInv, CountMatchesVotes, VotesOn
<1>2. CASE UNCHANGED tables
  BY <1>2 DEF tables, CountInv, CountMatchesVotes, VotesOn
<1>3. QED
  BY <1>1, <1>2, TablesFrame, VoteAnswerCounts, CancelVoteAnswerCounts

(* The counter of an answer is the number of its vote rows, in every state   *)
(* of any number of consumers (vote_answer, cancel_vote_answer).             *)
THEOREM CountIsExact == Spec => []CountMatchesVotes
<1>1. CountInv => CountMatchesVotes
  BY DEF CountInv
<1>2. QED
  BY <1>1, CountInvInit, CountInvNext, InitType, NextType, PTL DEF Spec

-----------------------------------------------------------------------------
(* One consumer at a time.  The Exclusive subscription is meant to leave a   *)
(* single process in the loop; then the vote that is_voted saw is still the  *)
(* truth when the transaction runs and when the message is acknowledged.     *)

SingleConsumer == \A c, d \in Consumer : c = d

(* What consumer c knows of the message it holds. *)
Knows(c) ==
    LET voted == IsVoted(MsgOf(c).by, MsgOf(c).target) IN
    /\ cons[c].pc = "insert" => MsgOf(c).action = "up" /\ ~voted
    /\ cons[c].pc = "cancel" => MsgOf(c).action = "down" /\ voted
    /\ cons[c].pc = "ack" => /\ MsgOf(c).action = "up" => voted
                             /\ MsgOf(c).action = "down" => ~voted
                             /\ MsgOf(c).action # "other"

HandlerInv == \A c \in Consumer : Knows(c)

(* A consumer that does not move, with the same votes, knows what it knew. *)
LEMMA KnowsStable ==
    ASSUME TypeOK, NEW c \in Consumer, Knows(c), votes' = votes, cons' = cons,
           \A i \in DOMAIN topic : topic'[i] = topic[i]
    PROVE  Knows(c)'
<1>1. CASE cons[c].pc \in {"off", "poll"}
  BY <1>1 DEF Knows
<1>2. CASE cons[c].pc \notin {"off", "poll"}
  <2>1. cons[c].msg \in DOMAIN topic
    BY <1>2 DEF TypeOK
  <2>2. MsgOf(c)' = MsgOf(c)
    BY <2>1 DEF MsgOf
  <2>3. QED
    BY <2>2 DEF Knows, IsVoted, Rows
<1>3. QED
  BY <1>1, <1>2

LEMMA ConsumerStepKnows ==
    ASSUME TypeOK, NEW c \in Consumer, Knows(c), ConsumerStep(c)
    PROVE  Knows(c)'
<1> USE DEF TypeOK
<1>1. CASE cons'[c].pc \in {"off", "poll", "check"}
  BY <1>1 DEF Knows
<1>2. CASE Reconnect(c) \/ ConnectionLost(c)
  <2>1. cons'[c].pc = cons[c].pc /\ cons'[c].msg = cons[c].msg
    BY <1>2 DEF Reconnect, ConnectionLost, ConsumerState
  <2>2. votes' = votes /\ topic' = topic
    BY <1>2 DEF Reconnect, ConnectionLost, tables
  <2>3. MsgOf(c)' = MsgOf(c)
    BY <2>1, <2>2 DEF MsgOf
  <2>4. QED
    BY <2>1, <2>2, <2>3 DEF Knows, IsVoted, Rows
<1>3. CASE CheckHandled(c)
  <2>1. votes' = votes /\ topic' = topic /\ cons[c].pc = "check"
    BY <1>3 DEF CheckHandled, tables, broker
  <2>2. /\ cons'[c].pc = NextStep(MsgOf(c).action, IsVoted(MsgOf(c).by, MsgOf(c).target))
        /\ cons'[c].msg = cons[c].msg
    BY <1>3 DEF CheckHandled, Goto, ConsumerState
  <2>3. MsgOf(c)' = MsgOf(c)
    BY <2>1, <2>2 DEF MsgOf
  <2>4. MsgOf(c).action \in {"up", "down", "other"}
    BY <2>1, InTopic, ActionAssumption
  <2>5. IsVoted(MsgOf(c).by, MsgOf(c).target)' = IsVoted(MsgOf(c).by, MsgOf(c).target)
    BY <2>1, <2>3 DEF IsVoted, Rows
  <2>6. QED
    BY <2>2, <2>3, <2>4, <2>5 DEF Knows, NextStep
<1>4. CASE VoteAnswer(c) /\ cons'[c].pc \notin {"off", "poll", "check"}
  <2>1. /\ cons'[c].pc = "ack" /\ cons'[c].msg = cons[c].msg /\ topic' = topic
        /\ cons[c].pc = "insert"
    BY <1>4 DEF VoteAnswer, Committed, Goto, ConsumerState, broker
  <2>2. votes' = votes \cup {[id |-> nextId, target |-> MsgOf(c).target, by |-> MsgOf(c).by]}
    BY <1>4 DEF VoteAnswer, Goto, ConsumerState
  <2>3. MsgOf(c)' = MsgOf(c) /\ MsgOf(c).action = "up"
    BY <2>1 DEF MsgOf, Knows
  <2>4. \E v \in votes' : v.by = MsgOf(c).by /\ v.target = MsgOf(c).target
    <3> DEFINE row == [id |-> nextId, target |-> MsgOf(c).target, by |-> MsgOf(c).by]
    <3>1. row \in votes' /\ row.by = MsgOf(c).by /\ row.target = MsgOf(c).target
      BY <2>2
    <3>2. QED
      BY <3>1
  <2>5. IsVoted(MsgOf(c).by, MsgOf(c).target)'
    BY <2>3, <2>4 DEF IsVoted, Rows
  <2>6. QED
    BY <2>1, <2>3, <2>5 DEF Knows
<1>5. CASE CancelVoteAnswer(c) /\ cons'[c].pc \notin {"off", "poll", "check"}
  <2>1. /\ cons'[c].pc = "ack" /\ cons'[c].msg = cons[c].msg /\ topic' = topic
        /\ cons[c].pc = "cancel"
    BY <1>5 DEF CancelVoteAnswer, Committed, Goto, ConsumerState, broker
  <2>2. votes' = votes \ Rows(MsgOf(c).by, MsgOf(c).target)
    BY <1>5 DEF CancelVoteAnswer, Goto, ConsumerState
  <2>3. MsgOf(c)' = MsgOf(c) /\ MsgOf(c).action = "down"
    BY <2>1 DEF MsgOf, Knows
  <2>4. ~IsVoted(MsgOf(c).by, MsgOf(c).target)'
    BY <2>2, <2>3 DEF IsVoted, Rows
  <2>5. QED
    BY <2>1, <2>3, <2>4 DEF Knows
<1>6. CASE HandlerFails(c) \/ Ack(c)
  <2>1. cons'[c].pc = "poll"
    BY <1>6 DEF HandlerFails, Ack, Goto, ConsumerState
  <2>2. QED
    BY <1>1, <2>1
<1>7. CASE AckFails(c) \/ LoopEnds(c) \/ Crash(c)
  <2>1. cons'[c].pc = "off"
    BY <1>7 DEF AckFails, LoopEnds, Crash, Gone, NotStarted, ConsumerState
  <2>2. QED
    BY <1>1, <2>1
<1>8. CASE Subscribe(c) \/ Receive(c)
  <2>1. cons'[c].pc \in {"poll", "check"}
    BY <1>8 DEF Subscribe, Receive, ConsumerState
  <2>2. QED
    BY <1>1, <2>1
<1>9. QED
  BY <1>1, <1>2, <1>3, <1>4, <1>5, <1>6, <1>7, <1>8 DEF ConsumerStep

LEMMA HandlerInvNext ==
    ASSUME SingleConsumer
    PROVE  TypeOK /\ HandlerInv /\ [Next]_vars => HandlerInv'
<1> SUFFICES ASSUME TypeOK, HandlerInv, [Next]_vars, NEW c \in Consumer PROVE Knows(c)'
  BY DEF HandlerInv
<1>1. Knows(c)
  BY DEF HandlerInv
<1>2. ASSUME NEW r \in Request, RequestStep(r) PROVE Knows(c)'
  <2>1. votes' = votes /\ cons' = cons
    BY <1>2 DEF RequestStep, FindAnswer, CheckVoted, Publish, PublishFails, Return, tables
  <2>2. topic' = topic \/ \E m \in Message : topic' = Append(topic, m)
    <3>1. CASE Publish(r) \/ PublishFails(r)
      <4>1. req[r] \in Call /\ req[r].pc = "allowed"
        BY <3>1 DEF Publish, PublishFails, TypeOK
      <4>2. req[r].msg \in Message
        BY <4>1 DEF Call, Idle
      <4>3. QED
        BY <3>1, <4>2 DEF Publish, PublishFails
    <3>2. QED
      BY <1>2, <3>1 DEF RequestStep, FindAnswer, CheckVoted, Return, broker
  <2>3. \A i \in DOMAIN topic : topic'[i] = topic[i]
    BY <2>2, GrownTopic
  <2>4. QED
    BY <1>1, <2>1, <2>3, KnowsStable
<1>3. ASSUME NEW d \in Consumer, ConsumerStep(d) PROVE Knows(c)'
  <2>1. d = c
    BY SingleConsumer DEF SingleConsumer
  <2>2. QED
    BY <1>1, <1>3, <2>1, ConsumerStepKnows
<1>4. ASSUME NEW a \in Answer, DeleteAnswer(a) PROVE Knows(c)'
  BY <1>1, <1>4, KnowsStable DEF DeleteAnswer, broker
<1>5. CASE UNCHANGED vars
  BY <1>1, <1>5, KnowsStable DEF vars, tables, broker
<1>6. QED
  BY <1>2, <1>3, <1>4, <1>5 DEF Next

LEMMA HandlerInvInit == Init => HandlerInv
BY DEF Init, HandlerInv, Knows, NotStarted

(* An insert finds no vote of that user on that answer, so a user never has  *)
(* two.                                                                      *)
LEMMA OneVoteNext ==
    TypeOK /\ HandlerInv /\ OneVotePerUser /\ [Next]_vars => OneVotePerUser'
<1> SUFFICES ASSUME TypeOK, HandlerInv, OneVotePerUser, [Next]_vars PROVE OneVotePerUser'
  OBVIOUS
<1>1. CASE votes' \subseteq votes
  BY <1>1 DEF OneVotePerUser
<1>2. ASSUME NEW c \in Consumer, VoteAnswer(c), ~(votes' \subseteq votes)
      PROVE  OneVotePerUser'
  <2> DEFINE m == MsgOf(c)
             row == [id |-> nextId, target |-> m.target, by |-> m.by]
  <2>1. votes' = votes \cup {row}
    BY <1>2 DEF VoteAnswer
  <2>2. \A v \in votes : ~(v.by = m.by /\ v.target = m.target)
    BY <1>2 DEF VoteAnswer, HandlerInv, Knows, IsVoted, Rows
  <2>3. row.by = m.by /\ row.target = m.target
    OBVIOUS
  <2>4. QED
    BY <2>1, <2>2, <2>3 DEF OneVotePerUser
<1>3. ASSUME NEW c \in Consumer, CancelVoteAnswer(c) PROVE votes' \subseteq votes
  BY <1>3 DEF CancelVoteAnswer
<1>4. QED
  BY <1>1, <1>2, <1>3, TablesFrame DEF DeleteAnswer, tables

LEMMA OneVoteInit == Init => OneVotePerUser
BY DEF Init, OneVotePerUser

(* With one consumer no user counts twice on an answer, whatever is lost,    *)
(* repeated or restarted (the is_voted test of handler_answer_agree).        *)
THEOREM NoDoubleVote ==
    ASSUME SingleConsumer
    PROVE  Spec => []OneVotePerUser
BY OneVoteInit, OneVoteNext, HandlerInvInit, HandlerInvNext, InitType, NextType, PTL DEF Spec

(* With one consumer a message is acknowledged only when the tables hold its *)
(* effect (the loop of consumer, which acknowledges after the handler).      *)
THEOREM AckAfterEffect ==
    ASSUME SingleConsumer
    PROVE  Spec => AckedAfterEffect
<1> DEFINE Done(i) == LET m == topic[i] IN
               /\ m.action = "up" => IsVoted(m.by, m.target)
               /\ m.action = "down" => ~IsVoted(m.by, m.target)
               /\ m.action # "other"
           A == \A i \in acked' \ acked : Done(i)
<1>1. TypeOK /\ HandlerInv /\ [Next]_vars => [A]_vars
  <2> SUFFICES ASSUME TypeOK, HandlerInv, [Next]_vars PROVE [A]_vars
    OBVIOUS
  <2>1. ASSUME NEW c \in Consumer, Ack(c) PROVE A
    <3>1. acked' \ acked \subseteq {cons[c].msg} /\ cons[c].pc = "ack"
      BY <2>1 DEF Ack
    <3>2. Done(cons[c].msg)
      BY <3>1 DEF HandlerInv, Knows, MsgOf
    <3>3. QED
      BY <3>1, <3>2
  <2>2. ASSUME NEW c \in Consumer, ConsumerStep(c), ~Ack(c) PROVE acked' = acked
    BY <2>2 DEF ConsumerStep, Subscribe, Reconnect, Receive, CheckHandled, HandlerFails,
                VoteAnswer, CancelVoteAnswer, AckFails, LoopEnds, Crash, ConnectionLost, broker
  <2>3. ASSUME NEW r \in Request, RequestStep(r) PROVE acked' = acked
    BY <2>3 DEF RequestStep, FindAnswer, CheckVoted, Publish, PublishFails, Return, broker
  <2>4. ASSUME NEW a \in Answer, DeleteAnswer(a) PROVE acked' = acked
    BY <2>4 DEF DeleteAnswer, broker
  <2>5. acked' = acked => A
    OBVIOUS
  <2>6. QED
    BY <2>1, <2>2, <2>3, <2>4, <2>5 DEF Next
<1>2. QED
  BY <1>1, HandlerInvInit, HandlerInvNext, InitType, NextType, PTL DEF Spec, AckedAfterEffect

-----------------------------------------------------------------------------
(* The tables, under one consumer, are a VoteLedger: each committed           *)
(* transaction is a vote or a withdrawal of one user, and all else stutters. *)

LEMMA VoteAnswerInLedger ==
    ASSUME TypeOK, HandlerInv, NEW c \in Consumer, VoteAnswer(c)
    PROVE  [Ledger!Next]_(Ledger!vars)
<1> DEFINE m == MsgOf(c)
           row == [id |-> nextId, target |-> m.target, by |-> m.by]
           Voters == {<<v.by, v.target>> : v \in votes}
<1>1. m.target \in Answer /\ m.by \in User
  BY InTopic DEF VoteAnswer
<1>2. answers' = answers
  BY DEF VoteAnswer
<1>3. CASE UNCHANGED <<agreeCount, votes>>
  BY <1>2, <1>3 DEF Ledger!vars
<1>4. CASE /\ m.target \in answers
           /\ votes' = votes \cup {row}
           /\ agreeCount' = [agreeCount EXCEPT ![m.target] = @ + 1]
  <2>1. <<m.by, m.target>> \notin Voters
    BY DEF VoteAnswer, HandlerInv, Knows, IsVoted, Rows
  <2>2. Voters' = Voters \cup {<<m.by, m.target>>}
    <3>1. row.by = m.by /\ row.target = m.target
      OBVIOUS
    <3>2. {<<v.by, v.target>> : v \in votes'} = Voters \cup {<<m.by, m.target>>}
      BY <1>4, <3>1
    <3>3. QED
      BY <3>2
  <2>3. PICK u \in User, a \in Answer : u = m.by /\ a = m.target
    BY <1>1
  <2>4. Ledger!Vote(u, a)
    BY <1>2, <1>4, <2>1, <2>2, <2>3 DEF Ledger!Vote
  <2>5. QED
    BY <2>4 DEF Ledger!Next
<1>5. QED
  BY <1>3, <1>4 DEF VoteAnswer

LEMMA CancelVoteAnswerInLedger ==
    ASSUME TypeOK, CountInv, NEW c \in Consumer, CancelVoteAnswer(c)
    PROVE  [Ledger!Next]_(Ledger!vars)
<1> DEFINE m == MsgOf(c)
           Voters == {<<v.by, v.target>> : v \in votes}
<1>1. m.target \in Answer /\ m.by \in User
  BY InTopic DEF CancelVoteAnswer
<1>2. answers' = answers
  BY DEF CancelVoteAnswer
<1>3. CASE UNCHANGED <<agreeCount, votes>>
  BY <1>2, <1>3 DEF Ledger!vars
<1>4. CASE /\ m.target \in answers
           /\ Cardinality(Rows(m.by, m.target)) = 1
           /\ votes' = votes \ Rows(m.by, m.target)
           /\ agreeCount' = [agreeCount EXCEPT ![m.target] = Decremented(@)]
  <2>1. PICK v \in votes : v.by = m.by /\ v.target = m.target
    BY <1>4, FS_EmptySet DEF Rows
  <2>2. <<m.by, m.target>> \in Voters
    BY <2>1
  <2>3. Voters' = Voters \ {<<m.by, m.target>>}
    <3>1. \A w \in votes : w \in votes' <=> ~(w.by = m.by /\ w.target = m.target)
      BY <1>4 DEF Rows
    <3>2. votes' \subseteq votes
      BY <1>4
    <3>3. {<<w.by, w.target>> : w \in votes'} = Voters \ {<<m.by, m.target>>}
      BY <3>1, <3>2
    <3>4. QED
      BY <3>3
  <2>4. agreeCount[m.target] \in Nat /\ agreeCount[m.target] # 0
    <3>1. IsFiniteSet(VotesOn(m.target)) /\ v \in VotesOn(m.target)
      BY <2>1, FS_Subset DEF VotesOn, CountInv
    <3>2. agreeCount[m.target] = Cardinality(VotesOn(m.target))
      BY <1>4 DEF CountInv, CountMatchesVotes
    <3>3. QED
      BY <3>1, <3>2, <1>1, FS_EmptySet DEF TypeOK
  <2>5. Decremented(agreeCount[m.target]) = agreeCount[m.target] - 1
    BY <2>4 DEF Decremented
  <2>6. PICK u \in User, a \in Answer : u = m.by /\ a = m.target
    BY <1>1
  <2>7. Ledger!Cancel(u, a)
    BY <1>2, <1>4, <2>2, <2>3, <2>5, <2>6 DEF Ledger!Cancel
  <2>8. QED
    BY <2>7 DEF Ledger!Next
<1>5. QED
  BY <1>3, <1>4 DEF CancelVoteAnswer

(* With one consumer the pipeline implements VoteLedger: its tables move by  *)
(* whole votes of one user (vote_answer, cancel_vote_answer, delete_answer). *)
THEOREM PipelineImplementsLedger ==
    ASSUME SingleConsumer
    PROVE  Spec => ImplementsLedger
<1>1. Init => Ledger!Init
  BY DEF Init, Ledger!Init
<1>2. TypeOK /\ CountInv /\ HandlerInv /\ [Next]_vars => [Ledger!Next]_(Ledger!vars)
  <2> SUFFICES ASSUME TypeOK, CountInv, HandlerInv, [Next]_vars
               PROVE  [Ledger!Next]_(Ledger!vars)
    OBVIOUS
  <2>1. ASSUME NEW a \in Answer, DeleteAnswer(a) PROVE Ledger!Next
    BY <2>1 DEF DeleteAnswer, Ledger!Next, Ledger!Delete
  <2>2. CASE UNCHANGED tables
    BY <2>2 DEF tables, Ledger!vars
  <2>3. QED
    BY <2>1, <2>2, TablesFrame, VoteAnswerInLedger, CancelVoteAnswerInLedger
<1>3. QED
  BY <1>1, <1>2, CountInvInit, CountInvNext, HandlerInvInit, HandlerInvNext, InitType, NextType,
     PTL DEF Spec, ImplementsLedger, Ledger!Spec
=============================================================================
