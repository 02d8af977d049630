--------------------------- MODULE VoteOrderProofs ---------------------------
(* The order in which votes take effect.  With one consumer the acknowledged *)
(* messages that can take effect, and belong to a user and an answer for     *)
(* which nothing failed, are a prefix of those in the topic, and what is     *)
(* redelivered is never older than the newest of them.                       *)
EXTENDS VotePipelineProofs

(* No message of user u on answer a has failed. *)
Clean(u, a) == MessagesOf(u, a) \cap failed = {}

(* The positions of the messages that can take effect, and do so in order. *)
Live == {i \in DOMAIN topic : /\ topic[i].action \in {"up", "down"}
                              /\ topic[i].target \in answers
                              /\ Clean(topic[i].by, topic[i].target)}

(* The acknowledged ones have no gap before them. *)
AckedPrefix == \A i \in Live \cap acked : \A j \in Live : j < i => j \in acked

Busy(c) == cons[c].pc \notin {"off", "poll"}

(* The message at hand is the newest in work: all before it are             *)
(* acknowledged, and none behind it.                                        *)
AtHand(c) ==
    Busy(c) => /\ cons[c].next <= cons[c].msg + 1
               /\ \A j \in Live : j < cons[c].msg => j \in acked
               /\ cons[c].msg \in Live => \A j \in Live \cap acked : j <= cons[c].msg

(* What is still to be delivered is no older than the message at hand and   *)
(* than any acknowledged one.                                               *)
ToCome(c) ==
    owner = c => /\ cons[c].pc = "poll" => \A j \in Live : j < cons[c].next => j \in acked
                 /\ \A i \in Undelivered(c) \cap Live :
                       /\ \A j \in Live \cap acked : j <= i
                       /\ Busy(c) => cons[c].msg <= i

Place(c) == /\ cons[c].next <= Len(topic) + 1
            /\ cons[c].skip \subseteq acked
            /\ AtHand(c) /\ ToCome(c)

(* When all that a user said of an answer is acknowledged, and nothing of it *)
(* has failed, the vote is what was said last.                               *)
Decided ==
    \A u \in User, a \in answers :
        Clean(u, a) /\ MessagesOf(u, a) \subseteq acked =>
            \A i \in MessagesOf(u, a) :
                (\A j \in MessagesOf(u, a) : j <= i) => (IsVoted(u, a) <=> topic[i].action = "up")

OrderInv == AckedPrefix /\ (\A c \in Consumer : Place(c)) /\ Decided

-----------------------------------------------------------------------------
(* Facts about what the invariant is made of *)

LEMMA LiveShrinks ==
    ASSUME UNCHANGED topic, answers' \subseteq answers, failed \subseteq failed'
    PROVE  /\ Live' \subseteq Live
           /\ \A u, a : MessagesOf(u, a)' = MessagesOf(u, a) /\ (Clean(u, a)' => Clean(u, a))
<1>1. \A u, a : MessagesOf(u, a)' = MessagesOf(u, a) /\ (Clean(u, a)' => Clean(u, a))
  BY DEF MessagesOf, Clean
<1>2. QED
  BY <1>1 DEF Live

(* A message that failed is not live. *)
LEMMA FailedNotLive == \A i \in failed : i \notin Live
BY DEF Live, Clean, MessagesOf

LEMMA DecidedFrame ==
    ASSUME Decided, UNCHANGED <<topic, answers, votes, acked>>, failed \subseteq failed'
    PROVE  Decided'
BY LiveShrinks DEF Decided, IsVoted, Rows

LEMMA PrefixFrame ==
    ASSUME AckedPrefix, UNCHANGED <<topic, answers, acked>>, failed \subseteq failed'
    PROVE  AckedPrefix'
BY LiveShrinks DEF AckedPrefix

(* The history of failures only grows. *)
LEMMA FailedGrows ==
    ASSUME NEW c \in Consumer, ConsumerStep(c)
    PROVE  failed \subseteq failed'
BY DEF ConsumerStep, Subscribe, Reconnect, Receive, CheckHandled, HandlerFails, VoteAnswer,
       CancelVoteAnswer, Committed, Goto, Ack, AckFails, LoopEnds, Crash, Gone, ConnectionLost

(* The types the arguments rest on. *)
LEMMA OrderTypes ==
    ASSUME TypeOK
    PROVE  /\ DOMAIN topic = 1..Len(topic) /\ Len(topic) \in Nat
           /\ Live \subseteq 1..Len(topic) /\ acked \subseteq 1..Len(topic)
           /\ \A c \in Consumer : /\ cons[c].next \in Nat /\ cons[c].msg \in Nat
                                  /\ Busy(c) => cons[c].msg \in 1..Len(topic)
BY DEF TypeOK, Live, ConsumerState, Busy

(* A handler that goes on with its message stays where it is. *)
LEMMA GoesOn ==
    ASSUME TypeOK, NEW c \in Consumer, Place(c), Busy(c),
           UNCHANGED <<topic, answers, acked, owner>>,
           NEW pc \in {"insert", "cancel", "ack"}, Goto(c, pc)
    PROVE  Place(c)'
<1>1. /\ cons'[c].pc = pc /\ cons'[c].msg = cons[c].msg
      /\ cons'[c].next = cons[c].next /\ cons'[c].skip = cons[c].skip
  BY DEF Goto, TypeOK, ConsumerState
<1>2. Undelivered(c)' = Undelivered(c) /\ Live' \subseteq Live
  BY <1>1, LiveShrinks DEF Undelivered, Goto
<1>3. AtHand(c)'
  BY <1>1, <1>2 DEF Place, AtHand, Busy
<1>4. ToCome(c)'
  BY <1>1, <1>2 DEF Place, ToCome, Busy
<1>5. QED
  BY <1>1, <1>3, <1>4 DEF Place

(* A handler that gives up has failed: its message is no longer live. *)
LEMMA GivesUp ==
    ASSUME TypeOK, NEW c \in Consumer, Place(c), Busy(c), cons[c].pc # "ack",
           UNCHANGED <<topic, answers, acked, owner>>, Goto(c, "poll")
    PROVE  Place(c)'
<1>1. /\ cons'[c].pc = "poll" /\ cons'[c].msg = cons[c].msg
      /\ cons'[c].next = cons[c].next /\ cons'[c].skip = cons[c].skip
  BY DEF Goto, TypeOK, ConsumerState
<1>2. Undelivered(c)' = Undelivered(c) /\ Live' \subseteq Live /\ cons[c].msg \notin Live'
  <2>1. failed \subseteq failed' /\ cons[c].msg \in failed'
    BY DEF Goto
  <2>2. \A i \in failed' : i \notin Live'
    BY FailedNotLive DEF Live, Clean, MessagesOf
  <2>3. QED
    BY <1>1, <2>1, <2>2, LiveShrinks DEF Undelivered
<1>3. ASSUME NEW j \in Live', j < cons[c].next PROVE j \in acked
  <2>1. j < cons[c].msg
    BY <1>2, <1>3, OrderTypes DEF Place, AtHand
  <2>2. QED
    BY <1>2, <1>3, <2>1 DEF Place, AtHand
<1>4. ToCome(c)'
  BY <1>1, <1>2, <1>3 DEF Place, ToCome, Busy
<1>5. QED
  BY <1>1, <1>4 DEF Place, AtHand, Busy

(* A consumer that is gone holds and awaits nothing. *)
LEMMA GonePlace ==
    ASSUME TypeOK, NEW c \in Consumer, Gone(c), UNCHANGED topic
    PROVE  Place(c)'
<1>1. cons'[c] = NotStarted /\ owner' # c
  BY NoneAssumption DEF Gone, TypeOK
<1>2. QED
  BY <1>1, OrderTypes DEF Place, AtHand, ToCome, Busy, NotStarted

-----------------------------------------------------------------------------
(* The steps, one by one *)

(* A new message is behind all others, and is not acknowledged. *)
LEMMA GrownOrder ==
    ASSUME TypeOK, OrderInv, NEW m \in Message, topic' = Append(topic, m),
           UNCHANGED <<tables, acked, owner, cons, failed>>
    PROVE  OrderInv'
<1> DEFINE n == Len(topic) + 1
<1> USE OrderTypes
<1>1. /\ DOMAIN topic' = 1..n /\ topic' \in Seq(Message) /\ Len(topic') = n
      /\ \A i \in 1..Len(topic) : topic'[i] = topic[i]
  BY DEF TypeOK
<1>2. /\ Live' \subseteq Live \cup {n} /\ n \notin acked /\ Live \subseteq Live'
  <2>1. \A u, a : MessagesOf(u, a) \subseteq MessagesOf(u, a)'
                 /\ MessagesOf(u, a)' \subseteq MessagesOf(u, a) \cup {n}
    BY <1>1 DEF MessagesOf
  <2>2. failed' = failed /\ n \notin failed
    BY DEF TypeOK
  <2>3. \A u, a : Clean(u, a)' <=> Clean(u, a)
    BY <2>1, <2>2 DEF Clean
  <2>4. QED
    BY <1>1, <2>3 DEF Live, tables
<1>3. AckedPrefix'
  BY <1>2 DEF AckedPrefix, OrderInv
<1>4. ASSUME NEW c \in Consumer PROVE Place(c)'
  <2>1. Place(c) /\ cons'[c] = cons[c]
    BY DEF OrderInv
  <2>2. Undelivered(c)' \subseteq Undelivered(c) \cup {n}
    BY <1>1, <2>1 DEF Undelivered
  <2>3. AtHand(c)'
    <3>1. Busy(c)' => Busy(c)
      BY <2>1 DEF Busy
    <3>2. QED
      BY <1>2, <2>1, <3>1 DEF Place, AtHand
  <2>4. ToCome(c)'
    <3>1. Busy(c)' => Busy(c)
      BY <2>1 DEF Busy
    <3>2. ASSUME owner = c, cons[c].pc = "poll", NEW j \in Live', j < cons[c].next
          PROVE  j \in acked
      BY <1>2, <2>1, <3>2 DEF Place, ToCome
    <3>3. ASSUME owner = c, NEW i \in Undelivered(c)' \cap Live'
          PROVE  /\ \A j \in Live' \cap acked : j <= i
                 /\ Busy(c) => cons[c].msg <= i
      <4>1. CASE i = n
        BY <1>2, <4>1
      <4>2. CASE i # n
        BY <1>2, <2>1, <2>2, <3>3, <4>2 DEF Place, ToCome
      <4>3. QED
        BY <4>1, <4>2
    <3>4. QED
      BY <2>1, <3>1, <3>2, <3>3 DEF ToCome
  <2>5. QED
    BY <1>1, <2>1, <2>3, <2>4 DEF Place
<1>5. Decided'
  <2> SUFFICES ASSUME NEW u \in User, NEW a \in answers,
                      Clean(u, a)', MessagesOf(u, a)' \subseteq acked,
                      NEW i \in MessagesOf(u, a)', \A j \in MessagesOf(u, a)' : j <= i
               PROVE  IsVoted(u, a) <=> topic'[i].action = "up"
    BY DEF Decided, tables, IsVoted, Rows
  <2>1. n \notin MessagesOf(u, a)'
    BY <1>2
  <2>2. MessagesOf(u, a)' = MessagesOf(u, a)
    BY <1>1, <2>1 DEF MessagesOf
  <2>3. topic'[i] = topic[i]
    BY <1>1, <2>2 DEF MessagesOf
  <2>4. Clean(u, a)
    BY <2>2 DEF Clean
  <2>5. QED
    BY <2>2, <2>3, <2>4 DEF OrderInv, Decided
<1>6. QED
  BY <1>3, <1>4, <1>5 DEF OrderInv

(* With an answer go the effects of its messages. *)
LEMMA DeletedOrder ==
    ASSUME TypeOK, OrderInv, NEW d \in Answer, DeleteAnswer(d)
    PROVE  OrderInv'
<1>1. UNCHANGED <<votes, topic, acked, owner, cons, failed>> /\ answers' \subseteq answers
  BY DEF DeleteAnswer, broker
<1>2. Live' \subseteq Live
  BY <1>1, LiveShrinks
<1>3. AckedPrefix'
  BY <1>1, <1>2 DEF OrderInv, AckedPrefix
<1>4. ASSUME NEW c \in Consumer PROVE Place(c)'
  <2>1. Place(c) /\ Undelivered(c)' = Undelivered(c) /\ Busy(c)' = Busy(c)
    BY <1>1 DEF OrderInv, Undelivered, Busy
  <2>2. AtHand(c)'
    BY <1>1, <1>2, <2>1 DEF Place, AtHand
  <2>3. ToCome(c)'
    BY <1>1, <1>2, <2>1 DEF Place, ToCome
  <2>4. QED
    BY <1>1, <2>1, <2>2, <2>3 DEF Place
<1>5. Decided'
  BY <1>1, LiveShrinks DEF OrderInv, Decided, IsVoted, Rows
<1>6. QED
  BY <1>3, <1>4, <1>5 DEF OrderInv

(* What is redelivered is what was not acknowledged: behind all that was.   *)
LEMMA OpenedOrder ==
    ASSUME TypeOK, OrderInv, NEW c \in Consumer, Subscribe(c) \/ Reconnect(c)
    PROVE  Place(c)'
<1>1. /\ UNCHANGED <<topic, answers, acked, failed>>
      /\ cons'[c].next = 1 /\ cons'[c].skip = acked
      /\ Busy(c)' => Busy(c) /\ cons'[c].msg = cons[c].msg
  BY DEF Subscribe, Reconnect, tables, Busy, TypeOK, ConsumerState
<1>2. Live' \subseteq Live /\ Undelivered(c)' \cap acked = {}
  BY <1>1, LiveShrinks DEF Undelivered
<1>3. AtHand(c)'
  BY <1>1, <1>2, OrderTypes DEF OrderInv, Place, AtHand
<1>4. ASSUME NEW i \in Undelivered(c)' \cap Live
      PROVE  /\ \A j \in Live \cap acked : j <= i
             /\ Busy(c)' => cons[c].msg <= i
  BY <1>1, <1>2, OrderTypes DEF OrderInv, AckedPrefix, Place, AtHand
<1>5. ToCome(c)'
  BY <1>1, <1>2, <1>4, OrderTypes DEF ToCome
<1>6. QED
  BY <1>1, <1>3, <1>5, OrderTypes DEF Place

(* The first of what is to come has only acknowledged ones before it. *)
LEMMA ReceivedOrder ==
    ASSUME TypeOK, OrderInv, NEW c \in Consumer, Receive(c)
    PROVE  Place(c)'
<1>1. PICK i \in Undelivered(c) :
         /\ \A j \in Undelivered(c) : i <= j
         /\ cons' = [cons EXCEPT ![c] = [pc |-> "check", msg |-> i, next |-> i + 1, skip |-> @.skip]]
  BY DEF Receive
<1>2. /\ cons'[c].pc = "check" /\ cons'[c].msg = i /\ cons'[c].next = i + 1
      /\ cons'[c].skip = cons[c].skip
  BY <1>1 DEF TypeOK
<1>3. UNCHANGED <<topic, answers, acked, owner, failed>> /\ owner = c /\ cons[c].pc = "poll"
  BY DEF Receive, tables, broker
<1>4. Live' \subseteq Live
  BY <1>3, LiveShrinks
<1>5. i \in 1..Len(topic) /\ Place(c)
  BY OrderTypes DEF Undelivered, OrderInv
<1>6. Undelivered(c)' \subseteq Undelivered(c) /\ \A j \in Undelivered(c)' : i <= j
  BY <1>2, <1>3, <1>5, OrderTypes DEF Undelivered
<1>7. ASSUME NEW j \in Live, j < i PROVE j \in acked
  <2>1. CASE j < cons[c].next
    BY <1>3, <1>5, <2>1 DEF Place, ToCome
  <2>2. CASE ~(j < cons[c].next)
    <3>1. j \notin Undelivered(c)
      BY <1>1, <1>5, <1>7, OrderTypes
    <3>2. j \in cons[c].skip
      BY <2>2, <3>1, OrderTypes DEF Undelivered, Live
    <3>3. QED
      BY <1>5, <3>2 DEF Place
  <2>3. QED
    BY <2>1, <2>2
<1>8. i \in Live => \A j \in Live \cap acked : j <= i
  BY <1>3, <1>5 DEF Place, ToCome
<1>9. AtHand(c)'
  BY <1>2, <1>3, <1>4, <1>5, <1>7, <1>8 DEF AtHand
<1>10. ToCome(c)'
  BY <1>2, <1>3, <1>4, <1>5, <1>6 DEF Place, ToCome
<1>11. QED
  BY <1>2, <1>3, <1>5, <1>9, <1>10, OrderTypes DEF Place

(* The test ends in a transaction, an acknowledgement or a failure. *)
LEMMA CheckedOrder ==
    ASSUME TypeOK, OrderInv, NEW c \in Consumer, CheckHandled(c)
    PROVE  Place(c)'
<1>1. /\ UNCHANGED <<topic, answers, acked, owner>> /\ Busy(c) /\ Place(c)
      /\ cons[c].pc # "ack"
      /\ Goto(c, NextStep(MsgOf(c).action, IsVoted(MsgOf(c).by, MsgOf(c).target)))
  BY DEF CheckHandled, tables, broker, Busy, OrderInv
<1>2. NextStep(MsgOf(c).action, IsVoted(MsgOf(c).by, MsgOf(c).target))
        \in {"ack", "insert", "cancel", "poll"}
  BY NextStepType DEF IsVoted
<1>3. QED
  BY <1>1, <1>2, GivesUp, GoesOn

(* A handler may fail at each of its steps. *)
LEMMA HandlerFailsOrder ==
    ASSUME TypeOK, OrderInv, NEW c \in Consumer, HandlerFails(c)
    PROVE  Place(c)'
<1>1. /\ UNCHANGED <<topic, answers, acked, owner>> /\ Busy(c) /\ Place(c)
      /\ cons[c].pc # "ack" /\ Goto(c, "poll")
  BY DEF HandlerFails, tables, broker, Busy, OrderInv
<1>2. QED
  BY <1>1, GivesUp

(* A transaction goes on to its acknowledgement, or it failed; it changes a  *)
(* vote only on an answer that exists.                                       *)
LEMMA CommittedOrder ==
    ASSUME TypeOK, OrderInv, HandlerInv,
           NEW c \in Consumer, VoteAnswer(c) \/ CancelVoteAnswer(c)
    PROVE  /\ Place(c)'
           /\ votes' # votes => MsgOf(c).target \in answers
<1>1. /\ UNCHANGED <<topic, answers, acked, owner>> /\ Busy(c) /\ Place(c)
      /\ cons[c].pc # "ack"
  BY DEF VoteAnswer, CancelVoteAnswer, broker, Busy, OrderInv
<1>2. Goto(c, "ack") \/ Goto(c, "poll")
  BY DEF VoteAnswer, CancelVoteAnswer, Committed
<1>3. Place(c)'
  BY <1>1, <1>2, GivesUp, GoesOn
<1>4. QED
  BY <1>3 DEF VoteAnswer, CancelVoteAnswer

(* A transaction changes the vote of a user one of whose messages on the     *)
(* answer failed, or not all of whose messages on it are acknowledged: else  *)
(* its message was the last, and had its effect already.                     *)
LEMMA CommittedDecided ==
    ASSUME TypeOK, OrderInv, HandlerInv, NEW c \in Consumer,
           VoteAnswer(c) \/ CancelVoteAnswer(c)
    PROVE  Decided'
<1> DEFINE m == MsgOf(c)
<1>1. UNCHANGED <<topic, answers, acked>> /\ failed \subseteq failed'
  BY FailedGrows DEF ConsumerStep, VoteAnswer, CancelVoteAnswer, broker
<1>2. CASE votes' = votes
  BY <1>1, <1>2, DecidedFrame DEF OrderInv
<1>3. CASE votes' # votes
  <2>1. Busy(c) /\ Place(c)
    BY DEF OrderInv, Busy, VoteAnswer, CancelVoteAnswer
  <2>2. /\ m.action = "up" <=> ~IsVoted(m.by, m.target)
        /\ m.action \in {"up", "down"}
    BY DEF VoteAnswer, CancelVoteAnswer, HandlerInv, Knows
  <2>3. cons[c].msg \in DOMAIN topic /\ m.by \in User /\ m.target \in answers
    BY <1>3, <2>1, InTopic, CommittedOrder DEF TypeOK, Busy
  <2>4. cons[c].msg \in MessagesOf(m.by, m.target)
    BY <2>2, <2>3 DEF MessagesOf, MsgOf
  <2>5. ~(Clean(m.by, m.target) /\ MessagesOf(m.by, m.target) \subseteq acked)
    <3> SUFFICES ASSUME Clean(m.by, m.target), MessagesOf(m.by, m.target) \subseteq acked
                 PROVE  FALSE
      OBVIOUS
    <3>1. MessagesOf(m.by, m.target) \subseteq Live
      BY <2>3 DEF MessagesOf, Live
    <3>2. \A j \in MessagesOf(m.by, m.target) : j <= cons[c].msg
      BY <2>1, <2>4, <3>1 DEF Place, AtHand
    <3>3. IsVoted(m.by, m.target) <=> topic[cons[c].msg].action = "up"
      BY <2>3, <2>4, <3>2 DEF OrderInv, Decided
    <3>4. QED
      BY <2>2, <3>3 DEF MsgOf
  <2>6. ASSUME NEW u \in User, NEW a \in answers, ~(u = m.by /\ a = m.target)
        PROVE  IsVoted(u, a)' <=> IsVoted(u, a)
    <3>1. CASE VoteAnswer(c)
      <4> DEFINE row == [id |-> nextId, target |-> m.target, by |-> m.by]
      <4>1. votes' = votes \cup {row}
        BY <1>3, <3>1 DEF VoteAnswer
      <4>2. ~(row.by = u /\ row.target = a)
        BY <2>6
      <4>3. Rows(u, a)' = Rows(u, a)
        BY <4>1, <4>2 DEF Rows
      <4>4. QED
        BY <4>3 DEF IsVoted
    <3>2. CASE CancelVoteAnswer(c)
      <4>1. votes' = votes \ Rows(m.by, m.target)
        BY <1>3, <3>2 DEF CancelVoteAnswer
      <4>2. Rows(u, a)' = Rows(u, a)
        BY <2>6, <4>1 DEF Rows
      <4>3. QED
        BY <4>2 DEF IsVoted
    <3>3. QED
      BY <3>1, <3>2
  <2>7. ASSUME NEW u \in User, NEW a \in answers,
               Clean(u, a), MessagesOf(u, a) \subseteq acked,
               NEW i \in MessagesOf(u, a), \A j \in MessagesOf(u, a) : j <= i
        PROVE  IsVoted(u, a)' <=> topic[i].action = "up"
    <3>1. ~(u = m.by /\ a = m.target)
      BY <2>5, <2>7
    <3>2. IsVoted(u, a)' <=> IsVoted(u, a)
      BY <2>6, <3>1
    <3>3. IsVoted(u, a) <=> topic[i].action = "up"
      BY <2>7 DEF OrderInv, Decided
    <3>4. QED
      BY <3>2, <3>3
  <2>8. \A u, a : MessagesOf(u, a)' = MessagesOf(u, a) /\ (Clean(u, a)' => Clean(u, a))
    BY <1>1, LiveShrinks
  <2>9. QED
    BY <1>1, <2>7, <2>8 DEF Decided
<1>4. QED
  BY <1>2, <1>3

(* The message acknowledged is the newest of those that are, and its effect  *)
(* is in the table.                                                         *)
LEMMA AckOrder ==
    ASSUME TypeOK, OrderInv, HandlerInv, NEW c \in Consumer, Ack(c)
    PROVE  Place(c)' /\ AckedPrefix' /\ Decided'
<1> DEFINE k == cons[c].msg
<1>1. /\ UNCHANGED <<tables, topic, owner, failed>> /\ Busy(c) /\ Place(c)
      /\ acked' = IF owner = c THEN acked \cup {k} ELSE acked
      /\ cons[c].pc = "ack"
  BY DEF Ack, Goto, Busy, OrderInv
<1>2. /\ cons'[c].pc = "poll" /\ cons'[c].msg = k
      /\ cons'[c].next = cons[c].next /\ cons'[c].skip = cons[c].skip
  BY DEF Ack, Goto, TypeOK, ConsumerState
<1>3. /\ Live' \subseteq Live /\ Undelivered(c)' = Undelivered(c)
      /\ \A u, a : MessagesOf(u, a)' = MessagesOf(u, a) /\ (Clean(u, a)' => Clean(u, a))
  BY <1>1, <1>2, LiveShrinks DEF Undelivered, tables
<1>4. /\ \A j \in Live : j < k => j \in acked
      /\ k \in Live => \A j \in Live \cap acked : j <= k
  BY <1>1 DEF Place, AtHand
<1>5. AckedPrefix'
  BY <1>1, <1>3, <1>4 DEF AckedPrefix, OrderInv
<1>6. Place(c)'
  <2>1. ASSUME owner = c, NEW j \in Live, j < cons[c].next PROVE j \in acked'
    <3>1. j < k \/ j = k
      BY <1>1, <2>1, OrderTypes DEF Place, AtHand
    <3>2. QED
      BY <1>1, <1>4, <2>1, <3>1
  <2>2. ASSUME owner = c, NEW i \in Undelivered(c) \cap Live, NEW j \in Live \cap acked'
        PROVE  j <= i
    BY <1>1, <2>2 DEF Place, ToCome
  <2>3. QED
    BY <1>1, <1>2, <1>3, <2>1, <2>2 DEF Place, AtHand, ToCome, Busy
<1>7. Decided'
  <2>1. CASE acked' = acked
    BY <1>1, <2>1, DecidedFrame DEF OrderInv, tables
  <2>2. CASE acked' = acked \cup {k}
    <3> SUFFICES ASSUME NEW u \in User, NEW a \in answers,
                        Clean(u, a), MessagesOf(u, a) \subseteq acked',
                        NEW i \in MessagesOf(u, a), \A j \in MessagesOf(u, a) : j <= i
                 PROVE  IsVoted(u, a) <=> topic[i].action = "up"
      BY <1>1, <1>3 DEF Decided, tables, IsVoted, Rows
    <3>1. MessagesOf(u, a) \subseteq Live
      BY DEF MessagesOf, Live
    <3>2. CASE k \in MessagesOf(u, a)
      <4>1. \A j \in MessagesOf(u, a) : j <= k
        BY <1>4, <2>2, <3>1, <3>2, OrderTypes
      <4>2. i = k
        BY <3>1, <3>2, <4>1, OrderTypes
      <4>3. topic[k].by = u /\ topic[k].target = a /\ topic[k].action \in {"up", "down"}
        BY <3>2 DEF MessagesOf
      <4>4. /\ topic[k].action = "up" => IsVoted(u, a)
            /\ topic[k].action = "down" => ~IsVoted(u, a)
        BY <1>1, <4>3 DEF HandlerInv, Knows, MsgOf
      <4>5. QED
        BY <4>2, <4>3, <4>4
    <3>3. CASE k \notin MessagesOf(u, a)
      BY <2>2, <3>3 DEF OrderInv, Decided
    <3>4. QED
      BY <3>2, <3>3
  <2>3. QED
    BY <1>1, <2>1, <2>2
<1>8. QED
  BY <1>5, <1>6, <1>7

(* A consumer that is gone or cut off keeps what is settled. *)
LEMMA LostOrder ==
    ASSUME TypeOK, OrderInv, NEW c \in Consumer,
           AckFails(c) \/ LoopEnds(c) \/ Crash(c) \/ ConnectionLost(c)
    PROVE  Place(c)'
<1>1. CASE AckFails(c) \/ LoopEnds(c) \/ Crash(c)
  BY <1>1, GonePlace DEF AckFails, LoopEnds, Crash
<1>2. CASE ConnectionLost(c)
  <2>1. owner' # c /\ UNCHANGED <<topic, answers, acked, cons, failed>> /\ Place(c)
    BY <1>2, NoneAssumption DEF ConnectionLost, tables, OrderInv
  <2>2. Live' \subseteq Live
    BY <2>1, LiveShrinks
  <2>3. QED
    BY <2>1, <2>2 DEF Place, AtHand, ToCome, Busy
<1>3. QED
  BY <1>1, <1>2

-----------------------------------------------------------------------------
(* The invariant *)

LEMMA OrderInvInit == Init => OrderInv
<1> SUFFICES ASSUME Init PROVE OrderInv
  OBVIOUS
<1>1. Live = {} /\ acked = {} /\ Len(topic) = 0
  BY DEF Init, Live
<1>2. \A c \in Consumer : Place(c)
  BY <1>1, NoneAssumption DEF Init, Place, AtHand, ToCome, Busy, NotStarted
<1>3. Decided
  BY DEF Init, Decided, MessagesOf
<1>4. QED
  BY <1>1, <1>2, <1>3 DEF OrderInv, AckedPrefix

LEMMA ConsumerStepOrder ==
    ASSUME SingleConsumer, TypeOK, OrderInv, HandlerInv, NEW c \in Consumer, ConsumerStep(c)
    PROVE  OrderInv'
<1>1. (\A d \in Consumer : d = c) /\ failed \subseteq failed'
  BY FailedGrows DEF SingleConsumer
<1>2. CASE Ack(c)
  BY <1>1, <1>2, AckOrder DEF OrderInv
<1>3. CASE VoteAnswer(c) \/ CancelVoteAnswer(c)
  <2>1. UNCHANGED <<topic, answers, acked>>
    BY <1>3 DEF VoteAnswer, CancelVoteAnswer, broker
  <2>2. Place(c)' /\ Decided'
    BY <1>3, CommittedOrder, CommittedDecided
  <2>3. QED
    BY <1>1, <2>1, <2>2, PrefixFrame DEF OrderInv
<1>4. CASE ~Ack(c) /\ ~VoteAnswer(c) /\ ~CancelVoteAnswer(c)
  <2>1. UNCHANGED <<tables, topic, acked>>
    BY <1>4 DEF ConsumerStep, Subscribe, Reconnect, Receive, CheckHandled, HandlerFails,
                AckFails, LoopEnds, Crash, ConnectionLost, broker
  <2>2. Place(c)'
    BY <1>4, OpenedOrder, ReceivedOrder, CheckedOrder, HandlerFailsOrder, LostOrder
       DEF ConsumerStep
  <2>3. QED
    BY <1>1, <2>1, <2>2, DecidedFrame, PrefixFrame DEF OrderInv, tables
<1>5. QED
  BY <1>2, <1>3, <1>4

LEMMA RequestStepOrder ==
    ASSUME TypeOK, OrderInv, NEW r \in Request, RequestStep(r)
    PROVE  OrderInv'
<1>1. UNCHANGED <<tables, acked, owner, cons, failed>>
  BY DEF RequestStep, FindAnswer, CheckVoted, Publish, PublishFails, Return, broker
<1>2. topic' = topic \/ \E m \in Message : topic' = Append(topic, m)
  <2>1. CASE Publish(r) \/ PublishFails(r)
    <3>1. req[r] \in Call /\ req[r].pc = "allowed"
      BY <2>1 DEF Publish, PublishFails, TypeOK
    <3>2. req[r].msg \in Message
      BY <3>1 DEF Call, Idle
    <3>3. QED
      BY <2>1, <3>2 DEF Publish, PublishFails
  <2>2. QED
    BY <2>1 DEF RequestStep, FindAnswer, CheckVoted, Return, broker
<1>3. CASE topic' = topic
  BY <1>1, <1>3 DEF tables, OrderInv, AckedPrefix, Decided, Place, AtHand, ToCome, Busy, Live,
                    Undelivered, MessagesOf, Clean, IsVoted, Rows
<1>4. QED
  BY <1>1, <1>2, <1>3, GrownOrder

LEMMA OrderInvNext ==
    ASSUME SingleConsumer
    PROVE  TypeOK /\ HandlerInv /\ OrderInv /\ [Next]_vars => OrderInv'
<1> SUFFICES ASSUME TypeOK, HandlerInv, OrderInv, [Next]_vars
             PROVE  OrderInv'
  OBVIOUS
<1>1. CASE UNCHANGED vars
  BY <1>1 DEF vars, tables, broker, OrderInv, AckedPrefix, Decided, Place, AtHand, ToCome, Busy,
              Live, Undelivered, MessagesOf, Clean, IsVoted, Rows
<1>2. QED
  BY <1>1, ConsumerStepOrder, RequestStepOrder, DeletedOrder DEF Next

(* With nothing left to deliver, every message that can take effect is      *)
(* acknowledged, and the last of each user has decided.                     *)
LEMMA LastOneDecides ==
    ASSUME TypeOK, OrderInv
    PROVE  LastMessageWins
<1> SUFFICES ASSUME NEW c \in Consumer, owner = c, cons[c].pc = "poll", Undelivered(c) = {},
                    NEW u \in User, NEW a \in answers, Clean(u, a)
             PROVE  MessagesOf(u, a) \subseteq acked
  BY DEF LastMessageWins, OrderInv, Decided, Clean
<1>1. MessagesOf(u, a) \subseteq Live
  BY DEF MessagesOf, Live
<1>2. ASSUME NEW i \in Live PROVE i \in acked
  <2>1. i < cons[c].next \/ i \in cons[c].skip
    BY OrderTypes DEF Undelivered, Live
  <2>2. QED
    BY <2>1 DEF OrderInv, Place, ToCome
<1>3. QED
  BY <1>1, <1>2

(* With one consumer the last message of a user none of whose messages on    *)
(* the answer failed decides the vote, however often messages are delivered  *)
(* again and whatever fails for others (the loop of consumer, and publish    *)
(* before it).                                                               *)
THEOREM LastOneWins ==
    ASSUME SingleConsumer
    PROVE  Spec => []LastMessageWins
BY LastOneDecides, OrderInvInit, OrderInvNext, HandlerInvInit, HandlerInvNext, InitType,
   NextType, PTL DEF Spec
=============================================================================
