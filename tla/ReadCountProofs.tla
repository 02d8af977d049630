--------------------------- MODULE ReadCountProofs ---------------------------
(* What ReadCount guarantees for every number of questions, reads, calls and *)
(* failures, with at most one flusher for the results that need it.          *)
EXTENDS ReadCount, TLAPS

-----------------------------------------------------------------------------
(* Types *)

LEMMA ZeroType == Zero \in [Question -> Int] /\ Zero \in [Question -> Nat] /\ \A q \in Question : Zero[q] = 0
BY DEF Zero

LEMMA NotRunningType == NotRunning \in Flush /\ NotRunning.pc = "off"
BY ZeroType DEF NotRunning, Flush

LEMMA HIncrByType ==
    ASSUME TypeOK, NEW q \in Question, NEW n \in Int, HIncrBy(q, n)
    PROVE  fields' \subseteq Question /\ pending' \in [Question -> Int]
BY DEF TypeOK, HIncrBy

LEMMA EndsType ==
    ASSUME TypeOK, NEW f \in Flusher, Ends(f)
    PROVE  /\ flush' \in [Flusher -> Flush]
           /\ \A g \in Flusher : flush'[g].pc = "subtract" => flush'[g].at \in flush'[g].todo
BY NotRunningType DEF TypeOK, Ends

(* What a running flush holds, by component. *)
LEMMA FlushFields ==
    ASSUME TypeOK, NEW f \in Flusher
    PROVE  /\ flush[f].todo \in SUBSET Question /\ flush[f].unseen \in SUBSET Question
           /\ flush[f].due \in [Question -> Nat]
           /\ flush[f].value \in [Question -> Int] /\ flush[f].at \in Question \cup {None}
           /\ flush[f].pc = "subtract" => flush[f].at \in Question
BY DEF TypeOK, Flush

LEMMA RequestStepType ==
    ASSUME TypeOK, NEW r \in Request, RequestStep(r)
    PROVE  TypeOK'
<1>1. ASSUME NEW q \in Question, FindQuestion(r, q) PROVE TypeOK'
  BY <1>1 DEF FindQuestion, TypeOK, Call, postgres, redis
<1>2. CASE Incr(r)
  <2> DEFINE q == call[r].question
  <2>1. q \in Question /\ call[r].count \in Int /\ pending[q] \in Int
    BY <1>2 DEF Incr, TypeOK, Call
  <2>2. fields' \subseteq Question /\ pending' \in [Question -> Int]
    BY <1>2, <2>1, HIncrByType DEF Incr
  <2>3. call' \in [Request -> Call] /\ \A s \in Request :
            call'[s].pc # "idle" => call'[s].question \in Question
    BY <1>2, <2>1 DEF Incr, TypeOK, Call
  <2>4. reads' \in [Question -> Nat]
    BY <1>2, <2>1 DEF Incr, TypeOK
  <2>5. QED
    BY <1>2, <2>2, <2>3, <2>4 DEF Incr, TypeOK, postgres
<1>3. CASE Return(r)
  BY <1>3 DEF Return, TypeOK, Call, NoCall, postgres, redis
<1>4. QED
  BY <1>1, <1>2, <1>3 DEF RequestStep

LEMMA FlushStepType ==
    ASSUME TypeOK, NEW f \in Flusher, FlushStep(f)
    PROVE  TypeOK'
<1>1. CASE Start(f)
  <2>1. [NotRunning EXCEPT !.pc = "scan", !.unseen = fields, !.due = reads] \in Flush
    BY ZeroType DEF NotRunning, Flush, TypeOK
  <2>2. [NotRunning EXCEPT !.pc = "scan", !.unseen = fields, !.due = reads].pc = "scan"
    BY DEF NotRunning
  <2>3. /\ flush' \in [Flusher -> Flush]
        /\ \A g \in Flusher : flush'[g].pc = "subtract" => flush'[g].at \in flush'[g].todo
    BY <1>1, <2>1, <2>2 DEF Start, TypeOK
  <2>4. QED
    BY <1>1, <2>3 DEF Start, TypeOK, postgres, redis
<1>2. CASE Scan(f)
  <2>1. CASE Ends(f)
    BY <1>2, <2>1, EndsType DEF Scan, TypeOK, postgres, redis
  <2>2. ASSUME NEW B \in SUBSET fields,
               flush' = [flush EXCEPT ![f] =
                     [pc |-> "write", todo |-> B, at |-> None, unseen |-> @.unseen \ B, due |-> @.due,
                      value |-> [q \in Question |-> IF q \in B THEN pending[q] ELSE 0]]]
        PROVE  TypeOK'
    <3>1. [q \in Question |-> IF q \in B THEN pending[q] ELSE 0] \in [Question -> Int]
      BY DEF TypeOK
    <3>2. /\ B \in SUBSET Question /\ flush[f].unseen \ B \in SUBSET Question
          /\ flush[f].due \in [Question -> Nat]
      BY FlushFields DEF TypeOK
    <3>3. [pc |-> "write", todo |-> B, at |-> None, unseen |-> flush[f].unseen \ B, due |-> flush[f].due,
           value |-> [q \in Question |-> IF q \in B THEN pending[q] ELSE 0]] \in Flush
      BY <3>1, <3>2 DEF Flush
    <3>4. /\ flush' \in [Flusher -> Flush]
          /\ \A g \in Flusher : flush'[g].pc = "subtract" => flush'[g].at \in flush'[g].todo
      BY <2>2, <3>3 DEF TypeOK
    <3>5. QED
      BY <1>2, <3>4 DEF Scan, TypeOK, postgres, redis
  <2>3. QED
    BY <1>2, <2>1, <2>2 DEF Scan
<1>3. CASE WriteStored(f)
  <2>1. PICK q \in flush[f].todo :
            IF q \in exists
              THEN /\ stored' = [stored EXCEPT ![q] = @ + flush[f].value[q]]
                   /\ flush' = [flush EXCEPT ![f] = [@ EXCEPT !.pc = "subtract", !.at = q]]
              ELSE Ends(f) /\ UNCHANGED stored
    BY <1>3 DEF WriteStored
  <2>2. q \in Question /\ flush[f].value[q] \in Int
    BY FlushFields
  <2>3. CASE Ends(f) /\ UNCHANGED stored
    BY <1>3, <2>3, EndsType DEF WriteStored, TypeOK, redis
  <2>4. CASE /\ stored' = [stored EXCEPT ![q] = @ + flush[f].value[q]]
             /\ flush' = [flush EXCEPT ![f] = [@ EXCEPT !.pc = "subtract", !.at = q]]
    <3>1. stored' \in [Question -> Int]
      BY <2>2, <2>4 DEF TypeOK
    <3>2. /\ [flush[f] EXCEPT !.pc = "subtract", !.at = q] \in Flush
          /\ [flush[f] EXCEPT !.pc = "subtract", !.at = q].at = q
          /\ [flush[f] EXCEPT !.pc = "subtract", !.at = q].todo = flush[f].todo
      BY <2>2 DEF TypeOK, Flush
    <3>3. /\ flush' \in [Flusher -> Flush]
          /\ \A g \in Flusher : flush'[g].pc = "subtract" => flush'[g].at \in flush'[g].todo
      BY <2>4, <3>2 DEF TypeOK
    <3>4. QED
      BY <1>3, <3>1, <3>3 DEF WriteStored, TypeOK, redis
  <2>5. QED
    BY <2>1, <2>3, <2>4
<1>4. CASE Subtract(f)
  <2> DEFINE q == flush[f].at
             next == [pc |-> IF flush[f].todo \ {q} = {} THEN "scan" ELSE "write",
                      todo |-> flush[f].todo \ {q}, at |-> None,
                      value |-> [flush[f].value EXCEPT ![q] = 0],
                      unseen |-> flush[f].unseen, due |-> flush[f].due]
  <2>1. q \in Question /\ flush[f].value[q] \in Int
    BY <1>4, FlushFields DEF Subtract
  <2>2. fields' \subseteq Question /\ pending' \in [Question -> Int]
    BY <1>4, <2>1, HIncrByType DEF Subtract
  <2>3. next \in Flush /\ next.pc # "subtract"
    BY <2>1, FlushFields DEF Flush
  <2>4. flush' = [flush EXCEPT ![f] = next]
    BY <1>4 DEF Subtract, Moved, TypeOK
  <2>5. /\ flush' \in [Flusher -> Flush]
        /\ \A g \in Flusher : flush'[g].pc = "subtract" => flush'[g].at \in flush'[g].todo
    BY <2>3, <2>4 DEF TypeOK
  <2>6. QED
    BY <1>4, <2>2, <2>5 DEF Subtract, TypeOK, postgres
<1>5. CASE FlushFails(f)
  <2>1. faults' \in Nat
    BY <1>5 DEF FlushFails, Fails, TypeOK
  <2>2. QED
    BY <1>5, <2>1, EndsType DEF FlushFails, TypeOK, postgres, redis
<1>6. QED
  BY <1>1, <1>2, <1>3, <1>4, <1>5 DEF FlushStep

LEMMA InitType == Init => TypeOK
BY ZeroType, NotRunningType DEF Init, TypeOK, Call, NoCall

LEMMA NextType == TypeOK /\ [Next]_vars => TypeOK'
<1> SUFFICES ASSUME TypeOK, [Next]_vars PROVE TypeOK'
  OBVIOUS
<1>1. ASSUME NEW q \in Question, DeleteQuestion(q) PROVE TypeOK'
  BY <1>1 DEF DeleteQuestion, TypeOK, redis
<1>2. CASE UNCHANGED vars
  BY <1>2 DEF vars, TypeOK, postgres, redis
<1>3. QED
  BY <1>1, <1>2, RequestStepType, FlushStepType DEF Next

(* TypeOK holds in every reachable state; in particular a flush always has    *)
(* the field it is moving in its batch (question.rs, reids_cmd).              *)
THEOREM TypeCorrect == Spec => []TypeOK
BY InitType, NextType, PTL DEF Spec

-----------------------------------------------------------------------------
(* One flusher.  What a flush took from its scan is never more than what the *)
(* field still holds, because only the flush itself takes anything off; and  *)
(* between its two halves the moved value is in both stores.                 *)

SingleFlusher == \A f, g \in Flusher : f = g

Snapshot == \A f \in Flusher : \A q \in Question :
    0 <= flush[f].value[q] /\ flush[f].value[q] <= pending[q]

InBoth == \A f \in Flusher : flush[f].pc = "subtract" =>
    LET q == flush[f].at IN stored[q] + pending[q] >= reads[q] + flush[f].value[q]

CallCount == \A r \in Request : /\ call[r].pc = "found" => call[r].count >= 0
                                /\ call[r].pc = "replied" => call[r].count >= 1

BalanceInv == /\ PendingNotNegative
              /\ \A q \in Question : stored[q] >= 0
              /\ NoReadLost
              /\ Snapshot
              /\ InBoth
              /\ CallCount

LEMMA BalanceInit == Init => BalanceInv
<1> SUFFICES ASSUME Init PROVE BalanceInv
  OBVIOUS
<1>1. \A q \in Question : stored[q] = 0 /\ pending[q] = 0 /\ reads[q] = 0
  BY ZeroType DEF Init
<1>2. \A f \in Flusher : flush[f].pc = "off" /\ \A q \in Question : flush[f].value[q] = 0
  BY ZeroType DEF Init, NotRunning
<1>3. \A r \in Request : call[r].pc = "idle"
  BY DEF Init, NoCall
<1>4. QED
  BY <1>1, <1>2, <1>3
     DEF BalanceInv, PendingNotNegative, NoReadLost, Snapshot, InBoth, CallCount

(* A step that leaves the stores and the history alone, and ends or restarts *)
(* a flush, keeps the balance.                                               *)
LEMMA FlushOff ==
    ASSUME TypeOK, BalanceInv, NEW f \in Flusher, UNCHANGED <<stored, redis, call, reads>>,
           NEW next, flush' = [flush EXCEPT ![f] = next],
           next.pc # "subtract", \A q \in Question : next.value[q] = 0
    PROVE  BalanceInv'
<1>1. \A g \in Flusher : g # f => flush'[g] = flush[g]
  BY DEF TypeOK
<1>2. flush'[f] = next
  BY DEF TypeOK
<1>3. Snapshot'
  BY <1>1, <1>2 DEF BalanceInv, Snapshot, redis, PendingNotNegative, TypeOK
<1>4. InBoth'
  BY <1>1, <1>2 DEF BalanceInv, InBoth, redis
<1>5. QED
  BY <1>3, <1>4 DEF BalanceInv, PendingNotNegative, NoReadLost, CallCount, redis

LEMMA EndsBalance ==
    ASSUME TypeOK, BalanceInv, NEW f \in Flusher, Ends(f),
           UNCHANGED <<stored, redis, call, reads>>
    PROVE  BalanceInv'
<1>1. NotRunning.pc # "subtract" /\ \A q \in Question : NotRunning.value[q] = 0
  BY ZeroType DEF NotRunning
<1>2. flush' = [flush EXCEPT ![f] = NotRunning]
  BY DEF Ends
<1>3. QED
  BY <1>1, <1>2, FlushOff

LEMMA RequestStepBalance ==
    ASSUME TypeOK, BalanceInv, NEW r \in Request, RequestStep(r)
    PROVE  BalanceInv'
<1>1. ASSUME NEW q \in Question, FindQuestion(r, q) PROVE BalanceInv'
  <2>1. stored[q] >= 0
    BY DEF BalanceInv
  <2>2. CallCount'
    BY <1>1, <2>1 DEF FindQuestion, BalanceInv, CallCount, TypeOK
  <2>3. QED
    BY <1>1, <2>2 DEF FindQuestion, BalanceInv, PendingNotNegative, NoReadLost, Snapshot, InBoth,
                      postgres, redis
<1>2. CASE Return(r)
  <2>1. CallCount'
    BY <1>2 DEF Return, NoCall, BalanceInv, CallCount, TypeOK
  <2>2. QED
    BY <1>2, <2>1 DEF Return, BalanceInv, PendingNotNegative, NoReadLost, Snapshot, InBoth,
                      postgres, redis
<1>3. CASE Incr(r)
  <2> DEFINE q == call[r].question
  <2>1. q \in Question /\ call[r].pc = "found" /\ call[r].count \in Int
    BY <1>3 DEF Incr, TypeOK, Call
  <2>2. /\ pending' = [pending EXCEPT ![q] = @ + 1] /\ reads' = [reads EXCEPT ![q] = @ + 1]
        /\ stored' = stored /\ flush' = flush
    BY <1>3 DEF Incr, HIncrBy, postgres
  <2>3. \A p \in Question : /\ pending[p] \in Int /\ reads[p] \in Int /\ stored[p] \in Int
                            /\ pending'[p] = pending[p] + (IF p = q THEN 1 ELSE 0)
                            /\ reads'[p] = reads[p] + (IF p = q THEN 1 ELSE 0)
    BY <2>1, <2>2 DEF TypeOK
  <2>4. PendingNotNegative' /\ NoReadLost'
    BY <2>2, <2>3 DEF BalanceInv, PendingNotNegative, NoReadLost
  <2>5. Snapshot'
    <3> SUFFICES ASSUME NEW f \in Flusher, NEW p \in Question
                 PROVE  0 <= flush[f].value[p] /\ flush[f].value[p] <= pending'[p]
      BY <2>2 DEF Snapshot
    <3>1. flush[f].value[p] \in Int
      BY FlushFields
    <3>2. QED
      BY <2>3, <3>1 DEF BalanceInv, Snapshot
  <2>6. InBoth'
    <3> SUFFICES ASSUME NEW f \in Flusher, flush[f].pc = "subtract"
                 PROVE  LET p == flush[f].at
                        IN  stored[p] + pending'[p] >= reads'[p] + flush[f].value[p]
      BY <2>2 DEF InBoth
    <3> DEFINE p == flush[f].at
    <3>1. p \in Question /\ flush[f].value[p] \in Int
      BY FlushFields
    <3>2. stored[p] + pending[p] >= reads[p] + flush[f].value[p]
      BY DEF BalanceInv, InBoth
    <3> HIDE DEF p
    <3>3. stored[p] + pending'[p] >= reads'[p] + flush[f].value[p]
      BY <2>3, <3>1, <3>2
    <3>4. QED
      BY <3>3 DEF p
  <2>7. CallCount'
    <3>1. call[r].count >= 0 /\ pending[q] >= 0 /\ pending[q] \in Int
      BY <2>1 DEF BalanceInv, CallCount, PendingNotNegative, TypeOK
    <3>2. call[r].count + pending[q] + 1 >= 1
      BY <2>1, <3>1
    <3>3. call' = [call EXCEPT ![r] = [pc |-> "replied", question |-> q,
                                       count |-> call[r].count + pending[q] + 1]]
      BY <1>3 DEF Incr
    <3>4. QED
      BY <3>2, <3>3 DEF BalanceInv, CallCount, TypeOK
  <2>8. QED
    BY <2>2, <2>4, <2>5, <2>6, <2>7 DEF BalanceInv
<1>4. QED
  BY <1>1, <1>2, <1>3 DEF RequestStep

LEMMA ScanBalance ==
    ASSUME TypeOK, BalanceInv, NEW f \in Flusher, Scan(f)
    PROVE  BalanceInv'
<1>1. UNCHANGED <<stored, redis, call, reads>>
  BY DEF Scan, postgres
<1>2. CASE Ends(f)
  BY <1>1, <1>2, EndsBalance
<1>3. ASSUME NEW B \in SUBSET fields,
             flush' = [flush EXCEPT ![f] =
                   [pc |-> "write", todo |-> B, at |-> None, unseen |-> @.unseen \ B, due |-> @.due,
                    value |-> [q \in Question |-> IF q \in B THEN pending[q] ELSE 0]]]
      PROVE  BalanceInv'
  <2>1. /\ flush'[f].pc = "write"
        /\ \A q \in Question : flush'[f].value[q] = IF q \in B THEN pending[q] ELSE 0
        /\ \A g \in Flusher : g # f => flush'[g] = flush[g]
    BY <1>3 DEF TypeOK
  <2>2. \A q \in Question : pending[q] \in Int /\ pending[q] >= 0
    BY DEF TypeOK, BalanceInv, PendingNotNegative
  <2>3. Snapshot'
    BY <1>1, <2>1, <2>2 DEF BalanceInv, Snapshot, redis
  <2>4. InBoth'
    BY <1>1, <2>1 DEF BalanceInv, InBoth, redis
  <2>5. QED
    BY <1>1, <2>3, <2>4 DEF BalanceInv, PendingNotNegative, NoReadLost, CallCount, redis
<1>4. QED
  BY <1>2, <1>3 DEF Scan

LEMMA WriteStoredBalance ==
    ASSUME SingleFlusher, TypeOK, BalanceInv, NEW f \in Flusher, WriteStored(f)
    PROVE  BalanceInv'
<1>1. UNCHANGED <<redis, call, reads>>
  BY DEF WriteStored
<1>2. PICK q \in flush[f].todo :
          IF q \in exists
            THEN /\ stored' = [stored EXCEPT ![q] = @ + flush[f].value[q]]
                 /\ flush' = [flush EXCEPT ![f] = [@ EXCEPT !.pc = "subtract", !.at = q]]
            ELSE Ends(f) /\ UNCHANGED stored
  BY DEF WriteStored
<1>3. CASE Ends(f) /\ UNCHANGED stored
  BY <1>1, <1>3, EndsBalance
<1>4. CASE /\ stored' = [stored EXCEPT ![q] = @ + flush[f].value[q]]
           /\ flush' = [flush EXCEPT ![f] = [@ EXCEPT !.pc = "subtract", !.at = q]]
  <2> DEFINE v == flush[f].value[q]
  <2>1. q \in Question /\ v \in Int /\ 0 <= v
    BY FlushFields DEF BalanceInv, Snapshot
  <2>2. /\ flush'[f].value = flush[f].value /\ flush'[f].at = q
        /\ \A g \in Flusher : g = f
    BY <1>4 DEF TypeOK, Flush, SingleFlusher
  <2>3. /\ pending' = pending /\ reads' = reads
        /\ \A p \in Question : /\ stored[p] \in Int /\ pending[p] \in Int /\ reads[p] \in Int
                               /\ stored'[p] = stored[p] + (IF p = q THEN v ELSE 0)
    BY <1>1, <1>4, <2>1 DEF TypeOK, redis
  <2>4. \A p \in Question : stored[p] >= 0 /\ stored[p] + pending[p] >= reads[p]
    BY DEF BalanceInv, NoReadLost
  <2>5. Snapshot'
    BY <2>2, <2>3 DEF BalanceInv, Snapshot
  <2> HIDE DEF v
  <2>6. \A p \in Question : stored'[p] >= 0
    BY <2>1, <2>3, <2>4
  <2>7. NoReadLost'
    BY <2>1, <2>3, <2>4 DEF NoReadLost
  <2>8. stored'[q] + pending'[q] >= reads'[q] + v
    BY <2>1, <2>3, <2>4
  <2>9. InBoth'
    BY <2>2, <2>8 DEF InBoth, v
  <2>10. QED
    BY <1>1, <2>3, <2>5, <2>6, <2>7, <2>9 DEF BalanceInv, PendingNotNegative, CallCount
<1>5. QED
  BY <1>2, <1>3, <1>4

LEMMA SubtractBalance ==
    ASSUME SingleFlusher, TypeOK, BalanceInv, NEW f \in Flusher, Subtract(f)
    PROVE  BalanceInv'
<1> DEFINE q == flush[f].at
           v == flush[f].value[q]
<1>1. q \in Question /\ v \in Int /\ flush[f].value \in [Question -> Int]
  BY FlushFields DEF Subtract
<1>2. /\ stored' = stored /\ call' = call /\ reads' = reads
      /\ pending' = [pending EXCEPT ![q] = @ + (-v)]
  BY DEF Subtract, HIncrBy, postgres
<1>3. \A p \in Question : /\ stored[p] \in Int /\ pending[p] \in Int /\ reads[p] \in Int
                         /\ pending'[p] = pending[p] - (IF p = q THEN v ELSE 0)
  BY <1>1, <1>2 DEF TypeOK
<1>4. \A g \in Flusher : g = f
  BY DEF SingleFlusher
<1>5. /\ flush'[f].pc # "subtract"
      /\ flush'[f].value = [flush[f].value EXCEPT ![q] = 0]
  BY DEF Subtract, Moved, TypeOK
<1>6. \A p \in Question : 0 <= flush[f].value[p] /\ flush[f].value[p] <= pending[p]
  BY DEF BalanceInv, Snapshot
<1>7. stored[q] + pending[q] >= reads[q] + v
  BY DEF Subtract, BalanceInv, InBoth
<1>8. \A p \in Question : stored[p] + pending[p] >= reads[p]
  BY DEF BalanceInv, NoReadLost
<1>9. v <= pending[q] /\ 0 <= v
  BY <1>1, <1>6
<1>10. Snapshot'
  <2> SUFFICES ASSUME NEW p \in Question
               PROVE  0 <= flush'[f].value[p] /\ flush'[f].value[p] <= pending'[p]
    BY <1>4 DEF Snapshot
  <2>1. CASE p = q
    BY <1>1, <1>3, <1>5, <1>9, <2>1
  <2>2. CASE p # q
    BY <1>1, <1>3, <1>5, <1>6, <2>2
  <2>3. QED
    BY <2>1, <2>2
<1>11. InBoth'
  BY <1>4, <1>5 DEF InBoth
<1> HIDE DEF q, v
<1>12. PendingNotNegative'
  <2>1. \A p \in Question : pending[p] >= 0
    BY DEF BalanceInv, PendingNotNegative
  <2>2. QED
    BY <1>1, <1>3, <1>9, <2>1 DEF PendingNotNegative
<1>13. NoReadLost'
  BY <1>1, <1>2, <1>3, <1>7, <1>8 DEF NoReadLost
<1>14. QED
  BY <1>2, <1>10, <1>11, <1>12, <1>13 DEF BalanceInv, CallCount

LEMMA FlushStepBalance ==
    ASSUME SingleFlusher, TypeOK, BalanceInv, NEW f \in Flusher, FlushStep(f)
    PROVE  BalanceInv'
<1>1. CASE Start(f)
  <2>1. /\ [NotRunning EXCEPT !.pc = "scan", !.unseen = fields, !.due = reads].pc # "subtract"
        /\ \A q \in Question : [NotRunning EXCEPT !.pc = "scan", !.unseen = fields, !.due = reads].value[q] = 0
    BY ZeroType DEF NotRunning
  <2>2. QED
    BY <1>1, <2>1, FlushOff DEF Start, postgres
<1>2. CASE FlushFails(f)
  BY <1>2, EndsBalance DEF FlushFails, postgres
<1>3. QED
  BY <1>1, <1>2, ScanBalance, WriteStoredBalance, SubtractBalance DEF FlushStep

LEMMA BalanceNext ==
    ASSUME SingleFlusher
    PROVE  TypeOK /\ BalanceInv /\ [Next]_vars => BalanceInv'
<1> SUFFICES ASSUME TypeOK, BalanceInv, [Next]_vars PROVE BalanceInv'
  OBVIOUS
<1>1. CASE UNCHANGED <<stored, redis, call, flush, reads>>
  BY <1>1 DEF BalanceInv, PendingNotNegative, NoReadLost, Snapshot, InBoth, CallCount, redis
<1>2. ASSUME NEW q \in Question, DeleteQuestion(q)
      PROVE  UNCHANGED <<stored, redis, call, flush, reads>>
  BY <1>2 DEF DeleteQuestion
<1>3. CASE UNCHANGED vars
  BY <1>1, <1>3 DEF vars, postgres
<1>4. QED
  BY <1>1, <1>2, <1>3, RequestStepBalance, FlushStepBalance DEF Next

(* With one flusher the two stores never hold fewer reads than there were,   *)
(* whichever step of a flush fails (update_read_count adds before it takes). *)
THEOREM ReadsSurviveFailures ==
    ASSUME SingleFlusher
    PROVE  Spec => []NoReadLost
<1>1. BalanceInv => NoReadLost
  BY DEF BalanceInv
<1>2. QED
  BY <1>1, BalanceInit, BalanceNext, InitType, NextType, PTL DEF Spec

(* With one flusher no field of the hash goes below 0 (update_read_count).   *)
THEOREM FieldsNotNegative ==
    ASSUME SingleFlusher
    PROVE  Spec => []PendingNotNegative
<1>1. BalanceInv => PendingNotNegative
  BY DEF BalanceInv
<1>2. QED
  BY <1>1, BalanceInit, BalanceNext, InitType, NextType, PTL DEF Spec

(* With one flusher every reply of question_detail counts the read it        *)
(* answers, so the cast of the count to uint64 keeps its value.              *)
THEOREM RepliesPositive ==
    ASSUME SingleFlusher
    PROVE  Spec => []ReplyCountsItself
<1>1. BalanceInv => ReplyCountsItself
  BY DEF BalanceInv, CallCount, ReplyCountsItself
<1>2. QED
  BY <1>1, BalanceInit, BalanceNext, InitType, NextType, PTL DEF Spec

-----------------------------------------------------------------------------
(* One flusher.  What a flush still owes to the row of q, at any of its      *)
(* steps: nothing, or q is in its batch with a value that makes up for it,   *)
(* or HSCAN has still to return q.                                           *)

Due(flushed, q) ==
    /\ flushed.due[q] <= reads[q]
    /\ flushed.pc = "scan" => flushed.todo = {}
    /\ flushed.pc # "off" /\ q \notin flushed.unseen \cup flushed.todo => stored[q] >= flushed.due[q]
    /\ q \in flushed.todo => stored[q] + flushed.value[q] >= flushed.due[q]
    /\ flushed.pc = "subtract" /\ flushed.at = q => stored[q] >= flushed.due[q]

DueInv == /\ \A q \in Question \ fields : pending[q] = 0
          /\ \A f \in Flusher, q \in Question : Due(flush[f], q)

LEMMA DueInit == Init => DueInv
<1> SUFFICES ASSUME Init PROVE DueInv
  OBVIOUS
<1>1. \A q \in Question : pending[q] = 0 /\ reads[q] = 0
  BY ZeroType DEF Init
<1>2. \A f \in Flusher : flush[f] = NotRunning
  BY DEF Init
<1>3. \A q \in Question : Due(NotRunning, q)
  BY <1>1, ZeroType DEF Due, NotRunning
<1>4. QED
  BY <1>1, <1>2, <1>3 DEF DueInv

(* A step of the flusher that leaves the table and the history alone.        *)
LEMMA DueOnly ==
    ASSUME TypeOK, DueInv, NEW f \in Flusher, NEW next,
           flush' = [flush EXCEPT ![f] = next], UNCHANGED <<stored, reads>>,
           \A q \in Question \ fields' : pending'[q] = 0,
           \A q \in Question : Due(next, q)
    PROVE  DueInv'
<1>1. \A g \in Flusher : flush'[g] = IF g = f THEN next ELSE flush[g]
  BY DEF TypeOK
<1>2. \A g \in Flusher, q \in Question : Due(flush'[g], q)
  BY <1>1 DEF DueInv
<1>3. QED
  BY <1>2 DEF DueInv, Due

LEMMA DueEnds ==
    ASSUME TypeOK, DueInv, NEW f \in Flusher, Ends(f), UNCHANGED <<stored, reads, redis>>
    PROVE  DueInv'
<1>1. \A q \in Question : Due(NotRunning, q)
  BY ZeroType DEF TypeOK, Due, NotRunning
<1>2. QED
  BY <1>1, DueOnly DEF Ends, DueInv, redis

LEMMA DueFlush ==
    ASSUME SingleFlusher, TypeOK, BalanceInv, DueInv, NEW f \in Flusher, FlushStep(f)
    PROVE  DueInv'
<1>1. ASSUME NEW q \in Question
      PROVE  /\ Due(flush[f], q) /\ stored[q] + pending[q] >= reads[q]
             /\ 0 <= flush[f].value[q] /\ (q \notin fields => pending[q] = 0)
             /\ stored[q] \in Int /\ pending[q] \in Int /\ reads[q] \in Nat
             /\ flush[f].value[q] \in Int /\ flush[f].due[q] \in Nat
  BY FlushFields DEF DueInv, BalanceInv, NoReadLost, Snapshot, TypeOK
<1>2. CASE Start(f)
  <2> DEFINE next == [NotRunning EXCEPT !.pc = "scan", !.unseen = fields, !.due = reads]
  <2>1. /\ next.pc = "scan" /\ next.unseen = fields /\ next.due = reads /\ next.todo = {}
    BY DEF NotRunning
  <2>2. flush' = [flush EXCEPT ![f] = next] /\ UNCHANGED <<stored, reads, fields, pending>>
    BY <1>2 DEF Start, postgres, redis
  <2> HIDE DEF next
  <2>3. \A q \in Question : Due(next, q)
    BY <1>1, <2>1 DEF Due
  <2>4. QED
    BY <2>2, <2>3, DueOnly DEF DueInv
<1>3. CASE Scan(f)
  <2>1. UNCHANGED <<stored, reads, redis>> /\ flush[f].pc = "scan"
    BY <1>3 DEF Scan, postgres
  <2>2. ASSUME NEW B \in SUBSET fields,
               flush' = [flush EXCEPT ![f] =
                     [pc |-> "write", todo |-> B, at |-> None, unseen |-> @.unseen \ B, due |-> @.due,
                      value |-> [q \in Question |-> IF q \in B THEN pending[q] ELSE 0]]]
        PROVE  DueInv'
    <3> DEFINE next == [pc |-> "write", todo |-> B, at |-> None, unseen |-> flush[f].unseen \ B,
                        due |-> flush[f].due,
                        value |-> [q \in Question |-> IF q \in B THEN pending[q] ELSE 0]]
    <3>1. /\ next.pc = "write" /\ next.todo = B /\ next.unseen = flush[f].unseen \ B
          /\ next.due = flush[f].due
          /\ \A q \in Question : next.value[q] = IF q \in B THEN pending[q] ELSE 0
      OBVIOUS
    <3>2. flush' = [flush EXCEPT ![f] = next]
      BY <2>2
    <3> HIDE DEF next
    <3>3. \A q \in Question : Due(next, q)
      BY <1>1, <2>1, <3>1 DEF Due
    <3>4. QED
      BY <2>1, <3>2, <3>3, DueOnly DEF DueInv, redis
  <2>3. QED
    BY <1>3, <2>1, <2>2, DueEnds DEF Scan
<1>4. CASE WriteStored(f)
  <2>1. PICK q \in flush[f].todo :
            IF q \in exists
              THEN /\ stored' = [stored EXCEPT ![q] = @ + flush[f].value[q]]
                   /\ flush' = [flush EXCEPT ![f] = [@ EXCEPT !.pc = "subtract", !.at = q]]
              ELSE Ends(f) /\ UNCHANGED stored
    BY <1>4 DEF WriteStored
  <2>2. UNCHANGED <<reads, redis>> /\ q \in Question /\ flush[f].pc = "write"
    BY <1>4, FlushFields DEF WriteStored
  <2>3. CASE /\ stored' = [stored EXCEPT ![q] = @ + flush[f].value[q]]
             /\ flush' = [flush EXCEPT ![f] = [@ EXCEPT !.pc = "subtract", !.at = q]]
    <3>1. /\ flush'[f].pc = "subtract" /\ flush'[f].at = q /\ flush'[f].due = flush[f].due
          /\ flush'[f].todo = flush[f].todo /\ flush'[f].unseen = flush[f].unseen
          /\ flush'[f].value = flush[f].value
      BY <2>3 DEF TypeOK, Flush
    <3>2. \A p \in Question : stored'[p] = stored[p] + (IF p = q THEN flush[f].value[q] ELSE 0)
      BY <1>1, <2>2, <2>3 DEF TypeOK
    <3>3. ASSUME NEW p \in Question PROVE Due(flush[f], p)'
      <4>1. CASE p = q
        BY <1>1, <2>1, <2>2, <3>1, <3>2, <4>1 DEF Due
      <4>2. CASE p # q
        BY <1>1, <2>2, <3>1, <3>2, <4>2 DEF Due
      <4>3. QED
        BY <4>1, <4>2
    <3>4. QED
      BY <2>2, <3>3 DEF DueInv, SingleFlusher, redis
  <2>4. QED
    BY <2>1, <2>2, <2>3, DueEnds
<1>5. CASE Subtract(f)
  <2> DEFINE q == flush[f].at
             next == [pc |-> IF flush[f].todo \ {q} = {} THEN "scan" ELSE "write",
                      todo |-> flush[f].todo \ {q}, at |-> None,
                      value |-> [flush[f].value EXCEPT ![q] = 0],
                      unseen |-> flush[f].unseen, due |-> flush[f].due]
  <2>1. /\ flush[f].pc = "subtract" /\ q \in Question /\ UNCHANGED <<stored, reads>>
        /\ fields' = fields \cup {q} /\ flush' = [flush EXCEPT ![f] = next]
        /\ \A p \in Question : p # q => pending'[p] = pending[p]
    BY <1>5, FlushFields DEF Subtract, HIncrBy, Moved, TypeOK, postgres
  <2>2. /\ next.pc = IF flush[f].todo \ {q} = {} THEN "scan" ELSE "write"
        /\ next.todo = flush[f].todo \ {q} /\ next.unseen = flush[f].unseen
        /\ next.due = flush[f].due
        /\ \A p \in Question : p # q => next.value[p] = flush[f].value[p]
    BY FlushFields
  <2> HIDE DEF next
  <2>3. \A p \in Question : Due(next, p)
    BY <1>1, <2>1, <2>2 DEF Due
  <2>4. QED
    BY <1>1, <2>1, <2>3, DueOnly
<1>6. CASE FlushFails(f)
  BY <1>6, DueEnds DEF FlushFails, postgres
<1>7. QED
  BY <1>2, <1>3, <1>4, <1>5, <1>6 DEF FlushStep

LEMMA DueNext ==
    ASSUME SingleFlusher
    PROVE  TypeOK /\ BalanceInv /\ DueInv /\ [Next]_vars => DueInv'
<1> SUFFICES ASSUME TypeOK, BalanceInv, DueInv, [Next]_vars PROVE DueInv'
  OBVIOUS
<1>1. CASE UNCHANGED <<stored, redis, flush, reads>>
  BY <1>1 DEF DueInv, Due, redis
<1>2. ASSUME NEW r \in Request, Incr(r) PROVE DueInv'
  <2> DEFINE p == call[r].question
  <2>1. /\ p \in Question /\ fields' = fields \cup {p} /\ UNCHANGED <<stored, flush>>
        /\ pending' = [pending EXCEPT ![p] = @ + 1] /\ reads' = [reads EXCEPT ![p] = @ + 1]
    BY <1>2 DEF Incr, HIncrBy, TypeOK, Call, postgres
  <2> HIDE DEF p
  <2>2. \A q \in Question : /\ reads[q] \in Nat /\ reads'[q] \in Nat /\ reads[q] <= reads'[q]
                            /\ q # p => pending'[q] = pending[q]
    BY <2>1 DEF TypeOK
  <2>3. ASSUME NEW f \in Flusher, NEW q \in Question PROVE Due(flush[f], q)'
    <3>1. Due(flush[f], q) /\ flush[f].due[q] \in Nat
      BY FlushFields DEF DueInv
    <3>2. QED
      BY <2>1, <2>2, <3>1 DEF Due
  <2>4. QED
    BY <2>1, <2>2, <2>3 DEF DueInv
<1>3. ASSUME NEW r \in Request, RequestStep(r) PROVE DueInv'
  BY <1>1, <1>2, <1>3 DEF RequestStep, FindQuestion, Return, postgres
<1>4. ASSUME NEW q \in Question, DeleteQuestion(q) PROVE DueInv'
  BY <1>1, <1>4 DEF DeleteQuestion
<1>5. CASE UNCHANGED vars
  BY <1>1, <1>5 DEF vars, postgres
<1>6. QED
  BY <1>3, <1>4, <1>5, DueFlush DEF Next

(* With one flusher a flush that returns Ok has written every read counted   *)
(* before it began, whatever failed before it and whoever reads meanwhile    *)
(* (handler_redis_topg follows the cursor, reids_cmd ends at an error).      *)
THEOREM FlushesMoveAll ==
    ASSUME SingleFlusher
    PROVE  Spec => []FlushMovesAll
<1>1. TypeOK /\ DueInv => FlushMovesAll
  BY DEF DueInv, Due, FlushMovesAll
<1>2. QED
  BY <1>1, BalanceInit, BalanceNext, DueInit, DueNext, InitType, NextType, PTL DEF Spec
=============================================================================
