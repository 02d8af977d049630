------------------------------ MODULE ReadCount ------------------------------
(* Reads of a question are counted in two places.  question_detail reads the *)
(* row from PostgreSQL and adds one to a field of a Redis hash (HINCRBY);    *)
(* QuestionRepository::handler scans the hash, adds each value to            *)
(* questions.read_count and then takes the same value off the field.  The    *)
(* two stores share no transaction.                                          *)
EXTENDS Integers, FiniteSetsExt

CONSTANTS
    Question,   \* ids of questions
    Deletable,  \* the questions their owner may delete while the system runs
    Request,    \* slots for question_detail calls in flight
    Flusher,    \* processes that may run QuestionRepository::handler
    Fault,      \* kinds of failure that may occur
    MaxReads,   \* bound: reads counted per question
    MaxFaults,  \* bound: failures
    None        \* no question

ASSUME DeletableAssumption == Deletable \subseteq Question
ASSUME FlusherAssumption == IsFiniteSet(Flusher)
ASSUME NoneAssumption == None \notin Question
ASSUME FaultAssumption == Fault \subseteq {"scan", "write", "subtract", "crash"}
ASSUME BoundAssumption == MaxReads \in Nat /\ MaxFaults \in Nat

VARIABLES
    exists,   \* PostgreSQL: ids of the rows of table questions
    stored,   \* PostgreSQL: questions.read_count
    fields,   \* Redis: the fields of hash qa-sys:question:read_count:hash
    pending,  \* Redis: their values (0 for a field that is absent)
    call,     \* the question_detail calls in flight
    flush,    \* the calls of handler
    reads,    \* history: how often each question was read
    faults    \* failures so far

postgres == <<exists, stored>>
redis == <<fields, pending>>
vars == <<postgres, redis, call, flush, reads, faults>>

-----------------------------------------------------------------------------
NoCall == [pc |-> "idle", question |-> None, count |-> 0]
Zero == [q \in Question |-> 0]
NotRunning == [pc |-> "off", todo |-> {}, value |-> Zero, at |-> None, unseen |-> {}, due |-> Zero]

Call == [pc : {"idle", "found", "replied"}, question : Question \cup {None}, count : Int]
Flush == [pc : {"off", "scan", "write", "subtract"},
          todo : SUBSET Question,            \* fields HSCAN returned, still to move
          value : [Question -> Int],         \* with the values it returned
          at : Question \cup {None},         \* the field being moved
          unseen : SUBSET Question,          \* fields HSCAN has still to return
          due : [Question -> Nat]]           \* history: the reads when it began

Init == /\ exists = Question
        /\ stored = Zero
        /\ fields = {}
        /\ pending = Zero
        /\ call = [r \in Request |-> NoCall]
        /\ flush = [f \in Flusher |-> NotRunning]
        /\ reads = Zero
        /\ faults = 0

Fails(kind) == kind \in Fault /\ faults < MaxFaults /\ faults' = faults + 1

-----------------------------------------------------------------------------
(* question_detail *)

(* find_one: the row's read_count is kept for the reply; without a row the   *)
(* call fails and nothing happens.                                           *)
FindQuestion(r, q) ==
    /\ call[r].pc = "idle" /\ q \in exists
    /\ call' = [call EXCEPT ![r] = [pc |-> "found", question |-> q, count |-> stored[q]]]
    /\ UNCHANGED <<postgres, redis, flush, reads, faults>>

(* HINCRBY creates a field that is absent. *)
HIncrBy(q, n) == /\ fields' = fields \cup {q}
                 /\ pending' = [pending EXCEPT ![q] = @ + n]

(* Defect: the reply adds the value the field had before. *)
Incr_OldValue(r) ==
    LET q == call[r].question IN
    /\ call[r].pc = "found" /\ reads[q] < MaxReads
    /\ HIncrBy(q, 1)
    /\ call' = [call EXCEPT ![r] = [pc |-> "replied", question |-> q,
                                    count |-> @.count + pending[q]]]
    /\ reads' = [reads EXCEPT ![q] = @ + 1]
    /\ UNCHANGED <<postgres, flush, faults>>

(* incr, and the reply: what the table held plus what the field now holds.   *)
Incr(r) ==
    LET q == call[r].question IN
    /\ call[r].pc = "found" /\ reads[q] < MaxReads
    /\ HIncrBy(q, 1)
    /\ call' = [call EXCEPT ![r] = [pc |-> "replied", question |-> q,
                                    count |-> @.count + pending[q] + 1]]
    /\ reads' = [reads EXCEPT ![q] = @ + 1]
    /\ UNCHANGED <<postgres, flush, faults>>

(* The reply has reached the caller (or Redis failed and there is none). *)
Return(r) ==
    /\ call[r].pc # "idle"
    /\ call' = [call EXCEPT ![r] = NoCall]
    /\ UNCHANGED <<postgres, redis, flush, reads, faults>>

-----------------------------------------------------------------------------
(* handler: a loop of HSCAN calls, each returning some fields with their     *)
(* values, until the cursor is back at 0.  HSCAN returns every field that is *)
(* there from the first call to the last.                                    *)

Start(f) ==
    /\ flush[f].pc = "off"
    /\ flush' = [flush EXCEPT ![f] = [NotRunning EXCEPT !.pc = "scan", !.unseen = fields, !.due = reads]]
    /\ UNCHANGED <<postgres, redis, call, reads, faults>>

(* The flush that f runs returns, having done all or hit an error. *)
Ends(f) == flush' = [flush EXCEPT ![f] = NotRunning]

(* Defect: the cursor is ignored, the first batch is all. *)
Scan_OneBatch(f) ==
    /\ flush[f].pc = "scan"
    /\ IF flush[f].unseen = {}
         THEN Ends(f)
         ELSE \E B \in SUBSET fields :
                /\ B \cap flush[f].unseen # {}
                /\ flush' = [flush EXCEPT ![f] =
                     [pc |-> "write", todo |-> B, at |-> None, unseen |-> {}, due |-> @.due,
                      value |-> [q \in Question |-> IF q \in B THEN pending[q] ELSE 0]]]
    /\ UNCHANGED <<postgres, redis, call, reads, faults>>

(* The loop after a field is done: the next of the batch, or the next HSCAN  *)
(* until it has returned every field.                                        *)
Scan(f) ==
    /\ flush[f].pc = "scan"
    /\ IF flush[f].unseen = {}
         THEN Ends(f)
         ELSE \E B \in SUBSET fields :
                /\ B \cap flush[f].unseen # {}
                /\ flush' = [flush EXCEPT ![f] =
                     [pc |-> "write", todo |-> B, at |-> None, unseen |-> @.unseen \ B, due |-> @.due,
                      value |-> [q \in Question |-> IF q \in B THEN pending[q] ELSE 0]]]
    /\ UNCHANGED <<postgres, redis, call, reads, faults>>

(* Defect: the field leaves the batch before its second half is done. *)
WriteStored_DropsField(f) ==
    /\ flush[f].pc = "write"
    /\ \E q \in flush[f].todo :
         IF q \in exists
           THEN /\ stored' = [stored EXCEPT ![q] = @ + flush[f].value[q]]
                /\ flush' = [flush EXCEPT ![f] = [@ EXCEPT !.pc = "subtract", !.at = q,
                                                           !.todo = @ \ {q}]]
           ELSE Ends(f) /\ UNCHANGED stored
    /\ UNCHANGED <<exists, redis, call, reads, faults>>

(* update_read_count, first half: the value is added to the row.  Without a  *)
(* row the whole flush returns the error.                                    *)
WriteStored(f) ==
    /\ flush[f].pc = "write"
    /\ \E q \in flush[f].todo :
         IF q \in exists
           THEN /\ stored' = [stored EXCEPT ![q] = @ + flush[f].value[q]]
                /\ flush' = [flush EXCEPT ![f] = [@ EXCEPT !.pc = "subtract", !.at = q]]
           ELSE Ends(f) /\ UNCHANGED stored
    /\ UNCHANGED <<exists, redis, call, reads, faults>>

(* Where the flush goes on after moving field q. *)
Moved(f, q) ==
    LET rest == flush[f].todo \ {q} IN
    flush' = [flush EXCEPT ![f] =
                [pc |-> IF rest = {} THEN "scan" ELSE "write", todo |-> rest, at |-> None,
                 value |-> [@.value EXCEPT ![q] = 0], unseen |-> @.unseen, due |-> @.due]]

(* Defect: the field is set to 0, and reads since the scan are dropped. *)
Subtract_Resets(f) ==
    /\ flush[f].pc = "subtract"
    /\ HIncrBy(flush[f].at, -pending[flush[f].at])
    /\ Moved(f, flush[f].at)
    /\ UNCHANGED <<postgres, call, reads, faults>>

(* Defect: the new read_count is taken off, not the value that was added. *)
Subtract_StoredTotal(f) ==
    /\ flush[f].pc = "subtract"
    /\ HIncrBy(flush[f].at, -stored[flush[f].at])
    /\ Moved(f, flush[f].at)
    /\ UNCHANGED <<postgres, call, reads, faults>>

(* update_read_count, second half: the same value is taken off the field,    *)
(* which stays in the hash even at 0.                                        *)
Subtract(f) ==
    /\ flush[f].pc = "subtract"
    /\ HIncrBy(flush[f].at, -flush[f].value[flush[f].at])
    /\ Moved(f, flush[f].at)
    /\ UNCHANGED <<postgres, call, reads, faults>>

(* Redis or PostgreSQL fails a step, or no pooled connection comes in time   *)
(* (the scan holds one while the subtraction asks for another), or the       *)
(* process dies: the flush is over where it stands.                          *)
FlushFails(f) ==
    /\ \/ flush[f].pc = "scan" /\ Fails("scan")
       \/ flush[f].pc = "write" /\ Fails("write")
       \/ flush[f].pc = "subtract" /\ Fails("subtract")
       \/ flush[f].pc # "off" /\ Fails("crash")
    /\ Ends(f)
    /\ UNCHANGED <<postgres, redis, call, reads>>

-----------------------------------------------------------------------------
(* delete_question by its owner: the field of the hash stays. *)
DeleteQuestion(q) ==
    /\ q \in exists \cap Deletable
    /\ exists' = exists \ {q}
    /\ UNCHANGED <<stored, redis, call, flush, reads, faults>>

RequestStep(r) == (\E q \in Question : FindQuestion(r, q)) \/ Incr(r) \/ Return(r)

FlushStep(f) == Start(f) \/ Scan(f) \/ WriteStored(f) \/ Subtract(f) \/ FlushFails(f)

Next == \/ \E r \in Request : RequestStep(r)
        \/ \E f \in Flusher : FlushStep(f)
        \/ \E q \in Question : DeleteQuestion(q)

Spec == Init /\ [][Next]_vars

(* handler is called again and again, and its steps run. *)
FlushFairness == \A f \in Flusher :
    WF_vars(Start(f) \/ Scan(f) \/ WriteStored(f) \/ Subtract(f))

FairSpec == Spec /\ FlushFairness

-----------------------------------------------------------------------------
(* Properties *)

TypeOK ==
    /\ exists \subseteq Question /\ fields \subseteq Question
    /\ stored \in [Question -> Int] /\ pending \in [Question -> Int]
    /\ call \in [Request -> Call]
    /\ \A r \in Request : call[r].pc # "idle" => call[r].question \in Question
    /\ flush \in [Flusher -> Flush]
    /\ \A f \in Flusher : flush[f].pc = "subtract" => flush[f].at \in flush[f].todo
    /\ reads \in [Question -> Nat]
    /\ faults \in Nat

(* With one flusher no read is ever lost: whatever step of a flush fails and *)
(* however often it is run again, the two stores together hold at least as   *)
(* many reads of a question as there were (a failure can only make some of   *)
(* them count twice).                                                        *)
NoReadLost == \A q \in Question : stored[q] + pending[q] >= reads[q]

(* With one flusher a Redis field is never negative: what a flush takes off  *)
(* is still there, although reads go on between its scan and its HINCRBY.    *)
PendingNotNegative == \A q \in Question : pending[q] >= 0

(* With one flusher the count of a reply includes the read it answers, even  *)
(* when a flush moves reads between the find_one and the HINCRBY of the call *)
(* (and so is positive when it is cast to uint64).                           *)
ReplyCountsItself == \A r \in Request : call[r].pc = "replied" => call[r].count >= 1

(* With one flusher a flush that has followed the cursor of HSCAN to its end *)
(* has written every read that was counted before it began: it skips no      *)
(* field, leaves none half-way, and what earlier flushes that failed left    *)
(* behind is in the table.                                                   *)
FlushMovesAll ==
    \A f \in Flusher : flush[f].pc = "scan" /\ flush[f].unseen = {} =>
        \A q \in Question : stored[q] >= flush[f].due[q]

(* As long as no question is deleted, failures and crashes only delay a      *)
(* flush: once there are no more of them and no more reads, every field is   *)
(* at 0 and every row has all the reads of its question, and exactly these   *)
(* if nothing failed.                                                        *)
FlushCatchesUp ==
    <>[](exists = Question => \A q \in Question :
           /\ pending[q] = 0 /\ stored[q] >= reads[q]
           /\ faults = 0 => stored[q] = reads[q])

(* Every field of the hash, once flushes run without fault, is in the end    *)
(* written to its row and is 0: the reads of each question that exists are   *)
(* all in the table once they stop.                                          *)
ReadsReachTable == \A q \in Question : <>[](q \in exists => stored[q] = reads[q])

(* What flusher f has added to the row of q and not yet taken off its field, *)
(* and what all of them have.                                                *)
Both(f, q) == IF flush[f].pc = "subtract" /\ flush[f].at = q THEN flush[f].value[q] ELSE 0
InFlight(q) == MapThenSumSet(LAMBDA f : Both(f, q), Flusher)

(* Row plus field, less what is in both. *)
Tally == INSTANCE ReadTally
    WITH tally <- [q \in Question |-> stored[q] + pending[q] - InFlight(q)]

(* Without failures the counters are exact, for any number of flushes at a   *)
(* time: every read counts once and no step of a flush changes the total     *)
(* (the two halves of update_read_count, run against HINCRBY of incr).       *)
ImplementsTally == Tally!Spec
=============================================================================
