------------------------------ MODULE Listing ------------------------------
(* Reading long lists page by page while rows come and go.  Questions are    *)
(* listed newest first with a cursor: a call names the last id it has seen.  *)
(* Answers are listed with a page number: one query counts them, a second    *)
(* one selects a page by OFFSET, and nothing holds the table still between.  *)
(*                                                                           *)
(* An id is drawn from a sequence before its row is visible, so rows do not  *)
(* appear in the order of their ids.  Updates change neither the ids nor the *)
(* number of rows and are left out; a read that fails changes nothing and is *)
(* a stuttering step.                                                        *)
EXTENDS Integers, FiniteSets

CONSTANTS
    User,      \* usernames
    Question,  \* question ids that answers name, of questions there or gone
    Reader,    \* clients that read a list to its end
    Limit,     \* page sizes; the gateway admits 1 to 100
    MaxId,     \* bound: rows ever added to each table
    MaxEdits   \* bound: rows that appear or go while lists are read

ASSUME QuestionAssumption == Question \subseteq Nat \ {0}
ASSUME LimitAssumption == Limit \subseteq Nat \ {0}
ASSUME BoundAssumption == MaxId \in Nat /\ MaxEdits \in Nat

VARIABLES
    rows,     \* the visible rows of the tables questions and answers
    adding,   \* rows of INSERTs that have an id and are not committed
    nextId,   \* the bigserial sequences
    reader,   \* the clients
    edits     \* rows that have appeared or gone

vars == <<rows, adding, nextId, reader, edits>>

Table == {"questions", "answers"}

-----------------------------------------------------------------------------
(* A row; "of" is the question_id of an answer, 0 for a question. *)
Row == [id : Nat \ {0}, by : User, of : Nat]

Ids(S) == {w.id : w \in S}
AnswersOf(q) == Ids({w \in rows["answers"] : w.of = q})

ReaderState ==
    [pc : {"idle", "cursor", "allQuestions", "count", "select", "allAnswers"},
     limit : Nat,
     last : Nat,          \* last_id of the previous reply, 0 at first
     of : Nat,            \* the question whose answers are read
     page : Nat,          \* number of the page to read
     total : Nat,         \* result of the count query
     got : SUBSET Nat,    \* ids received so far
     twice : BOOLEAN,     \* whether one came twice
     start : SUBSET Nat,  \* history: the ids that were there at the start
     since : Nat]         \* history: edits at the start

(* Before the first page of a list that has the ids there. *)
Reading(pc, limit, of, there) ==
    [pc |-> pc, limit |-> limit, last |-> 0, of |-> of, page |-> 1, total |-> 0,
     got |-> {}, twice |-> FALSE, start |-> there, since |-> edits]

(* The tables of a running system: the rows left of those once added. *)
Init == /\ nextId \in [Table -> 1..(MaxId + 1)]
        /\ \E Q \in SUBSET (1..(nextId["questions"] - 1)), A \in SUBSET (1..(nextId["answers"] - 1)) :
             \E asker \in [Q -> User], answerer \in [A -> User], about \in [A -> Question] :
               rows = [t \in Table |->
                         IF t = "questions"
                           THEN {[id |-> i, by |-> asker[i], of |-> 0] : i \in Q}
                           ELSE {[id |-> i, by |-> answerer[i], of |-> about[i]] : i \in A}]
        /\ adding = [t \in Table |-> {}]
        /\ edits = 0
        /\ reader = [r \in Reader |-> Reading("idle", 0, 0, {})]

-----------------------------------------------------------------------------
(* The tables *)

(* Defect: the id is one more than the largest that is visible. *)
DrawId_FromRows(t, u, q) ==
    /\ nextId[t] <= MaxId
    /\ \E i \in 1..MaxId :
         /\ \A w \in rows[t] : w.id < i
         /\ i = 1 \/ i - 1 \in Ids(rows[t])
         /\ adding' = [adding EXCEPT ![t] = @ \cup {[id |-> i, by |-> u, of |-> q]}]
    /\ nextId' = [nextId EXCEPT ![t] = @ + 1]
    /\ UNCHANGED <<rows, reader, edits>>

(* An INSERT is on its way, with the next id of the sequence. *)
DrawId(t, u, q) ==
    /\ nextId[t] <= MaxId
    /\ adding' = [adding EXCEPT ![t] = @ \cup {[id |-> nextId[t], by |-> u, of |-> q]}]
    /\ nextId' = [nextId EXCEPT ![t] = @ + 1]
    /\ UNCHANGED <<rows, reader, edits>>

(* It is committed and its row visible, or it fails and its id is lost. *)
Insert(t, w) ==
    /\ w \in adding[t]
    /\ adding' = [adding EXCEPT ![t] = @ \ {w}]
    /\ \/ /\ edits < MaxEdits /\ edits' = edits + 1
          /\ rows' = [rows EXCEPT ![t] = @ \cup {w}]
       \/ UNCHANGED <<rows, edits>>
    /\ UNCHANGED <<nextId, reader>>

(* DELETE .. WHERE id = $1 AND created_by = $2; a call that finds no row     *)
(* answers state 1 all the same.                                             *)
DeleteRow(t, u, w) ==
    /\ w \in rows[t] /\ w.by = u
    /\ edits < MaxEdits /\ edits' = edits + 1
    /\ rows' = [rows EXCEPT ![t] = @ \ {w}]
    /\ UNCHANGED <<adding, nextId, reader>>

AddQuestion(u) == DrawId("questions", u, 0)
DeleteQuestion(u, w) == DeleteRow("questions", u, w)

(* Nothing asks whether the question exists. *)
AddAnswer(u, q) == DrawId("answers", u, q)
DeleteAnswer(u, w) == DeleteRow("answers", u, w)

-----------------------------------------------------------------------------
(* ORDER BY id DESC LIMIT n *)
IsNewest(page, S, n) ==
    /\ page \subseteq S
    /\ \A i \in page, j \in S \ page : j < i
    /\ IF Cardinality(S) <= n THEN page = S ELSE Cardinality(page) = n

Sets(r, to) == reader' = [reader EXCEPT ![r] = to]

(* What a reader has after one more page. *)
Receives(state, page) == [state EXCEPT !.got = @ \cup page,
                                       !.twice = @ \/ page \cap state.got # {}]

-----------------------------------------------------------------------------
(* latest_question, called with last_id 0 and then with that of each reply   *)
(* until one says is_end                                                     *)

StartQuestions(r) ==
    /\ reader[r].pc = "idle"
    /\ \E limit \in Limit :
         Sets(r, Reading("cursor", limit, 0, Ids(rows["questions"])))
    /\ UNCHANGED <<rows, adding, nextId, edits>>

(* Defect: WHERE id <= $1. *)
Older_Inclusive(last) == {i \in Ids(rows["questions"]) : last = 0 \/ i <= last}

(* All questions for last_id 0, and else WHERE id < $1. *)
Older(last) == {i \in Ids(rows["questions"]) : last = 0 \/ i < last}

(* Defect: a page that is just full is taken for the last one. *)
IsEnd_FullPage(page, limit) == Cardinality(page) <= limit

(* A page that is not full is the last one. *)
IsEnd(page, limit) == Cardinality(page) < limit

(* last_id of the reply: that of its last row, 0 without one. *)
IsLastId(last, page) == IF page = {} THEN last = 0
                                     ELSE last \in page /\ \A i \in page : last <= i

QuestionPage(r) ==
    LET me == reader[r] IN
    /\ me.pc = "cursor"
    /\ \E page \in SUBSET Older(me.last) :
         /\ IsNewest(page, Older(me.last), me.limit)
         /\ \E last \in page \cup {0} :
              /\ IsLastId(last, page)
              /\ Sets(r, [Receives(me, page) EXCEPT
                            !.last = last,
                            !.pc = IF IsEnd(page, me.limit) THEN "allQuestions" ELSE "cursor"])
    /\ UNCHANGED <<rows, adding, nextId, edits>>

-----------------------------------------------------------------------------
(* answer_list, called for page 1, 2, .. until a reply says is_end *)

StartAnswers(r, q) ==
    /\ reader[r].pc = "idle"
    /\ \E limit \in Limit :
         Sets(r, Reading("count", limit, q, AnswersOf(q)))
    /\ UNCHANGED <<rows, adding, nextId, edits>>

CountAnswers(r) ==
    /\ reader[r].pc = "count"
    /\ Sets(r, [reader[r] EXCEPT !.pc = "select", !.total = Cardinality(AnswersOf(reader[r].of))])
    /\ UNCHANGED <<rows, adding, nextId, edits>>

(* Defect: the page that is not full is not counted. *)
TotalPage_RoundedDown(total, size) == total \div size

(* total_page of try_new. *)
TotalPage(total, size) == total \div size + (IF total % size # 0 THEN 1 ELSE 0)

(* is_end of try_new, and of the reply answer_list makes when total is 0. *)
IsLastPage(state) == state.page >= TotalPage(state.total, state.limit)

(* OFFSET (page - 1) * limit; when the count was 0 the reply has no rows,    *)
(* whatever was selected.                                                    *)
SelectAnswers(r) ==
    LET me == reader[r]  all == AnswersOf(me.of) IN
    /\ me.pc = "select"
    /\ \E before \in SUBSET all :
         /\ IsNewest(before, all, (me.page - 1) * me.limit)
         /\ \E page \in SUBSET (all \ before) :
              /\ IF me.total = 0 THEN page = {} ELSE IsNewest(page, all \ before, me.limit)
              /\ Sets(r, IF IsLastPage(me)
                           THEN [Receives(me, page) EXCEPT !.pc = "allAnswers"]
                           ELSE [Receives(me, page) EXCEPT !.pc = "count", !.page = @ + 1])
    /\ UNCHANGED <<rows, adding, nextId, edits>>

-----------------------------------------------------------------------------
TableStep == \/ \E u \in User : AddQuestion(u) \/ \E q \in Question : AddAnswer(u, q)
             \/ \E t \in Table : \E w \in adding[t] : Insert(t, w)
             \/ \E u \in User : \/ \E w \in rows["questions"] : DeleteQuestion(u, w)
                                \/ \E w \in rows["answers"] : DeleteAnswer(u, w)

ReaderStep(r) == \/ StartQuestions(r) \/ QuestionPage(r)
                 \/ (\E q \in Question : StartAnswers(r, q))
                 \/ CountAnswers(r) \/ SelectAnswers(r)

Next == TableStep \/ \E r \in Reader : ReaderStep(r)

Spec == Init /\ [][Next]_vars

(* A client that reads a list asks for its next page. *)
Fairness == \A r \in Reader : WF_vars(QuestionPage(r) \/ CountAnswers(r) \/ SelectAnswers(r))

FairSpec == Spec /\ Fairness

-----------------------------------------------------------------------------
(* Properties *)

(* Types, and that an id names one row at most, visible or on its way (the   *)
(* bigserial ids of add_question and add_answer).                            *)
TypeOK ==
    /\ rows \in [Table -> SUBSET Row] /\ adding \in [Table -> SUBSET Row]
    /\ nextId \in [Table -> Nat \ {0}] /\ edits \in Nat
    /\ reader \in [Reader -> ReaderState]
    /\ \A t \in Table : \A v, w \in rows[t] \cup adding[t] : v.id = w.id => v = w

(* A reader of the questions who was told is_end has every question that was *)
(* there from the first page to the last, although others were added, some   *)
(* below the cursor, and others deleted in between.                          *)
(* (find_latest of question.rs, latest_question.)                            *)
WalkComplete ==
    \A r \in Reader : reader[r].pc = "allQuestions" =>
        reader[r].start \cap Ids(rows["questions"]) \subseteq reader[r].got

(* No question is on two pages of one walk, whatever is added meanwhile.     *)
WalkRepeatsNothing ==
    \A r \in Reader : reader[r].pc \in {"cursor", "allQuestions"} => ~reader[r].twice

(* A reader of the answers who was told is_end has each answer of the        *)
(* question, and each once, if none appeared or went meanwhile: the page     *)
(* count, the offset and is_end fit together for every total and page size.  *)
(* (find_latest of answer.rs, try_new, answer_list.)                         *)
QuietListComplete ==
    \A r \in Reader : reader[r].pc = "allAnswers" /\ edits = reader[r].since =>
        reader[r].got = reader[r].start /\ ~reader[r].twice

(* A reader of the questions who has to go on is not sent round in a circle: *)
(* last_id is an id, below the one before, and the page had rows that are    *)
(* new to the reader, although the ids above were drawn and deleted ones     *)
(* left gaps (last_id 0 would start again from the newest).                  *)
CursorDescends ==
    [][\A r \in Reader :
          reader[r].pc = "cursor" /\ reader'[r].pc = "cursor" /\ reader'[r] # reader[r] =>
             /\ reader'[r].last > 0
             /\ reader[r].last = 0 \/ reader'[r].last < reader[r].last
             /\ reader'[r].got \ reader[r].got # {}]_vars

(* A reader of the questions comes to the end, also while questions are      *)
(* added: each page moves the cursor down.                                   *)
WalkEnds == \A r \in Reader : reader[r].pc = "cursor" ~> reader[r].pc = "allQuestions"
=============================================================================
