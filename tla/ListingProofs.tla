--------------------------- MODULE ListingProofs ---------------------------
(* Proofs about Listing, for any users, readers, page sizes and bounds.      *)
EXTENDS Listing, FiniteSetTheorems, TLAPS

-----------------------------------------------------------------------------
(* Types *)

(* The sequence is ahead of every id there is, so ids are not drawn twice. *)
SequenceAhead == \A t \in Table : \A w \in rows[t] \cup adding[t] : w.id < nextId[t]

(* A row on its way is not yet visible. *)
Apart == \A t \in Table : rows[t] \cap adding[t] = {}

Types == TypeOK /\ SequenceAhead /\ Apart

(* What a page that was received does to the record of its reader. *)
LEMMA ReceivedPage ==
    ASSUME NEW s \in ReaderState, NEW page \in SUBSET Nat
    PROVE  /\ Receives(s, page) \in ReaderState
           /\ Receives(s, page).got = s.got \cup page
           /\ Receives(s, page).twice = (s.twice \/ page \cap s.got # {})
           /\ Receives(s, page).start = s.start
           /\ Receives(s, page).limit = s.limit
           /\ Receives(s, page).page = s.page
  <1>1. (s.twice \/ page \cap s.got # {}) \in BOOLEAN
    OBVIOUS
  <1> DEFINE b == s.twice \/ page \cap s.got # {}
  <1>2. b \in BOOLEAN  BY <1>1
  <1>3. Receives(s, page) = [s EXCEPT !.got = s.got \cup page, !.twice = b]
    BY DEF Receives
  <1> HIDE DEF b
  <1>4. /\ Receives(s, page) \in ReaderState
        /\ Receives(s, page).got = s.got \cup page
        /\ Receives(s, page).twice = b
        /\ Receives(s, page).start = s.start
        /\ Receives(s, page).limit = s.limit
        /\ Receives(s, page).page = s.page
    BY <1>2, <1>3 DEF ReaderState
  <1> QED
    BY <1>4 DEF b

(* The tables only name ids the sequence has given out: counting is finite. *)
LEMMA CountIsNat ==
    ASSUME Types, NEW q PROVE Cardinality(AnswersOf(q)) \in Nat
<1>1. AnswersOf(q) \subseteq 1..nextId["answers"]
  BY DEF Types, TypeOK, SequenceAhead, AnswersOf, Ids, Row, Table
<1>2. nextId["answers"] \in Nat
  BY DEF Types, TypeOK, Table
<1>3. IsFiniteSet(AnswersOf(q))
  <2>1. IsFiniteSet(1..nextId["answers"])
    BY <1>2, FS_Interval
  <2>. QED
    BY <2>1, <1>1, FS_Subset
<1>. QED
  BY <1>3, FS_CardinalityType

LEMMA OlderIsNat ==
    ASSUME Types, NEW n PROVE Older(n) \subseteq Nat
BY DEF Types, TypeOK, Older, Ids, Row, Table

LEMMA AnswersAreNat ==
    ASSUME Types, NEW q PROVE AnswersOf(q) \subseteq Nat
BY DEF Types, TypeOK, AnswersOf, Ids, Row, Table

LEMMA TypesInit == Init => Types
<1>. SUFFICES ASSUME Init PROVE Types
  OBVIOUS
<1>1. rows \in [Table -> SUBSET Row]
  <2>1. PICK Q \in SUBSET (1..(nextId["questions"] - 1)),
             A \in SUBSET (1..(nextId["answers"] - 1)) :
          \E asker \in [Q -> User], answerer \in [A -> User], about \in [A -> Question] :
             rows = [t \in Table |->
                       IF t = "questions"
                         THEN {[id |-> i, by |-> asker[i], of |-> 0] : i \in Q}
                         ELSE {[id |-> i, by |-> answerer[i], of |-> about[i]] : i \in A}]
    BY DEF Init
  <2>2. PICK asker \in [Q -> User], answerer \in [A -> User], about \in [A -> Question] :
             rows = [t \in Table |->
                       IF t = "questions"
                         THEN {[id |-> i, by |-> asker[i], of |-> 0] : i \in Q}
                         ELSE {[id |-> i, by |-> answerer[i], of |-> about[i]] : i \in A}]
    BY <2>1
  <2>3. nextId["questions"] \in Nat /\ nextId["answers"] \in Nat
    BY BoundAssumption DEF Init, Table
  <2>4. {[id |-> i, by |-> asker[i], of |-> 0] : i \in Q} \subseteq Row
    BY <2>3 DEF Row
  <2>5. {[id |-> i, by |-> answerer[i], of |-> about[i]] : i \in A} \subseteq Row
    <3>. SUFFICES ASSUME NEW i \in A
                  PROVE  [id |-> i, by |-> answerer[i], of |-> about[i]] \in Row
      OBVIOUS
    <3>1. i \in Nat \ {0}
      BY <2>3
    <3>2. answerer[i] \in User /\ about[i] \in Nat
      BY QuestionAssumption
    <3>. QED
      BY <3>1, <3>2 DEF Row
  <2>. QED
    BY <2>2, <2>4, <2>5 DEF Table
<1>2. nextId \in [Table -> Nat \ {0}]
  BY BoundAssumption DEF Init
<1>3. adding = [t \in Table |-> {}] /\ edits = 0
  BY DEF Init
<1>4. reader \in [Reader -> ReaderState]
  BY DEF Init, Reading, ReaderState
<1>5. \A t \in Table : \A v, w \in rows[t] : v.id = w.id => v = w
  BY DEF Init, Table
<1>6. \A t \in Table : \A w \in rows[t] : w.id < nextId[t]
  BY BoundAssumption DEF Init, Table
<1>. QED
  BY <1>1, <1>2, <1>3, <1>4, <1>5, <1>6 DEF Types, TypeOK, SequenceAhead, Apart, Row

(* A step of a reader leaves the tables alone. *)
LEMMA ReaderTypes ==
    ASSUME Types, NEW r \in Reader, NEW to \in ReaderState, Sets(r, to),
           UNCHANGED <<rows, adding, nextId, edits>>
    PROVE  Types'
BY DEF Types, TypeOK, SequenceAhead, Apart, Sets

LEMMA DrawTypes ==
    ASSUME Types, NEW t \in Table, NEW u \in User, NEW q \in Nat, DrawId(t, u, q)
    PROVE  Types'
<1>. DEFINE new == [id |-> nextId[t], by |-> u, of |-> q]
<1>1. new \in Row /\ new.id = nextId[t]
  BY DEF Types, TypeOK, Row
<1>. HIDE DEF new
<1>2. /\ adding' = [adding EXCEPT ![t] = @ \cup {new}]
      /\ nextId' = [nextId EXCEPT ![t] = @ + 1]
      /\ UNCHANGED <<rows, reader, edits>>
  BY DEF DrawId, new
<1>3. adding' \in [Table -> SUBSET Row] /\ nextId' \in [Table -> Nat \ {0}]
  BY <1>1, <1>2 DEF Types, TypeOK
<1>4. SequenceAhead'
  <2>. SUFFICES ASSUME NEW x \in Table, NEW w \in rows[x] \cup adding'[x]
                PROVE  w.id < nextId'[x]
    BY <1>2 DEF SequenceAhead
  <2>1. w \in rows[x] \cup adding[x] \/ (x = t /\ w = new)
    BY <1>2 DEF Types, TypeOK
  <2>2. nextId[x] \in Nat /\ nextId'[x] = IF x = t THEN nextId[x] + 1 ELSE nextId[x]
    BY <1>2 DEF Types, TypeOK
  <2>3. CASE w \in rows[x] \cup adding[x]
    <3>1. w.id < nextId[x] /\ w.id \in Nat
      BY <2>3 DEF Types, TypeOK, SequenceAhead, Row
    <3>. QED
      BY <3>1, <2>2
  <2>. QED
    BY <1>1, <2>1, <2>2, <2>3
<1>5. \A x \in Table : \A v, w \in rows'[x] \cup adding'[x] : v.id = w.id => v = w
  <2>. SUFFICES ASSUME NEW x \in Table, NEW v \in rows[x] \cup adding'[x],
                       NEW w \in rows[x] \cup adding'[x], v.id = w.id
                PROVE  v = w
    BY <1>2
  <2>1. /\ v \in rows[x] \cup adding[x] \/ (x = t /\ v = new)
        /\ w \in rows[x] \cup adding[x] \/ (x = t /\ w = new)
    BY <1>2 DEF Types, TypeOK
  <2>2. \A z \in rows[t] \cup adding[t] : z.id # new.id
    BY <1>1 DEF Types, TypeOK, SequenceAhead, Row
  <2>. QED
    BY <2>1, <2>2 DEF Types, TypeOK
<1>6. Apart'
  <2>1. new \notin rows[t]
    BY <1>1 DEF Types, TypeOK, SequenceAhead, Row
  <2>. QED
    BY <1>2, <2>1 DEF Types, TypeOK, Apart
<1>. QED
  BY <1>2, <1>3, <1>4, <1>5, <1>6 DEF Types, TypeOK

LEMMA InsertTypes ==
    ASSUME Types, NEW t \in Table, NEW w, Insert(t, w)
    PROVE  Types'
<1>1. /\ w \in adding[t] /\ nextId' = nextId /\ reader' = reader
      /\ adding' = [adding EXCEPT ![t] = @ \ {w}]
      /\ rows' = [rows EXCEPT ![t] = @ \cup {w}] \/ rows' = rows
      /\ edits' = edits + 1 \/ edits' = edits
  BY DEF Insert
<1>2. rows' \in [Table -> SUBSET Row] /\ adding' \in [Table -> SUBSET Row] /\ edits' \in Nat
  BY <1>1 DEF Types, TypeOK
<1>3. \A x \in Table : rows'[x] \cup adding'[x] \subseteq rows[x] \cup adding[x]
  BY <1>1 DEF Types, TypeOK
<1>4. Apart'
  BY <1>1 DEF Types, TypeOK, Apart
<1>. QED
  BY <1>1, <1>2, <1>3, <1>4 DEF Types, TypeOK, SequenceAhead

LEMMA DeleteTypes ==
    ASSUME Types, NEW t \in Table, NEW u, NEW w, DeleteRow(t, u, w)
    PROVE  Types'
<1>1. /\ rows' = [rows EXCEPT ![t] = @ \ {w}] /\ edits' = edits + 1
      /\ UNCHANGED <<adding, nextId, reader>>
  BY DEF DeleteRow
<1>2. rows' \in [Table -> SUBSET Row] /\ edits' \in Nat
  BY <1>1 DEF Types, TypeOK
<1>3. \A x \in Table : rows'[x] \subseteq rows[x]
  BY <1>1 DEF Types, TypeOK
<1>4. Apart'
  BY <1>1 DEF Types, TypeOK, Apart
<1>. QED
  BY <1>1, <1>2, <1>3, <1>4 DEF Types, TypeOK, SequenceAhead

(* The record of a reader after each of its steps. *)
LEMMA ReadingTypes ==
    ASSUME Types, NEW limit \in Limit, NEW q \in Nat, NEW S \in SUBSET Nat, NEW p \in {"cursor", "count"}
    PROVE  Reading(p, limit, q, S) \in ReaderState
BY LimitAssumption DEF Types, TypeOK, Reading, ReaderState

LEMMA GoesOn ==
    ASSUME NEW s \in ReaderState
    PROVE  /\ [s EXCEPT !.pc = "allAnswers"] \in ReaderState
           /\ [s EXCEPT !.pc = "count", !.page = @ + 1] \in ReaderState
           /\ [s EXCEPT !.pc = "allAnswers"].pc = "allAnswers"
           /\ [s EXCEPT !.pc = "count", !.page = @ + 1].pc = "count"
<1>1. s.page + 1 \in Nat
  BY DEF ReaderState
<1>. DEFINE n == s.page + 1
<1>. HIDE DEF n
<1>2. n \in Nat
  BY <1>1 DEF n
<1>3. /\ [s EXCEPT !.pc = "count", !.page = n] \in ReaderState
      /\ [s EXCEPT !.pc = "count", !.page = n].pc = "count"
  BY <1>2 DEF ReaderState
<1>4. /\ [s EXCEPT !.pc = "allAnswers"] \in ReaderState
      /\ [s EXCEPT !.pc = "allAnswers"].pc = "allAnswers"
  BY DEF ReaderState
<1>. QED
  BY <1>3, <1>4 DEF n

LEMMA TypesStep == Types /\ [Next]_vars => Types'
<1>. SUFFICES ASSUME Types, [Next]_vars PROVE Types'
  OBVIOUS
<1>1. CASE UNCHANGED vars
  BY <1>1 DEF vars, Types, TypeOK, SequenceAhead, Apart
<1>2. ASSUME NEW u \in User, AddQuestion(u) PROVE Types'
  BY <1>2, DrawTypes DEF AddQuestion, Table
<1>3. ASSUME NEW u \in User, NEW q \in Question, AddAnswer(u, q) PROVE Types'
  BY <1>3, DrawTypes, QuestionAssumption DEF AddAnswer, Table
<1>4. ASSUME NEW t \in Table, NEW w \in adding[t], Insert(t, w) PROVE Types'
  BY <1>4, InsertTypes
<1>5. ASSUME NEW u \in User, NEW w, DeleteQuestion(u, w) \/ DeleteAnswer(u, w) PROVE Types'
  BY <1>5, DeleteTypes DEF DeleteQuestion, DeleteAnswer, Table
<1>6. ASSUME NEW r \in Reader, StartQuestions(r) PROVE Types'
  <2>1. Ids(rows["questions"]) \subseteq Nat
    BY DEF Types, TypeOK, Ids, Row, Table
  <2>2. PICK to \in ReaderState : Sets(r, to)
    BY <1>6, <2>1, ReadingTypes DEF StartQuestions
  <2>3. UNCHANGED <<rows, adding, nextId, edits>>
    BY <1>6 DEF StartQuestions
  <2>. QED
    BY <2>2, <2>3, ReaderTypes
<1>7. ASSUME NEW r \in Reader, NEW q \in Question, StartAnswers(r, q) PROVE Types'
  <2>1. AnswersOf(q) \subseteq Nat /\ q \in Nat
    BY QuestionAssumption, AnswersAreNat
  <2>2. PICK to \in ReaderState : Sets(r, to)
    BY <1>7, <2>1, ReadingTypes DEF StartAnswers
  <2>3. UNCHANGED <<rows, adding, nextId, edits>>
    BY <1>7 DEF StartAnswers
  <2>. QED
    BY <2>2, <2>3, ReaderTypes
<1>8. ASSUME NEW r \in Reader, QuestionPage(r) PROVE Types'
  <2>. DEFINE me == reader[r]
  <2>0. PICK page \in SUBSET Older(me.last) : \E last \in page \cup {0} :
          Sets(r, [Receives(me, page) EXCEPT
                     !.last = last,
                     !.pc = IF IsEnd(page, me.limit) THEN "allQuestions" ELSE "cursor"])
    BY <1>8 DEF QuestionPage
  <2>1. PICK last \in page \cup {0} :
          Sets(r, [Receives(me, page) EXCEPT
                     !.last = last,
                     !.pc = IF IsEnd(page, me.limit) THEN "allQuestions" ELSE "cursor"])
    BY <2>0
  <2>2. page \in SUBSET Nat /\ last \in Nat /\ me \in ReaderState
    BY <2>1, OlderIsNat DEF Types, TypeOK
  <2>3. Receives(me, page) \in ReaderState
    BY <2>2, ReceivedPage
  <2>4. \A to : to \in {"cursor", "allQuestions"} =>
          [Receives(me, page) EXCEPT !.last = last, !.pc = to] \in ReaderState
    BY <2>2, <2>3 DEF ReaderState
  <2>. QED
    <3>1. PICK to \in ReaderState : Sets(r, to)
      BY <2>1, <2>4
    <3>2. UNCHANGED <<rows, adding, nextId, edits>>
      BY <1>8 DEF QuestionPage
    <3>. QED
      BY <3>1, <3>2, ReaderTypes
<1>9. ASSUME NEW r \in Reader, CountAnswers(r) PROVE Types'
  <2>1. Cardinality(AnswersOf(reader[r].of)) \in Nat
    BY CountIsNat
  <2>2. [reader[r] EXCEPT !.pc = "select", !.total = Cardinality(AnswersOf(reader[r].of))] \in ReaderState
    BY <2>1 DEF Types, TypeOK, ReaderState
  <2>. QED
    BY <1>9, <2>2, ReaderTypes DEF CountAnswers
<1>10. ASSUME NEW r \in Reader, SelectAnswers(r) PROVE Types'
  <2>. DEFINE me == reader[r]
  <2>1. PICK page \in SUBSET AnswersOf(me.of) :
          Sets(r, IF IsLastPage(me)
                    THEN [Receives(me, page) EXCEPT !.pc = "allAnswers"]
                    ELSE [Receives(me, page) EXCEPT !.pc = "count", !.page = @ + 1])
    BY <1>10 DEF SelectAnswers
  <2>2. page \in SUBSET Nat /\ me \in ReaderState
    BY <2>1, AnswersAreNat DEF Types, TypeOK
  <2>3. Receives(me, page) \in ReaderState
    BY <2>2, ReceivedPage
  <2>4. /\ [Receives(me, page) EXCEPT !.pc = "allAnswers"] \in ReaderState
        /\ [Receives(me, page) EXCEPT !.pc = "count", !.page = @ + 1] \in ReaderState
    BY <2>3, GoesOn
  <2>. QED
    <3>1. PICK to \in ReaderState : Sets(r, to)
      BY <2>1, <2>4
    <3>2. UNCHANGED <<rows, adding, nextId, edits>>
      BY <1>10 DEF SelectAnswers
    <3>. QED
      BY <3>1, <3>2, ReaderTypes
<1>. QED
  BY <1>1, <1>2, <1>3, <1>4, <1>5, <1>6, <1>7, <1>8, <1>9, <1>10
     DEF Next, TableStep, ReaderStep

(* Type correctness of the lists and their readers. *)
THEOREM TypeCorrect == Spec => []TypeOK
<1>1. Types => TypeOK
  BY DEF Types
<1>. QED
  BY TypesInit, TypesStep, <1>1, PTL DEF Spec

-----------------------------------------------------------------------------
(* Walks over the questions                                                  *)
(*                                                                           *)
(* A walk splits the ids at its cursor: what it has is at or above it, what  *)
(* it still lacks is below.  The second half holds only because no id that   *)
(* was there at its start can go and come back, which is the first conjunct. *)

(* The ids there at the start of a walk are all drawn, and none is on its way. *)
StartIsPast(s) ==
    \A i \in s.start : i < nextId["questions"] /\ i \notin Ids(adding["questions"])

(* What a walk has got is at or above its cursor. *)
GotAbove(s) == IF s.last = 0 THEN s.got = {} ELSE \A i \in s.got : s.last <= i

(* What it lacks is below. *)
LacksBelow(s) == s.start \cap Ids(rows["questions"]) \subseteq s.got \cup Older(s.last)

Walking(s) == StartIsPast(s) /\ s.limit \in Limit /\ ~s.twice /\ GotAbove(s) /\ LacksBelow(s)

Walked(s) == StartIsPast(s) /\ ~s.twice /\ s.start \cap Ids(rows["questions"]) \subseteq s.got

WalkInv == /\ Types
           /\ \A r \in Reader : /\ reader[r].pc = "cursor" => Walking(reader[r])
                                /\ reader[r].pc = "allQuestions" => Walked(reader[r])

(* A page that is not full is all there was, and one that is has a row. *)
LEMMA EndOfWalk ==
    ASSUME NEW S, NEW page, NEW limit \in Limit, IsNewest(page, S, limit)
    PROVE  IF IsEnd(page, limit) THEN page = S ELSE page # {}
<1>1. limit \in Nat \ {0}
  BY LimitAssumption
<1>2. Cardinality({}) = 0
  BY FS_EmptySet
<1>. QED
  BY <1>1, <1>2 DEF IsNewest, IsEnd

(* The questions change under a walk: none that was there at its start comes back. *)
LEMMA TablesUnderWalk ==
    ASSUME WalkInv, Types', reader' = reader,
           nextId["questions"] <= nextId'["questions"],
           Ids(rows'["questions"]) \subseteq Ids(rows["questions"]) \cup Ids(adding["questions"]),
           \A i \in Ids(adding'["questions"]) :
              i \in Ids(adding["questions"]) \/ i >= nextId["questions"]
    PROVE  WalkInv'
<1>. SUFFICES ASSUME NEW r \in Reader
              PROVE  /\ reader[r].pc = "cursor" => Walking(reader[r])'
                     /\ reader[r].pc = "allQuestions" => Walked(reader[r])'
  BY DEF WalkInv
<1>. DEFINE s == reader[r]
<1>1. s \in ReaderState /\ s' = s /\ s.start \subseteq Nat
  BY DEF WalkInv, Types, TypeOK, ReaderState
<1>2. nextId["questions"] \in Nat /\ nextId'["questions"] \in Nat
  BY DEF WalkInv, Types, TypeOK, Table
<1>3. ASSUME StartIsPast(s)
      PROVE  StartIsPast(s)' /\ s.start \cap Ids(rows'["questions"]) \subseteq Ids(rows["questions"])
  BY <1>1, <1>2, <1>3 DEF StartIsPast
<1>4. ASSUME s.pc = "cursor" PROVE Walking(s)'
  <2>1. Walking(s)
    BY <1>4 DEF WalkInv
  <2>2. LacksBelow(s)'
    <3>. SUFFICES ASSUME NEW i \in s.start \cap Ids(rows'["questions"])
                  PROVE  i \in s.got \/ (i \in Ids(rows'["questions"]) /\ (s.last = 0 \/ i < s.last))
      BY <1>1 DEF LacksBelow, Older
    <3>. QED
      BY <2>1, <1>3 DEF Walking, LacksBelow, Older
  <2>. QED
    BY <2>1, <2>2, <1>1, <1>3 DEF Walking, GotAbove
<1>5. ASSUME s.pc = "allQuestions" PROVE Walked(s)'
  <2>1. Walked(s)
    BY <1>5 DEF WalkInv
  <2>. QED
    BY <2>1, <1>1, <1>3 DEF Walked
<1>. QED
  BY <1>4, <1>5

(* The other readers keep their walks when the tables stay as they are. *)
LEMMA OneReaderMoves ==
    ASSUME WalkInv, Types', NEW r \in Reader, UNCHANGED <<rows, adding, nextId, edits>>,
           NEW to \in ReaderState, Sets(r, to),
           to.pc = "cursor" => Walking(to), to.pc = "allQuestions" => Walked(to)
    PROVE  WalkInv'
<1>. SUFFICES ASSUME NEW x \in Reader
              PROVE  /\ reader'[x].pc = "cursor" => Walking(reader[x])'
                     /\ reader'[x].pc = "allQuestions" => Walked(reader[x])'
  BY DEF WalkInv
<1>1. reader'[x] = IF x = r THEN to ELSE reader[x]
  BY DEF Sets, WalkInv, Types, TypeOK
<1>2. \A s : /\ Walking(s) <=> (Walking(s))'
             /\ Walked(s) <=> (Walked(s))'
  BY DEF Walking, Walked, StartIsPast, GotAbove, LacksBelow, Older, Ids
<1>. QED
  BY <1>1, <1>2 DEF WalkInv, Walking, Walked, StartIsPast, GotAbove, LacksBelow, Older, Ids

(* One more page of a walk. *)
LEMMA PageOfWalk ==
    ASSUME WalkInv, NEW r \in Reader, reader[r].pc = "cursor",
           NEW page \in SUBSET Older(reader[r].last),
           IsNewest(page, Older(reader[r].last), reader[r].limit),
           NEW last \in page \cup {0}, IsLastId(last, page),
           NEW to \in ReaderState, to.got = reader[r].got \cup page,
           to.twice = (reader[r].twice \/ page \cap reader[r].got # {}),
           to.start = reader[r].start, to.limit = reader[r].limit, to.last = last
    PROVE  IF IsEnd(page, reader[r].limit) THEN Walked(to) ELSE Walking(to)
<1>. DEFINE s == reader[r]
<1>1. Walking(s) /\ s \in ReaderState
  BY DEF WalkInv, Types, TypeOK
<1>2. s.last \in Nat /\ s.got \subseteq Nat /\ Older(s.last) \subseteq Nat
  BY <1>1, OlderIsNat DEF WalkInv, ReaderState
<1>3. page \cap s.got = {}
  BY <1>1, <1>2 DEF Walking, GotAbove, Older
<1>4. ~to.twice
  BY <1>1, <1>3 DEF Walking
<1>5. StartIsPast(to)
  BY <1>1 DEF Walking, StartIsPast
<1>6. CASE IsEnd(page, s.limit)
  <2>1. page = Older(s.last)
    BY <1>1, <1>6, EndOfWalk DEF Walking
  <2>. QED
    BY <1>1, <1>4, <1>5, <1>6, <2>1 DEF Walking, Walked, LacksBelow
<1>7. CASE ~IsEnd(page, s.limit)
  <2>1. page # {}
    BY <1>1, <1>7, EndOfWalk DEF Walking
  <2>2. last \in page /\ \A i \in page : last <= i
    BY <2>1 DEF IsLastId
  <2>3. last # 0
    BY <2>2 DEF WalkInv, Types, TypeOK, Older, Ids, Row, Table
  <2>4. GotAbove(to)
    <3>1. \A i \in s.got : last <= i
      BY <1>1, <1>2, <2>2 DEF Walking, GotAbove, Older
    <3>. QED
      BY <2>2, <2>3, <3>1 DEF GotAbove
  <2>5. LacksBelow(to)
    <3>. SUFFICES ASSUME NEW i \in s.start \cap Ids(rows["questions"]), i \notin s.got, i \notin page
                  PROVE  i < last
      BY DEF LacksBelow, Older
    <3>1. i \in Older(s.last) \ page
      BY <1>1 DEF Walking, LacksBelow
    <3>. QED
      BY <3>1, <2>2 DEF IsNewest
  <2>. QED
    BY <1>1, <1>4, <1>5, <1>7, <2>4, <2>5 DEF Walking
<1>. QED
  BY <1>6, <1>7

LEMMA WalkInit == Init => WalkInv
<1>1. ASSUME Init, NEW r \in Reader PROVE reader[r].pc = "idle"
  BY <1>1 DEF Init, Reading
<1>. QED
  BY <1>1, TypesInit DEF WalkInv

LEMMA WalkStep == WalkInv /\ [Next]_vars => WalkInv'
<1>. SUFFICES ASSUME WalkInv, [Next]_vars PROVE WalkInv'
  OBVIOUS
<1>0. Types /\ Types'
  BY TypesStep DEF WalkInv
<1>t. nextId["questions"] \in Nat /\ nextId["answers"] \in Nat /\ DOMAIN nextId = Table
      /\ DOMAIN rows = Table /\ DOMAIN adding = Table
  BY <1>0 DEF Types, TypeOK, Table
<1>1. CASE UNCHANGED vars
  BY <1>0, <1>1, <1>t, TablesUnderWalk DEF vars
<1>2. ASSUME NEW t \in Table, NEW u, NEW q, DrawId(t, u, q) PROVE WalkInv'
  <2>1. /\ rows' = rows /\ reader' = reader
        /\ nextId["questions"] <= nextId'["questions"]
        /\ adding'["questions"] \subseteq
             adding["questions"] \cup {[id |-> nextId["questions"], by |-> u, of |-> q]}
    BY <1>2, <1>t DEF DrawId, Table
  <2>2. \A i \in Ids(adding'["questions"]) :
           i \in Ids(adding["questions"]) \/ i >= nextId["questions"]
    BY <1>t, <2>1 DEF Ids
  <2>. QED
    BY <1>0, <2>1, <2>2, TablesUnderWalk
<1>3. ASSUME NEW t \in Table, NEW w, Insert(t, w) PROVE WalkInv'
  <2>1. /\ reader' = reader /\ nextId' = nextId
        /\ adding'["questions"] \subseteq adding["questions"]
        /\ rows'["questions"] \subseteq rows["questions"] \cup adding["questions"]
    BY <1>3, <1>t DEF Insert, Table
  <2>2. /\ Ids(adding'["questions"]) \subseteq Ids(adding["questions"])
        /\ Ids(rows'["questions"]) \subseteq Ids(rows["questions"]) \cup Ids(adding["questions"])
    BY <2>1 DEF Ids
  <2>. QED
    BY <1>0, <1>t, <2>1, <2>2, TablesUnderWalk
<1>4. ASSUME NEW t \in Table, NEW u, NEW w, DeleteRow(t, u, w) PROVE WalkInv'
  <2>1. /\ reader' = reader /\ nextId' = nextId /\ adding' = adding
        /\ rows'["questions"] \subseteq rows["questions"]
    BY <1>4, <1>t DEF DeleteRow, Table
  <2>2. Ids(rows'["questions"]) \subseteq Ids(rows["questions"])
    BY <2>1 DEF Ids
  <2>. QED
    BY <1>0, <1>t, <2>1, <2>2, TablesUnderWalk
<1>5. ASSUME NEW r \in Reader, StartQuestions(r) PROVE WalkInv'
  <2>1. PICK limit \in Limit : Sets(r, Reading("cursor", limit, 0, Ids(rows["questions"])))
    BY <1>5 DEF StartQuestions
  <2>. DEFINE to == Reading("cursor", limit, 0, Ids(rows["questions"]))
  <2>2. Ids(rows["questions"]) \subseteq Nat
    BY <1>0 DEF Types, TypeOK, Ids, Row, Table
  <2>3. to \in ReaderState
    BY <1>0, <2>2, ReadingTypes
  <2>4. /\ to.pc = "cursor" /\ to.limit = limit /\ to.last = 0 /\ to.got = {} /\ ~to.twice
        /\ to.start = Ids(rows["questions"])
    BY DEF Reading
  <2>. HIDE DEF to
  <2>5. StartIsPast(to)
    <3>. SUFFICES ASSUME NEW i \in Ids(rows["questions"])
                  PROVE  i < nextId["questions"] /\ i \notin Ids(adding["questions"])
      BY <2>4 DEF StartIsPast
    <3>1. PICK w \in rows["questions"] : w.id = i
      BY DEF Ids
    <3>2. i < nextId["questions"]
      BY <1>0, <3>1 DEF Types, SequenceAhead, Table
    <3>3. ASSUME NEW v \in adding["questions"], v.id = i PROVE FALSE
      <4>1. v = w
        BY <1>0, <3>1, <3>3 DEF Types, TypeOK, Table
      <4>. QED
        BY <1>0, <3>1, <4>1 DEF Types, Apart, Table
    <3>. QED
      BY <3>2, <3>3 DEF Ids
  <2>6. Walking(to)
    BY <2>4, <2>5 DEF Walking, GotAbove, LacksBelow, Older
  <2>7. UNCHANGED <<rows, adding, nextId, edits>> /\ Sets(r, to)
    BY <1>5, <2>1 DEF StartQuestions, to
  <2>. QED
    BY <1>0, <2>3, <2>4, <2>6, <2>7, OneReaderMoves
<1>6. ASSUME NEW r \in Reader, QuestionPage(r) PROVE WalkInv'
  <2>. DEFINE me == reader[r]
  <2>0. UNCHANGED <<rows, adding, nextId, edits>> /\ me.pc = "cursor" /\ me \in ReaderState
    BY <1>0, <1>6 DEF QuestionPage, Types, TypeOK
  <2>1. PICK page \in SUBSET Older(me.last) :
          /\ IsNewest(page, Older(me.last), me.limit)
          /\ \E last \in page \cup {0} :
               /\ IsLastId(last, page)
               /\ Sets(r, [Receives(me, page) EXCEPT
                             !.last = last,
                             !.pc = IF IsEnd(page, me.limit) THEN "allQuestions" ELSE "cursor"])
    BY <1>6 DEF QuestionPage
  <2>2. PICK last \in page \cup {0} :
          /\ IsLastId(last, page)
          /\ Sets(r, [Receives(me, page) EXCEPT
                        !.last = last,
                        !.pc = IF IsEnd(page, me.limit) THEN "allQuestions" ELSE "cursor"])
    BY <2>1
  <2>. DEFINE base == Receives(me, page)
              at == IF IsEnd(page, me.limit) THEN "allQuestions" ELSE "cursor"
              to == [base EXCEPT !.last = last, !.pc = at]
  <2>3. page \in SUBSET Nat /\ last \in Nat
    BY <1>0, <2>1, OlderIsNat
  <2>4. /\ base \in ReaderState /\ base.got = me.got \cup page
        /\ base.twice = (me.twice \/ page \cap me.got # {})
        /\ base.start = me.start /\ base.limit = me.limit
    BY <2>0, <2>3, ReceivedPage
  <2>5. at \in {"cursor", "allQuestions"}
    OBVIOUS
  <2>. HIDE DEF base, at
  <2>6. /\ to \in ReaderState /\ to.got = base.got /\ to.twice = base.twice
        /\ to.start = base.start /\ to.limit = base.limit /\ to.last = last /\ to.pc = at
    BY <2>3, <2>4, <2>5 DEF ReaderState
  <2>7. Sets(r, to)
    BY <2>2 DEF base, at
  <2>. HIDE DEF to
  <2>8. IF IsEnd(page, me.limit) THEN Walked(to) ELSE Walking(to)
    <3>1. to.twice = (me.twice \/ page \cap me.got # {})
      BY <2>4, <2>6
    <3>. QED
      BY <2>0, <2>1, <2>2, <2>4, <2>6, <3>1, PageOfWalk
  <2>9. (to.pc = "cursor" => Walking(to)) /\ (to.pc = "allQuestions" => Walked(to))
    BY <2>6, <2>8 DEF at
  <2>. QED
    BY <1>0, <2>0, <2>6, <2>7, <2>9, OneReaderMoves
<1>7. ASSUME NEW r \in Reader,
             CountAnswers(r) \/ SelectAnswers(r) \/ \E q \in Question : StartAnswers(r, q)
      PROVE  WalkInv'
  <2>. DEFINE me == reader[r]
  <2>1. UNCHANGED <<rows, adding, nextId, edits>> /\ me \in ReaderState
    BY <1>0, <1>7 DEF CountAnswers, SelectAnswers, StartAnswers, Types, TypeOK
  <2>2. \E to : Sets(r, to) /\ to.pc \in {"count", "select", "allAnswers"}
    <3>1. CASE CountAnswers(r)
      <4>1. \A n : [me EXCEPT !.pc = "select", !.total = n].pc = "select"
        BY <2>1 DEF ReaderState
      <4>. QED
        BY <3>1, <4>1 DEF CountAnswers
    <3>2. CASE SelectAnswers(r)
      <4>1. PICK page \in SUBSET AnswersOf(me.of) :
              Sets(r, IF IsLastPage(me)
                        THEN [Receives(me, page) EXCEPT !.pc = "allAnswers"]
                        ELSE [Receives(me, page) EXCEPT !.pc = "count", !.page = @ + 1])
        BY <3>2 DEF SelectAnswers
      <4>2. Receives(me, page) \in ReaderState
        BY <1>0, <2>1, AnswersAreNat, ReceivedPage
      <4>3. /\ [Receives(me, page) EXCEPT !.pc = "allAnswers"].pc = "allAnswers"
            /\ [Receives(me, page) EXCEPT !.pc = "count", !.page = @ + 1].pc = "count"
        BY <4>2, GoesOn
      <4>. QED
        BY <4>1, <4>3
    <3>3. CASE \E q \in Question : StartAnswers(r, q)
      <4>1. \A limit, q, S : Reading("count", limit, q, S).pc = "count"
        BY DEF Reading
      <4>. QED
        BY <3>3, <4>1 DEF StartAnswers
    <3>. QED
      BY <1>7, <3>1, <3>2, <3>3
  <2>3. PICK to : Sets(r, to) /\ to.pc \in {"count", "select", "allAnswers"}
    BY <2>2
  <2>4. to \in ReaderState
    <3>1. reader'[r] = to
      BY <1>0, <2>3 DEF Sets, Types, TypeOK
    <3>. QED
      BY <1>0, <3>1 DEF Types, TypeOK
  <2>. QED
    BY <1>0, <2>1, <2>3, <2>4, OneReaderMoves
<1>. QED
  BY <1>1, <1>2, <1>3, <1>4, <1>5, <1>6, <1>7
     DEF Next, TableStep, ReaderStep, AddQuestion, AddAnswer, DeleteQuestion, DeleteAnswer, Table

LEMMA WalkInvariant == Spec => []WalkInv
BY WalkInit, WalkStep, PTL DEF Spec

(* For any page size and any additions and deletions on the way, a walk over *)
(* the questions that was told is_end has every question that was there from *)
(* its first page to its last.                                               *)
THEOREM WalksMissNothing == Spec => []WalkComplete
<1>1. WalkInv => WalkComplete
  BY DEF WalkInv, Walked, WalkComplete
<1>. QED
  BY WalkInvariant, <1>1, PTL

(* No question is on two pages of one walk. *)
THEOREM WalksRepeatNothing == Spec => []WalkRepeatsNothing
<1>1. WalkInv => WalkRepeatsNothing
  BY DEF WalkInv, Walking, Walked, WalkRepeatsNothing
<1>. QED
  BY WalkInvariant, <1>1, PTL

(* A page that is not the last moves the cursor down and brings new ids.     *)
LEMMA PageDescends ==
    ASSUME WalkInv, NEW r \in Reader, reader[r].pc = "cursor",
           NEW page \in SUBSET Older(reader[r].last),
           IsNewest(page, Older(reader[r].last), reader[r].limit),
           NEW last \in page \cup {0}, IsLastId(last, page),
           ~IsEnd(page, reader[r].limit)
    PROVE  /\ last > 0 /\ (reader[r].last = 0 \/ last < reader[r].last)
           /\ page # {} /\ page \cap reader[r].got = {}
<1>. DEFINE s == reader[r]
<1>1. Walking(s) /\ s \in ReaderState /\ Older(s.last) \subseteq Nat
  BY OlderIsNat DEF WalkInv, Types, TypeOK
<1>2. s.last \in Nat /\ s.got \subseteq Nat
  BY <1>1 DEF ReaderState
<1>3. page # {}
  BY <1>1, EndOfWalk DEF Walking
<1>4. last \in page
  BY <1>3 DEF IsLastId
<1>5. last > 0
  BY <1>4 DEF WalkInv, Types, TypeOK, Older, Ids, Row, Table
<1>6. s.last = 0 \/ last < s.last
  BY <1>4 DEF Older
<1>7. page \cap s.got = {}
  BY <1>1, <1>2 DEF Walking, GotAbove, Older
<1>. QED
  BY <1>3, <1>5, <1>6, <1>7

(* What CursorDescends says of one reader. *)
Descends(r) == reader[r].pc = "cursor" /\ reader'[r].pc = "cursor" /\ reader'[r] # reader[r] =>
                  /\ reader'[r].last > 0
                  /\ reader[r].last = 0 \/ reader'[r].last < reader[r].last
                  /\ reader'[r].got \ reader[r].got # {}

LEMMA StepDescends ==
    ASSUME WalkInv, [Next]_vars, NEW x \in Reader
    PROVE  Descends(x)
<1>1. CASE reader' = reader
  BY <1>1 DEF Descends
<1>2. ASSUME NEW r \in Reader, ReaderStep(r) PROVE Descends(x)
  <2>1. CASE r # x
    <3>1. \A to : Sets(r, to) => reader'[x] = reader[x]
      BY <2>1 DEF Sets, WalkInv, Types, TypeOK
    <3>. QED
      BY <1>2, <3>1 DEF Descends, ReaderStep, StartQuestions, QuestionPage, StartAnswers,
                        CountAnswers, SelectAnswers
  <2>2. CASE r = x /\ reader[x].pc # "cursor"
    BY <2>2 DEF Descends
  <2>3. CASE r = x /\ reader[x].pc = "cursor"
    <3>. DEFINE me == reader[x]
    <3>0. QuestionPage(x) /\ me \in ReaderState
      BY <1>2, <2>3 DEF ReaderStep, StartQuestions, QuestionPage, StartAnswers,
                        CountAnswers, SelectAnswers, WalkInv, Types, TypeOK
    <3>a. PICK page \in SUBSET Older(me.last) :
            /\ IsNewest(page, Older(me.last), me.limit)
            /\ \E last \in page \cup {0} :
                 /\ IsLastId(last, page)
                 /\ Sets(x, [Receives(me, page) EXCEPT
                               !.last = last,
                               !.pc = IF IsEnd(page, me.limit) THEN "allQuestions" ELSE "cursor"])
      BY <3>0 DEF QuestionPage
    <3>1. PICK last \in page \cup {0} :
            /\ IsLastId(last, page)
            /\ Sets(x, [Receives(me, page) EXCEPT
                          !.last = last,
                          !.pc = IF IsEnd(page, me.limit) THEN "allQuestions" ELSE "cursor"])
      BY <3>a
    <3>. DEFINE base == Receives(me, page)
                at == IF IsEnd(page, me.limit) THEN "allQuestions" ELSE "cursor"
                to == [base EXCEPT !.last = last, !.pc = at]
    <3>2. page \in SUBSET Nat
      BY OlderIsNat DEF WalkInv
    <3>3. base \in ReaderState /\ base.got = me.got \cup page
      BY <3>0, <3>2, ReceivedPage
    <3>4. at = "cursor" => ~IsEnd(page, me.limit)
      OBVIOUS
    <3>. HIDE DEF base, at
    <3>5. to.got = base.got /\ to.last = last /\ to.pc = at
      BY <3>3 DEF ReaderState
    <3>6. Sets(x, to)
      BY <3>1 DEF base, at
    <3>. HIDE DEF to
    <3>7. reader'[x] = to
      BY <3>6 DEF Sets, WalkInv, Types, TypeOK
    <3>8. CASE IsEnd(page, me.limit)
      BY <3>4, <3>5, <3>7, <3>8 DEF Descends
    <3>9. CASE ~IsEnd(page, me.limit)
      <4>1. /\ last > 0 /\ (me.last = 0 \/ last < me.last)
            /\ page # {} /\ page \cap me.got = {}
        BY <2>3, <3>a, <3>1, <3>9, PageDescends
      <4>. QED
        BY <3>3, <3>5, <3>7, <4>1 DEF Descends
    <3>. QED
      BY <3>8, <3>9
  <2>. QED
    BY <2>1, <2>2, <2>3
<1>3. CASE TableStep
  BY <1>1, <1>3 DEF TableStep, AddQuestion, AddAnswer, DrawId, Insert, DeleteQuestion, DeleteAnswer, DeleteRow
<1>. QED
  BY <1>1, <1>2, <1>3 DEF Next, vars

(* For any page size and any additions and deletions on the way, a reader    *)
(* who is told to go on has got further (latest_question, find_latest): the  *)
(* ids below the cursor are what a walk has left.                            *)
THEOREM WalksAdvance == Spec => CursorDescends
<1>1. WalkInv /\ [Next]_vars => [\A r \in Reader : Descends(r)]_vars
  BY StepDescends
<1>. QED
  BY WalkInvariant, <1>1, PTL DEF Spec, CursorDescends, Descends
=============================================================================
