------------------------ MODULE ListingQuietProofs -------------------------
(* That the pages of answer_list fit together: a proof about Listing, for    *)
(* any number of answers, any page size, any users and any bounds.           *)
EXTENDS ListingProofs

-----------------------------------------------------------------------------
(* Arithmetic and sets *)

(* total_page is the number of pages it takes to hold the total. *)
LEMMA EnoughPages ==
    ASSUME NEW page \in Nat, NEW total \in Nat, NEW size \in Nat \ {0}
    PROVE  page >= TotalPage(total, size) <=> total <= page * size
<1>. DEFINE quot == total \div size
            rest == total % size
<1>1. quot \in Nat /\ rest \in Nat /\ rest < size /\ total = quot * size + rest
  OBVIOUS
<1>. HIDE DEF quot, rest
<1>2. CASE page >= quot + 1
  <2>1. PICK more \in Nat : page = quot + 1 + more
    BY <1>1, <1>2
  <2>2. page * size = quot * size + size + more * size /\ more * size \in Nat
    BY <1>1, <2>1
  <2>3. quot * size \in Nat /\ page * size \in Nat
    BY <1>1
  <2>4. total <= page * size
    BY <1>1, <2>2, <2>3
  <2>. QED
    BY <1>1, <1>2, <2>4 DEF TotalPage, quot, rest
<1>3. CASE page = quot
  BY <1>1, <1>3 DEF TotalPage, quot, rest
<1>4. CASE page < quot
  <2>1. PICK less \in Nat : quot = page + 1 + less
    BY <1>1, <1>4
  <2>2. quot * size = page * size + size + less * size /\ less * size \in Nat
    BY <1>1, <2>1
  <2>3. quot * size \in Nat /\ page * size \in Nat
    BY <1>1
  <2>4. total > page * size
    BY <1>1, <2>2, <2>3
  <2>. QED
    BY <1>1, <1>4, <2>4 DEF TotalPage, quot, rest
<1>. QED
  BY <1>1, <1>2, <1>3, <1>4

(* The first rows of a list, in descending order. *)
IsTop(top, S) == top \subseteq S /\ \A i \in top, j \in S \ top : j < i

LEMMA TopsAgree ==
    ASSUME NEW S \in SUBSET Nat, IsFiniteSet(S), NEW T, NEW U, IsTop(T, S), IsTop(U, S),
           Cardinality(T) = Cardinality(U)
    PROVE  T = U
<1>1. T \subseteq U \/ U \subseteq T
  BY DEF IsTop
<1>2. IsFiniteSet(T) /\ IsFiniteSet(U)
  BY FS_Subset DEF IsTop
<1>. QED
  BY <1>1, <1>2, FS_Subset

LEMMA PagesAddUp ==
    ASSUME NEW p \in Nat \ {0}, NEW limit \in Nat \ {0}
    PROVE  (p - 1) * limit \in Nat /\ (p - 1) * limit + limit = p * limit
OBVIOUS

(* The rows a reader then has, once one more page has come. *)
LEMMA NextPage ==
    ASSUME NEW S \in SUBSET Nat, IsFiniteSet(S), NEW got, IsTop(got, S),
           NEW limit \in Nat \ {0}, NEW rest, rest = S \ got,
           NEW page, IsNewest(page, rest, limit), NEW then, then = got \cup page
    PROVE  /\ IsTop(then, S) /\ page \cap got = {}
           /\ Cardinality(S) <= Cardinality(got) + limit => then = S
           /\ Cardinality(got) + limit < Cardinality(S) =>
                Cardinality(then) = Cardinality(got) + limit
<1>1. got \subseteq S /\ page \subseteq rest /\ rest \subseteq S /\ page \cap got = {}
  BY DEF IsTop, IsNewest
<1>2. IsFiniteSet(got) /\ IsFiniteSet(page)
  BY <1>1, FS_Subset
<1>3. IsTop(then, S)
  BY <1>1 DEF IsTop, IsNewest
<1>4. Cardinality(rest) = Cardinality(S) - Cardinality(got)
  <2>1. S \cap got = got
    BY <1>1
  <2>2. Cardinality(S \ got) = Cardinality(S) - Cardinality(S \cap got)
    BY FS_Difference
  <2>. QED
    BY <2>1, <2>2
<1>5. Cardinality(S) \in Nat /\ Cardinality(got) \in Nat
  BY <1>2, FS_CardinalityType
<1>6. Cardinality(rest) <= limit <=> Cardinality(S) <= Cardinality(got) + limit
  BY <1>4, <1>5
<1>7. ASSUME Cardinality(S) <= Cardinality(got) + limit PROVE then = S
  <2>1. page = rest
    BY <1>6, <1>7 DEF IsNewest
  <2>. QED
    BY <1>1, <2>1
<1>8. ASSUME Cardinality(got) + limit < Cardinality(S)
      PROVE  Cardinality(then) = Cardinality(got) + limit
  <2>1. Cardinality(page) = limit
    BY <1>5, <1>6, <1>8 DEF IsNewest
  <2>2. got \cap page = {}
    BY <1>1
  <2>3. Cardinality(got \cup page) = Cardinality(got) + limit - 0
    BY <1>2, <2>1, <2>2, FS_Union, FS_EmptySet
  <2>. QED
    BY <1>5, <2>3
<1>. QED
  BY <1>1, <1>3, <1>7, <1>8

-----------------------------------------------------------------------------
(* The invariant.  A reader who began when the tables were as they are now   *)
(* has the newest answers, as many as fit the pages before the next; the     *)
(* count it goes by is that of the answers it began with.                    *)

FullPagesSoFar(s) ==
    /\ s.start = AnswersOf(s.of)
    /\ s.limit \in Limit /\ s.page \in Nat \ {0}
    /\ IsTop(s.got, s.start) /\ ~s.twice
    /\ Cardinality(s.got) = (s.page - 1) * s.limit
    /\ s.pc = "select" => s.total = Cardinality(s.start)

Quiet(s) == edits = s.since =>
              /\ s.pc \in {"count", "select"} => FullPagesSoFar(s)
              /\ s.pc = "allAnswers" => s.got = s.start /\ ~s.twice

(* No reader began in the future. *)
QuietInv == Types /\ \A r \in Reader : reader[r].since <= edits /\ Quiet(reader[r])

LEMMA AnswersAreFinite ==
    ASSUME Types, NEW q PROVE IsFiniteSet(AnswersOf(q))
<1>1. \A i \in AnswersOf(q) : i <= nextId["answers"]
  BY DEF Types, TypeOK, SequenceAhead, AnswersOf, Ids, Row, Table
<1>2. nextId["answers"] \in Nat /\ AnswersOf(q) \in SUBSET Nat
  BY AnswersAreNat DEF Types, TypeOK, Table
<1>. QED
  BY <1>1, <1>2, FS_BoundedSetOfNaturals

(* Rows that appear or go end the quiet of every reader. *)
LEMMA QuietEnds ==
    ASSUME QuietInv, Types', reader' = reader, edits' = edits + 1
    PROVE  QuietInv'
<1>. SUFFICES ASSUME NEW r \in Reader
              PROVE  reader[r].since <= edits' /\ edits' # reader[r].since
  BY DEF QuietInv, Quiet
<1>1. reader[r].since \in Nat /\ edits \in Nat /\ reader[r].since <= edits
  BY DEF QuietInv, Types, TypeOK, ReaderState
<1>. QED
  BY <1>1

(* What does not touch the rows leaves the readers who stand still as they are. *)
LEMMA QuietLasts ==
    ASSUME QuietInv, Types', UNCHANGED <<rows, edits>>,
           \A x \in Reader : \/ reader'[x] = reader[x]
                             \/ reader'[x].since <= edits /\ Quiet(reader'[x])
    PROVE  QuietInv'
<1>. SUFFICES ASSUME NEW x \in Reader
              PROVE  reader'[x].since <= edits' /\ Quiet(reader[x])'
  BY DEF QuietInv
<1>1. \A q : AnswersOf(q)' = AnswersOf(q)
  BY DEF AnswersOf, Ids
<1>2. Quiet(reader[x])' <=> Quiet(reader'[x])
  BY <1>1 DEF Quiet, FullPagesSoFar
<1>. QED
  BY <1>2 DEF QuietInv

LEMMA OneQuietReaderMoves ==
    ASSUME QuietInv, Types', NEW r \in Reader, UNCHANGED <<rows, adding, nextId, edits>>,
           NEW to, Sets(r, to), to.since <= edits, Quiet(to)
    PROVE  QuietInv'
<1>1. \A x \in Reader : reader'[x] = IF x = r THEN to ELSE reader[x]
  BY DEF Sets, QuietInv, Types, TypeOK
<1>. QED
  BY <1>1, QuietLasts

(* What the query with the offset may return. *)
IsSelected(s, page) ==
    \E before :
      /\ IsNewest(before, AnswersOf(s.of), (s.page - 1) * s.limit)
      /\ IF s.total = 0 THEN page = {} ELSE IsNewest(page, AnswersOf(s.of) \ before, s.limit)

(* A page of answers, read while the tables stood still since the first. *)
LEMMA QuietPage ==
    ASSUME Types, NEW s, FullPagesSoFar(s), s.pc = "select", NEW page, IsSelected(s, page)
    PROVE  /\ page \cap s.got = {}
           /\ IF IsLastPage(s)
                THEN s.got \cup page = s.start
                ELSE /\ IsTop(s.got \cup page, s.start)
                     /\ Cardinality(s.got \cup page) = s.page * s.limit
<1>. DEFINE S == AnswersOf(s.of)
<1>1. s.total = Cardinality(S) /\ s.start = S
  BY DEF FullPagesSoFar
<1>2. S \in SUBSET Nat /\ IsFiniteSet(S) /\ Cardinality(S) \in Nat
  BY AnswersAreNat, AnswersAreFinite, CountIsNat
<1>3. s.limit \in Nat \ {0} /\ s.page \in Nat \ {0}
  BY <1>1, LimitAssumption DEF FullPagesSoFar
<1>4. IsTop(s.got, S) /\ Cardinality(s.got) = (s.page - 1) * s.limit
  BY <1>1 DEF FullPagesSoFar
<1>5. IF s.total = 0 THEN page = {} ELSE IsNewest(page, S \ s.got, s.limit)
  <2>. PICK before :
         /\ IsNewest(before, S, (s.page - 1) * s.limit)
         /\ IF s.total = 0 THEN page = {} ELSE IsNewest(page, S \ before, s.limit)
    BY DEF IsSelected
  <2>. SUFFICES before = s.got
    OBVIOUS
  <2>1. Cardinality(s.got) <= Cardinality(S) /\ (Cardinality(s.got) = Cardinality(S) => s.got = S)
    <3>1. s.got \in SUBSET S
      BY <1>4 DEF IsTop
    <3>. QED
      BY <1>2, <3>1, FS_Subset
  <2>2. CASE Cardinality(S) <= Cardinality(s.got)
    <3>1. Cardinality(s.got) \in Nat
      BY <1>3, <1>4
    <3>2. s.got = S
      BY <1>2, <2>1, <2>2, <3>1
    <3>. QED
      BY <1>4, <2>2, <3>2 DEF IsNewest
  <2>3. CASE ~(Cardinality(S) <= Cardinality(s.got))
    <3>1. IsTop(before, S) /\ Cardinality(before) = Cardinality(s.got)
      BY <1>4, <2>3 DEF IsNewest, IsTop
    <3>. QED
      BY <1>2, <1>4, <3>1, TopsAgree
  <2>. QED
    BY <2>2, <2>3
<1>6. IsLastPage(s) <=> Cardinality(S) <= s.page * s.limit
  BY <1>1, <1>2, <1>3, EnoughPages DEF IsLastPage
<1>7. CASE s.total = 0
  <2>1. S = {} /\ s.got = {} /\ page = {}
    BY <1>1, <1>2, <1>4, <1>5, <1>7, FS_EmptySet DEF IsTop
  <2>2. IsLastPage(s)
    <3>1. s.page * s.limit \in Nat
      BY <1>3
    <3>. QED
      BY <1>1, <1>6, <1>7, <3>1
  <2>. QED
    BY <1>1, <2>1, <2>2
<1>8. CASE s.total # 0
  <2>1. IsNewest(page, S \ s.got, s.limit)
    BY <1>5, <1>8
  <2>2. /\ IsTop(s.got \cup page, S) /\ page \cap s.got = {}
        /\ IF Cardinality(S) <= s.page * s.limit
             THEN s.got \cup page = S
             ELSE Cardinality(s.got \cup page) = s.page * s.limit
    <3>1. Cardinality(s.got) + s.limit = s.page * s.limit
      BY <1>3, <1>4, PagesAddUp
    <3>. DEFINE got == s.got
                limit == s.limit
                rest == S \ got
                then == got \cup page
    <3>2. /\ S \in SUBSET Nat /\ IsFiniteSet(S) /\ IsTop(got, S) /\ limit \in Nat \ {0}
          /\ rest = S \ got /\ then = got \cup page /\ IsNewest(page, rest, limit)
      BY <1>2, <1>3, <1>4, <2>1
    <3>3. Cardinality(got) \in Nat
      BY <1>3, <1>4, PagesAddUp
    <3>. HIDE DEF S, got, limit, rest, then
    <3>4. /\ IsTop(then, S) /\ page \cap got = {}
          /\ Cardinality(S) <= Cardinality(got) + limit => then = S
          /\ Cardinality(got) + limit < Cardinality(S) =>
               Cardinality(then) = Cardinality(got) + limit
      BY <3>2, NextPage
    <3>5. IF Cardinality(S) <= Cardinality(got) + limit
            THEN then = S
            ELSE Cardinality(then) = Cardinality(got) + limit
      BY <1>2, <3>2, <3>3, <3>4
    <3>. QED
      BY <3>1, <3>4, <3>5 DEF got, limit, then
  <2>. QED
    BY <1>1, <1>6, <2>2
<1>. QED
  BY <1>7, <1>8

-----------------------------------------------------------------------------
(* One step *)

LEMMA QuietStart ==
    ASSUME QuietInv, Types', NEW r \in Reader, NEW q \in Question, StartAnswers(r, q)
    PROVE  QuietInv'
<1>1. PICK limit \in Limit : Sets(r, Reading("count", limit, q, AnswersOf(q)))
  BY DEF StartAnswers
<1>. DEFINE to == Reading("count", limit, q, AnswersOf(q))
<1>2. /\ to.pc = "count" /\ to.start = AnswersOf(to.of) /\ to.limit = limit
      /\ to.page = 1 /\ to.got = {} /\ ~to.twice /\ to.since = edits
  BY DEF Reading
<1>3. limit \in Nat
  BY LimitAssumption
<1>4. Sets(r, to) /\ UNCHANGED <<rows, adding, nextId, edits>> /\ edits \in Nat
  BY <1>1 DEF StartAnswers, QuietInv, Types, TypeOK
<1>. HIDE DEF to
<1>5. Cardinality(to.got) = (to.page - 1) * to.limit
  BY <1>2, <1>3, FS_EmptySet
<1>6. FullPagesSoFar(to)
  BY <1>2, <1>5 DEF FullPagesSoFar, IsTop
<1>. QED
  BY <1>2, <1>4, <1>6, OneQuietReaderMoves DEF Quiet

LEMMA QuietCount ==
    ASSUME QuietInv, Types', NEW r \in Reader, CountAnswers(r)
    PROVE  QuietInv'
<1>. DEFINE s == reader[r]
            n == Cardinality(AnswersOf(s.of))
            to == [s EXCEPT !.pc = "select", !.total = n]
<1>1. s \in ReaderState /\ s.pc = "count" /\ UNCHANGED <<rows, adding, nextId, edits>> /\ Sets(r, to)
  BY DEF CountAnswers, QuietInv, Types, TypeOK
<1>2. /\ to.pc = "select" /\ to.total = n /\ to.start = s.start /\ to.of = s.of
      /\ to.limit = s.limit /\ to.page = s.page /\ to.got = s.got /\ to.twice = s.twice
      /\ to.since = s.since
  BY <1>1 DEF ReaderState
<1>. HIDE DEF to
<1>3. ASSUME edits = s.since PROVE FullPagesSoFar(to)
  <2>1. FullPagesSoFar(s)
    BY <1>1, <1>3 DEF QuietInv, Quiet
  <2>. QED
    BY <1>2, <2>1 DEF FullPagesSoFar
<1>. QED
  BY <1>1, <1>2, <1>3, OneQuietReaderMoves DEF Quiet, QuietInv

LEMMA QuietSelect ==
    ASSUME QuietInv, Types', NEW r \in Reader, SelectAnswers(r)
    PROVE  QuietInv'
<1>. DEFINE s == reader[r]
<1>1. s \in ReaderState /\ s.pc = "select" /\ UNCHANGED <<rows, adding, nextId, edits>>
  BY DEF SelectAnswers, QuietInv, Types, TypeOK
<1>2. PICK before \in SUBSET AnswersOf(s.of), page \in SUBSET AnswersOf(s.of) :
        /\ IsNewest(before, AnswersOf(s.of), (s.page - 1) * s.limit)
        /\ IF s.total = 0 THEN page = {} ELSE IsNewest(page, AnswersOf(s.of) \ before, s.limit)
        /\ Sets(r, IF IsLastPage(s)
                     THEN [Receives(s, page) EXCEPT !.pc = "allAnswers"]
                     ELSE [Receives(s, page) EXCEPT !.pc = "count", !.page = @ + 1])
  BY DEF SelectAnswers
<1>. DEFINE base == Receives(s, page)
            next == s.page + 1
            to == IF IsLastPage(s) THEN [base EXCEPT !.pc = "allAnswers"]
                                   ELSE [base EXCEPT !.pc = "count", !.page = next]
<1>3. page \in SUBSET Nat
  BY <1>2, AnswersAreNat DEF QuietInv
<1>4. /\ base \in ReaderState /\ base.got = s.got \cup page
      /\ base.twice = (s.twice \/ page \cap s.got # {})
      /\ base.start = s.start /\ base.limit = s.limit /\ base.page = s.page
  BY <1>1, <1>3, ReceivedPage
<1>5. base.of = s.of /\ base.since = s.since
  BY <1>1 DEF ReaderState, Receives
<1>6. Sets(r, to)
  BY <1>2, <1>4
<1>. HIDE DEF base, next
<1>7. /\ to.got = base.got /\ to.twice = base.twice /\ to.start = base.start
      /\ to.limit = base.limit /\ to.of = base.of /\ to.since = base.since
      /\ IF IsLastPage(s) THEN to.pc = "allAnswers" ELSE to.pc = "count" /\ to.page = next
  BY <1>4 DEF ReaderState
<1>. HIDE DEF to
<1>8. ASSUME edits = s.since
      PROVE  IF IsLastPage(s) THEN to.got = to.start /\ ~to.twice ELSE FullPagesSoFar(to)
  <2>1. FullPagesSoFar(s)
    BY <1>1, <1>8 DEF QuietInv, Quiet
  <2>2. /\ page \cap s.got = {}
        /\ IF IsLastPage(s)
             THEN s.got \cup page = s.start
             ELSE /\ IsTop(s.got \cup page, s.start)
                  /\ Cardinality(s.got \cup page) = s.page * s.limit
    BY <1>1, <1>2, <2>1, QuietPage DEF IsSelected, QuietInv
  <2>3. to.got = s.got \cup page /\ ~to.twice /\ to.start = s.start
    <3>1. to.twice = (s.twice \/ page \cap s.got # {})
      BY <1>4, <1>7
    <3>. QED
      BY <1>4, <1>7, <2>1, <2>2, <3>1 DEF FullPagesSoFar
  <2>4. CASE IsLastPage(s)
    BY <2>2, <2>3, <2>4
  <2>5. CASE ~IsLastPage(s)
    <3>1. to.page \in Nat \ {0} /\ to.page - 1 = s.page
      BY <1>7, <2>1, <2>5 DEF FullPagesSoFar, next
    <3>2. to.of = s.of /\ to.limit = s.limit /\ to.pc = "count"
      BY <1>4, <1>5, <1>7, <2>5
    <3>. QED
      BY <2>1, <2>2, <2>3, <2>5, <3>1, <3>2 DEF FullPagesSoFar
  <2>. QED
    BY <2>4, <2>5
<1>9. to.since = s.since /\ to.since <= edits
  BY <1>5, <1>7 DEF QuietInv
<1>10. Quiet(to)
  BY <1>7, <1>8, <1>9 DEF Quiet
<1>. QED
  BY <1>1, <1>6, <1>9, <1>10, OneQuietReaderMoves

(* A reader of the questions is in none of the places Quiet speaks of. *)
LEMMA QuietElsewhere ==
    ASSUME QuietInv, Types', NEW r \in Reader, StartQuestions(r) \/ QuestionPage(r)
    PROVE  QuietInv'
<1>. DEFINE s == reader[r]
<1>1. /\ s \in ReaderState /\ UNCHANGED <<rows, adding, nextId, edits>>
      /\ edits \in Nat /\ s.since <= edits
  BY DEF StartQuestions, QuestionPage, QuietInv, Types, TypeOK
<1>2. \E to : Sets(r, to) /\ to.pc \in {"cursor", "allQuestions"} /\ to.since \in {edits, s.since}
  <2>1. CASE StartQuestions(r)
    <3>1. \A limit, S : LET to == Reading("cursor", limit, 0, S)
                       IN to.pc = "cursor" /\ to.since = edits
      BY DEF Reading
    <3>. QED
      BY <2>1, <3>1 DEF StartQuestions
  <2>2. CASE QuestionPage(r)
    <3>1. PICK page \in SUBSET Older(s.last) :
            \E last \in page \cup {0} :
              Sets(r, [Receives(s, page) EXCEPT
                         !.last = last,
                         !.pc = IF IsEnd(page, s.limit) THEN "allQuestions" ELSE "cursor"])
      BY <2>2 DEF QuestionPage
    <3>2. Receives(s, page) \in ReaderState /\ Receives(s, page).since = s.since
      <4>1. page \in SUBSET Nat
        BY <3>1, OlderIsNat DEF QuietInv
      <4>2. Receives(s, page).since = s.since
        BY <1>1 DEF Receives, ReaderState
      <4>. QED
        BY <1>1, <4>1, <4>2, ReceivedPage
    <3>3. PICK last \in page \cup {0} :
            Sets(r, [Receives(s, page) EXCEPT
                       !.last = last,
                       !.pc = IF IsEnd(page, s.limit) THEN "allQuestions" ELSE "cursor"])
      BY <3>1
    <3>. DEFINE base == Receives(s, page)
                at == IF IsEnd(page, s.limit) THEN "allQuestions" ELSE "cursor"
    <3>4. at \in {"cursor", "allQuestions"}
      OBVIOUS
    <3>5. Sets(r, [base EXCEPT !.last = last, !.pc = at])
      BY <3>3
    <3>. HIDE DEF base, at
    <3>6. /\ [base EXCEPT !.last = last, !.pc = at].pc = at
          /\ [base EXCEPT !.last = last, !.pc = at].since = s.since
      BY <3>2 DEF ReaderState, base
    <3>. QED
      BY <3>4, <3>5, <3>6
  <2>. QED
    BY <2>1, <2>2
<1>3. PICK to : Sets(r, to) /\ to.pc \in {"cursor", "allQuestions"} /\ to.since \in {edits, s.since}
  BY <1>2
<1>. QED
  BY <1>1, <1>3, OneQuietReaderMoves DEF Quiet

LEMMA QuietStep == QuietInv /\ [Next]_vars => QuietInv'
<1>. SUFFICES ASSUME QuietInv, [Next]_vars PROVE QuietInv'
  OBVIOUS
<1>0. Types'
  BY TypesStep DEF QuietInv
<1>1. CASE UNCHANGED vars
  BY <1>0, <1>1, QuietLasts DEF vars
<1>2. ASSUME NEW t \in Table, NEW u, NEW q, DrawId(t, u, q) PROVE QuietInv'
  BY <1>0, <1>2, QuietLasts DEF DrawId
<1>3. ASSUME NEW t \in Table, NEW w, Insert(t, w) PROVE QuietInv'
  BY <1>0, <1>3, QuietLasts, QuietEnds DEF Insert
<1>4. ASSUME NEW t \in Table, NEW u, NEW w, DeleteRow(t, u, w) PROVE QuietInv'
  BY <1>0, <1>4, QuietEnds DEF DeleteRow
<1>5. ASSUME NEW r \in Reader, ReaderStep(r) PROVE QuietInv'
  BY <1>0, <1>5, QuietStart, QuietCount, QuietSelect, QuietElsewhere DEF ReaderStep
<1>. QED
  BY <1>1, <1>2, <1>3, <1>4, <1>5
     DEF Next, TableStep, AddQuestion, AddAnswer, DeleteQuestion, DeleteAnswer, Table

LEMMA QuietInit == Init => QuietInv
<1>1. ASSUME Init, NEW r \in Reader
      PROVE  reader[r].pc = "idle" /\ reader[r].since = 0 /\ edits = 0
  BY <1>1 DEF Init, Reading
<1>. QED
  BY <1>1, TypesInit DEF QuietInv, Quiet

(* For any number of answers and any page size, a reader who was told is_end *)
(* has every answer of the question, and each once, if none appeared or went *)
(* from the first page to the last: total_page, the offset and is_end of     *)
(* try_new and find_latest fit together.                                     *)
THEOREM QuietListsComplete == Spec => []QuietListComplete
<1>1. QuietInv => QuietListComplete
  BY DEF QuietInv, Quiet, QuietListComplete
<1>. QED
  BY QuietInit, QuietStep, <1>1, PTL DEF Spec
=============================================================================
