--------------------------- MODULE ReadTallyProofs ---------------------------
(* ReadCount implements ReadTally for every finite set of flushers, as long  *)
(* as nothing fails.  What is in both stores is a sum over the flushers, so  *)
(* the sum comes first.                                                      *)
EXTENDS ReadCountProofs, FiniteSetTheorems, WellFoundedInduction

-----------------------------------------------------------------------------
(* Sums over a finite set *)

(* Every non-empty set of naturals has a least element. *)
LEMMA LeastElement ==
    ASSUME NEW T, T \subseteq Nat, T # {}
    PROVE  \E n \in T : \A m \in T : n <= m
<1> DEFINE less == {p \in Nat \X Nat : p[1] < p[2]}
<1>1. IsWellFoundedOn(less, Nat)
  BY NatLessThanWellFounded DEF OpToRel
<1>2. PICK n \in T : \A m \in T : <<m, n>> \notin less
  BY <1>1, WFMin
<1>3. \A m \in T : ~ (m < n)
  BY <1>2
<1>4. QED
  BY <1>3

(* Of a set of finite sets some T has no member of the set one element short *)
(* of it.                                                                    *)
LEMMA SmallestSet ==
    ASSUME NEW S, IsFiniteSet(S), NEW B, B \subseteq SUBSET S, B # {}
    PROVE  \E T \in B : \A x \in T : T \ {x} \notin B
<1> DEFINE sizes == {Cardinality(T) : T \in B}
<1>1. \A T \in B : IsFiniteSet(T) /\ Cardinality(T) \in Nat
  BY FS_Subset, FS_CardinalityType
<1>2. PICK n \in sizes : \A m \in sizes : n <= m
  <2>1. sizes \subseteq Nat /\ sizes # {}
    BY <1>1
  <2> HIDE DEF sizes
  <2>2. QED
    BY <2>1, LeastElement
<1>3. PICK T \in B : Cardinality(T) = n
  BY <1>2
<1>4. ASSUME NEW x \in T, T \ {x} \in B PROVE FALSE
  <2>1. Cardinality(T \ {x}) = Cardinality(T) - 1
    BY <1>1, <1>4, FS_RemoveElement
  <2>2. n <= Cardinality(T \ {x})
    BY <1>2, <1>4
  <2>3. QED
    BY <1>1, <1>3, <2>1, <2>2
<1>5. QED
  BY <1>4

Pick(T) == CHOOSE x \in T : TRUE

LEMMA PickIn == ASSUME NEW T, T # {} PROVE Pick(T) \in T
BY DEF Pick

(* s gives each subset of S the sum of v over it, one element at a time. *)
Sums(v, S, s) == s = [T \in SUBSET S |-> IF T = {} THEN 0 ELSE v[Pick(T)] + s[T \ {Pick(T)}]]

(* The subsets with at most n elements, and what a function that sums v over *)
(* each of them satisfies.                                                   *)
Small(S, n) == {T \in SUBSET S : Cardinality(T) <= n}
SumsUpTo(v, S, n, g) ==
    \A T \in Small(S, n) : g[T] = IF T = {} THEN 0 ELSE v[Pick(T)] + g[T \ {Pick(T)}]

LEMMA SmallRest ==
    ASSUME NEW S, IsFiniteSet(S), NEW n \in Nat, NEW T \in Small(S, n + 1), T # {}
    PROVE  T \ {Pick(T)} \in Small(S, n)
<1>1. IsFiniteSet(T) /\ Cardinality(T) \in Nat /\ Cardinality(T) <= n + 1 /\ T \subseteq S
  BY FS_Subset, FS_CardinalityType DEF Small
<1>2. Cardinality(T \ {Pick(T)}) = Cardinality(T) - 1
  BY <1>1, PickIn, FS_RemoveElement
<1>3. QED
  BY <1>1, <1>2 DEF Small

(* By the least size for which there is no such function: there is none. *)
LEMMA SumsExist ==
    ASSUME NEW S, IsFiniteSet(S), NEW v \in [S -> Int]
    PROVE  \E s : Sums(v, S, s)
<1> DEFINE Has(n) == \E g \in [Small(S, n) -> Int] : SumsUpTo(v, S, n, g)
           gaps == {n \in Nat : ~Has(n)}
<1>1. Has(0)
  <2>1. \A T \in Small(S, 0) : T = {}
    BY FS_Subset, FS_CardinalityType, FS_EmptySet DEF Small
  <2>2. SumsUpTo(v, S, 0, [T \in Small(S, 0) |-> 0])
    BY <2>1 DEF SumsUpTo
  <2>3. QED
    BY <2>2
<1>2. ASSUME NEW n \in Nat, Has(n) PROVE Has(n + 1)
  <2>1. PICK g \in [Small(S, n) -> Int] : SumsUpTo(v, S, n, g)
    BY <1>2
  <2> DEFINE h == [T \in Small(S, n + 1) |->
                     IF T = {} THEN 0 ELSE v[Pick(T)] + g[T \ {Pick(T)}]]
  <2>2. h \in [Small(S, n + 1) -> Int]
    <3>1. ASSUME NEW T \in Small(S, n + 1), T # {}
          PROVE  v[Pick(T)] \in Int /\ g[T \ {Pick(T)}] \in Int
      <4>1. v[Pick(T)] \in Int
        BY <3>1, PickIn DEF Small
      <4>2. g[T \ {Pick(T)}] \in Int
        BY <3>1, SmallRest
      <4>3. QED
        BY <4>1, <4>2
    <3>2. \A T \in Small(S, n + 1) :
              (IF T = {} THEN 0 ELSE v[Pick(T)] + g[T \ {Pick(T)}]) \in Int
      BY <3>1
    <3>3. QED
      BY <3>2
  <2>3. ASSUME NEW T \in Small(S, n) PROVE T \in Small(S, n + 1) /\ h[T] = g[T]
    <3>1. T \in Small(S, n + 1)
      BY FS_Subset, FS_CardinalityType DEF Small
    <3>2. QED
      BY <2>1, <3>1 DEF SumsUpTo
  <2>4. SumsUpTo(v, S, n + 1, h)
    <3> SUFFICES ASSUME NEW T \in Small(S, n + 1), T # {}
                 PROVE  h[T] = v[Pick(T)] + h[T \ {Pick(T)}]
      BY DEF SumsUpTo
    <3>1. h[T \ {Pick(T)}] = g[T \ {Pick(T)}]
      BY <2>3, SmallRest
    <3>2. QED
      BY <3>1
  <2>5. QED
    BY <2>2, <2>4
<1>3. gaps = {}
  <2> SUFFICES ASSUME gaps # {} PROVE FALSE
    OBVIOUS
  <2>1. PICK n \in gaps : \A m \in gaps : n <= m
    <3> HIDE DEF Has
    <3>1. QED
      BY LeastElement
  <2> HIDE DEF Has
  <2>2. n # 0
    BY <1>1
  <2>3. n - 1 \in Nat /\ n - 1 \notin gaps
    BY <2>1, <2>2
  <2>4. Has(n - 1)
    BY <2>3
  <2>5. Has((n - 1) + 1)
    BY <1>2, <2>3, <2>4
  <2>6. QED
    BY <2>5
<1>4. Has(Cardinality(S))
  <2> HIDE DEF Has
  <2>1. QED
    BY <1>3, FS_CardinalityType
<1>5. PICK s \in [Small(S, Cardinality(S)) -> Int] : SumsUpTo(v, S, Cardinality(S), s)
  BY <1>4
<1>6. Small(S, Cardinality(S)) = SUBSET S
  BY FS_Subset DEF Small
<1>7. Sums(v, S, s)
  BY <1>5, <1>6 DEF Sums, SumsUpTo
<1>8. QED
  BY <1>7

LEMMA SumsInt ==
    ASSUME NEW S, IsFiniteSet(S), NEW v \in [S -> Int], NEW s, Sums(v, S, s)
    PROVE  \A T \in SUBSET S : s[T] \in Int
<1> DEFINE bad == {T \in SUBSET S : s[T] \notin Int}
<1> SUFFICES ASSUME bad # {} PROVE FALSE
  OBVIOUS
<1>1. PICK T \in bad : \A x \in T : T \ {x} \notin bad
  BY SmallestSet
<1>2. s[T] = IF T = {} THEN 0 ELSE v[Pick(T)] + s[T \ {Pick(T)}]
  BY DEF Sums
<1>3. T # {} /\ Pick(T) \in T /\ Pick(T) \in S
  BY <1>2, PickIn
<1>4. T \ {Pick(T)} \in SUBSET S /\ s[T \ {Pick(T)}] \in Int
  BY <1>1, <1>3
<1>5. QED
  BY <1>2, <1>3, <1>4

(* One element changed: the sum changes by as much. *)
LEMMA SumsChange ==
    ASSUME NEW S, IsFiniteSet(S), NEW v \in [S -> Int], NEW w \in [S -> Int],
           NEW s, Sums(v, S, s), NEW t, Sums(w, S, t),
           NEW x \in S, \A y \in S : y # x => w[y] = v[y]
    PROVE  t[S] = s[S] + w[x] - v[x]
<1> DEFINE d(T) == IF x \in T THEN w[x] - v[x] ELSE 0
           bad == {T \in SUBSET S : t[T] # s[T] + d(T)}
<1>1. \A T \in SUBSET S : s[T] \in Int /\ t[T] \in Int
  BY SumsInt
<1>2. ASSUME bad # {} PROVE FALSE
  <2>1. PICK T \in bad : \A y \in T : T \ {y} \notin bad
    BY <1>2, SmallestSet
  <2> DEFINE p == Pick(T)
             U == T \ {p}
  <2>2. /\ s[T] = IF T = {} THEN 0 ELSE v[p] + s[U]
        /\ t[T] = IF T = {} THEN 0 ELSE w[p] + t[U]
    BY DEF Sums
  <2>3. T # {}
    BY <2>2
  <2>4. p \in T /\ p \in S /\ U \in SUBSET S
    BY <2>3, PickIn
  <2>5. t[U] = s[U] + d(U)
    BY <2>1, <2>4
  <2>6. v[p] \in Int /\ w[p] \in Int /\ v[x] \in Int /\ w[x] \in Int
    BY <2>4
  <2>7. d(T) = w[p] - v[p] + d(U)
    BY <2>4, <2>6
  <2>8. d(U) \in Int /\ s[U] \in Int
    BY <1>1, <2>4, <2>6
  <2>9. t[T] = s[T] + d(T)
    <3> HIDE DEF d, U, p
    <3>1. QED
      BY <2>2, <2>3, <2>5, <2>6, <2>7, <2>8
  <2>10. QED
    BY <2>9
<1>3. t[S] = s[S] + d(S)
  BY <1>2
<1>4. v[x] \in Int /\ w[x] \in Int
  OBVIOUS
<1>5. QED
  BY <1>1, <1>3, <1>4

LEMMA SumsZero ==
    ASSUME NEW S, IsFiniteSet(S), NEW v \in [S -> Int], NEW s, Sums(v, S, s),
           \A x \in S : v[x] = 0
    PROVE  s[S] = 0
<1> DEFINE bad == {T \in SUBSET S : s[T] # 0}
<1> SUFFICES ASSUME bad # {} PROVE FALSE
  OBVIOUS
<1>1. PICK T \in bad : \A x \in T : T \ {x} \notin bad
  BY SmallestSet
<1>2. s[T] = IF T = {} THEN 0 ELSE v[Pick(T)] + s[T \ {Pick(T)}]
  BY DEF Sums
<1>3. T # {} /\ Pick(T) \in T /\ Pick(T) \in S
  BY <1>2, PickIn
<1>4. s[T \ {Pick(T)}] = 0
  BY <1>1, <1>3
<1>5. QED
  BY <1>2, <1>3, <1>4

(* The sum of v over S. *)
SumOf(v, S) == (CHOOSE s : Sums(v, S, s))[S]

LEMMA SumOfInt ==
    ASSUME NEW S, IsFiniteSet(S), NEW v \in [S -> Int]
    PROVE  SumOf(v, S) \in Int
<1> DEFINE s == CHOOSE u : Sums(v, S, u)
<1>1. Sums(v, S, s)
  BY SumsExist
<1> HIDE DEF s
<1>2. s[S] \in Int
  BY <1>1, SumsInt
<1>3. QED
  BY <1>2 DEF SumOf, s

LEMMA SumOfZero ==
    ASSUME NEW S, IsFiniteSet(S), NEW v \in [S -> Int], \A x \in S : v[x] = 0
    PROVE  SumOf(v, S) = 0
<1> DEFINE s == CHOOSE u : Sums(v, S, u)
<1>1. Sums(v, S, s)
  BY SumsExist
<1> HIDE DEF s
<1>2. s[S] = 0
  BY <1>1, SumsZero
<1>3. QED
  BY <1>2 DEF SumOf, s

LEMMA SumOfChange ==
    ASSUME NEW S, IsFiniteSet(S), NEW v \in [S -> Int], NEW w \in [S -> Int],
           NEW x \in S, \A y \in S : y # x => w[y] = v[y]
    PROVE  SumOf(w, S) = SumOf(v, S) + w[x] - v[x]
<1> DEFINE s == CHOOSE u : Sums(v, S, u)
           t == CHOOSE u : Sums(w, S, u)
<1>1. Sums(v, S, s) /\ Sums(w, S, t)
  BY SumsExist
<1> HIDE DEF s, t
<1>2. t[S] = s[S] + w[x] - v[x]
  BY <1>1, SumsChange
<1>3. QED
  BY <1>2 DEF SumOf, s, t

-----------------------------------------------------------------------------
(* The flushes in progress *)

(* A step of the flusher moves a value, and changes nothing but where it is. *)
LEMMA FlushStepExact ==
    ASSUME Fault = {}, TypeOK, NEW f \in Flusher, FlushStep(f),
           NEW q \in Question
    PROVE  /\ stored'[q] + pending'[q] - Both(f, q)' = stored[q] + pending[q] - Both(f, q)
           /\ reads' = reads
<1>1. /\ stored[q] \in Int /\ pending[q] \in Int
      /\ \A p \in Question : flush[f].value[p] \in Int
  BY FlushFields DEF TypeOK
<1>2. NotRunning.pc = "off"
  BY DEF NotRunning
<1>3. CASE Start(f)
  <2>1. flush[f].pc # "subtract" /\ flush'[f].pc # "subtract"
    BY <1>3 DEF Start, TypeOK, NotRunning
  <2>2. QED
    BY <1>3, <2>1 DEF Start, Both, postgres, redis
<1>4. CASE Scan(f)
  <2>1. flush[f].pc # "subtract" /\ flush'[f].pc # "subtract"
    BY <1>2, <1>4 DEF Scan, Ends, TypeOK
  <2>2. QED
    BY <1>4, <2>1 DEF Scan, Both, postgres, redis
<1>5. CASE WriteStored(f)
  <2>1. flush[f].pc # "subtract" /\ Both(f, q) = 0 /\ pending' = pending /\ reads' = reads
    BY <1>5 DEF WriteStored, Both, redis
  <2>2. PICK p \in flush[f].todo :
            IF p \in exists
              THEN /\ stored' = [stored EXCEPT ![p] = @ + flush[f].value[p]]
                   /\ flush' = [flush EXCEPT ![f] = [@ EXCEPT !.pc = "subtract", !.at = p]]
              ELSE Ends(f) /\ UNCHANGED stored
    BY <1>5 DEF WriteStored
  <2>3. CASE Ends(f) /\ UNCHANGED stored
    <3>1. flush'[f].pc # "subtract"
      BY <1>2, <2>3 DEF Ends, TypeOK
    <3>2. QED
      BY <2>1, <2>3, <3>1 DEF Both
  <2>4. CASE /\ stored' = [stored EXCEPT ![p] = @ + flush[f].value[p]]
             /\ flush' = [flush EXCEPT ![f] = [@ EXCEPT !.pc = "subtract", !.at = p]]
    <3>1. /\ flush'[f].pc = "subtract" /\ flush'[f].at = p
          /\ flush'[f].value = flush[f].value
      BY <2>4 DEF TypeOK, Flush
    <3>2. p \in Question /\ flush[f].value[p] \in Int
      BY FlushFields
    <3>3. stored'[q] = stored[q] + (IF p = q THEN flush[f].value[q] ELSE 0)
      BY <1>1, <2>4, <3>2 DEF TypeOK
    <3>4. Both(f, q)' = IF p = q THEN flush[f].value[q] ELSE 0
      BY <3>1 DEF Both
    <3>5. QED
      BY <1>1, <2>1, <3>3, <3>4
  <2>5. QED
    BY <2>2, <2>3, <2>4
<1>6. CASE Subtract(f)
  <2> DEFINE p == flush[f].at
             v == flush[f].value[p]
  <2>1. p \in Question /\ v \in Int /\ flush[f].pc = "subtract"
    BY <1>6, FlushFields DEF Subtract
  <2>2. flush'[f].pc # "subtract"
    BY <1>6 DEF Subtract, Moved, TypeOK
  <2>3. /\ stored' = stored /\ reads' = reads
        /\ pending' = [pending EXCEPT ![p] = @ + (-v)]
    BY <1>6 DEF Subtract, HIncrBy, postgres
  <2>4. pending'[q] = pending[q] - (IF p = q THEN v ELSE 0)
    BY <1>1, <2>1, <2>3 DEF TypeOK
  <2>5. Both(f, q) = (IF p = q THEN v ELSE 0) /\ Both(f, q)' = 0
    BY <2>1, <2>2 DEF Both
  <2> HIDE DEF p, v
  <2>6. QED
    BY <1>1, <2>1, <2>3, <2>4, <2>5
<1>7. ~FlushFails(f)
  BY DEF FlushFails, Fails
<1>8. QED
  BY <1>3, <1>4, <1>5, <1>6, <1>7 DEF FlushStep

Held(q) == [f \in Flusher |-> Both(f, q)]

LEMMA HeldType ==
    ASSUME TypeOK, NEW q \in Question
    PROVE  Held(q) \in [Flusher -> Int]
<1>1. \A f \in Flusher : Both(f, q) \in Int
  BY FlushFields DEF Both
<1>2. QED
  BY <1>1 DEF Held

LEMMA HeldTypeNext ==
    ASSUME TypeOK', NEW q \in Question
    PROVE  Held(q)' \in [Flusher -> Int]
<1>1. \A f \in Flusher : Both(f, q)' \in Int
  BY DEF TypeOK, Flush, Both
<1>2. QED
  BY <1>1 DEF Held

(* The fold of the community modules is the sum of the lemmas above. *)
LEMMA InFlightIsSum ==
    ASSUME NEW q
    PROVE  InFlight(q) = SumOf(Held(q), Flusher) /\ InFlight(q)' = SumOf(Held(q)', Flusher)
<1>1. InFlight(q) = SumOf(Held(q), Flusher)
  BY DEF InFlight, MapThenSumSet, MapThenFoldSet, SumOf, Sums, Pick, Held
<1>2. InFlight(q)' = SumOf(Held(q)', Flusher)
  BY DEF InFlight, MapThenSumSet, MapThenFoldSet, SumOf, Sums, Pick, Held
<1>3. QED
  BY <1>1, <1>2

LEMMA InFlightType ==
    ASSUME TypeOK, NEW q \in Question
    PROVE  InFlight(q) \in Int
BY HeldType, InFlightIsSum, SumOfInt, FlusherAssumption

(* A step of one flusher changes the sum by what changes at that flusher. *)
LEMMA InFlightChange ==
    ASSUME TypeOK, TypeOK', NEW f \in Flusher, NEW q \in Question,
           \A g \in Flusher : g # f => flush'[g] = flush[g]
    PROVE  InFlight(q)' = InFlight(q) + Both(f, q)' - Both(f, q)
<1> DEFINE v == Held(q)
           w == Held(q)'
<1>1. v \in [Flusher -> Int] /\ w \in [Flusher -> Int]
  BY HeldType, HeldTypeNext
<1>2. \A g \in Flusher : g # f => w[g] = v[g]
  BY DEF Held, Both
<1>3. v[f] = Both(f, q) /\ w[f] = Both(f, q)'
  BY DEF Held
<1>4. InFlight(q) = SumOf(v, Flusher) /\ InFlight(q)' = SumOf(w, Flusher)
  BY InFlightIsSum
<1> HIDE DEF v, w
<1>5. SumOf(w, Flusher) = SumOf(v, Flusher) + w[f] - v[f]
  BY <1>1, <1>2, SumOfChange, FlusherAssumption
<1>6. QED
  BY <1>3, <1>4, <1>5

-----------------------------------------------------------------------------
(* The balance *)

ExactInv == \A q \in Question : stored[q] + pending[q] - InFlight(q) = reads[q]

LEMMA ExactInit == Init => ExactInv
<1> SUFFICES ASSUME Init, NEW q \in Question PROVE stored[q] + pending[q] - InFlight(q) = reads[q]
  BY DEF ExactInv
<1>1. stored[q] = 0 /\ pending[q] = 0 /\ reads[q] = 0
  BY ZeroType DEF Init
<1>2. \A f \in Flusher : Held(q)[f] = 0
  BY DEF Init, NotRunning, Held, Both
<1>3. Held(q) \in [Flusher -> Int]
  BY InitType, HeldType
<1>4. InFlight(q) = 0
  BY <1>2, <1>3, SumOfZero, InFlightIsSum, FlusherAssumption
<1>5. QED
  BY <1>1, <1>4

LEMMA InFlightFrame ==
    ASSUME flush' = flush, NEW q \in Question
    PROVE  InFlight(q)' = InFlight(q)
<1>1. Held(q)' = Held(q)
  BY DEF Held, Both
<1>2. QED
  BY <1>1, InFlightIsSum

LEMMA FlushStepOther ==
    ASSUME TypeOK, NEW f \in Flusher, FlushStep(f)
    PROVE  /\ \A g \in Flusher : g # f => flush'[g] = flush[g]
           /\ reads' = reads
<1>1. CASE Start(f)
  BY <1>1 DEF Start, TypeOK
<1>2. CASE Scan(f)
  BY <1>2 DEF Scan, Ends, TypeOK
<1>3. CASE WriteStored(f)
  BY <1>3 DEF WriteStored, Ends, TypeOK
<1>4. CASE Subtract(f)
  BY <1>4 DEF Subtract, Moved, TypeOK
<1>5. CASE FlushFails(f)
  BY <1>5 DEF FlushFails, Ends, TypeOK
<1>6. QED
  BY <1>1, <1>2, <1>3, <1>4, <1>5 DEF FlushStep

(* The total moves with the reads alone. *)
LEMMA ExactNext ==
    ASSUME Fault = {}
    PROVE  TypeOK /\ TypeOK' /\ ExactInv /\ [Next]_vars =>
               ExactInv' /\ [\E q \in Question : reads' = [reads EXCEPT ![q] = @ + 1]]_reads
<1> SUFFICES ASSUME TypeOK, TypeOK', ExactInv, [Next]_vars
             PROVE  ExactInv' /\ [\E q \in Question : reads' = [reads EXCEPT ![q] = @ + 1]]_reads
  OBVIOUS
<1>1. CASE UNCHANGED <<stored, pending, flush, reads>>
  BY <1>1, InFlightFrame DEF ExactInv
<1>2. ASSUME NEW f \in Flusher, FlushStep(f) PROVE ExactInv' /\ reads' = reads
  <2>1. reads' = reads
    BY <1>2, FlushStepOther
  <2>2. ASSUME NEW q \in Question
        PROVE  stored'[q] + pending'[q] - InFlight(q)' = reads'[q]
    <3>1. stored'[q] + pending'[q] - Both(f, q)' = stored[q] + pending[q] - Both(f, q)
      BY <1>2, FlushStepExact
    <3>2. InFlight(q)' = InFlight(q) + Both(f, q)' - Both(f, q)
      BY <1>2, FlushStepOther, InFlightChange
    <3>3. stored[q] + pending[q] - InFlight(q) = reads[q]
      BY DEF ExactInv
    <3>4. /\ Both(f, q) \in Int /\ Both(f, q)' \in Int
          /\ stored[q] \in Int /\ pending[q] \in Int
          /\ stored'[q] \in Int /\ pending'[q] \in Int
      BY DEF TypeOK, Flush, Both
    <3>5. InFlight(q) \in Int
      BY InFlightType
    <3> HIDE DEF Both
    <3>6. QED
      BY <2>1, <3>1, <3>2, <3>3, <3>4, <3>5
  <2>3. QED
    BY <2>1, <2>2 DEF ExactInv
<1>3. ASSUME NEW r \in Request, Incr(r)
      PROVE  ExactInv' /\ \E q \in Question : reads' = [reads EXCEPT ![q] = @ + 1]
  <2> DEFINE p == call[r].question
  <2>1. p \in Question
    BY <1>3 DEF Incr, TypeOK
  <2>2. /\ pending' = [pending EXCEPT ![p] = @ + 1] /\ reads' = [reads EXCEPT ![p] = @ + 1]
        /\ stored' = stored /\ flush' = flush
    BY <1>3 DEF Incr, HIncrBy, postgres
  <2>3. ASSUME NEW q \in Question PROVE stored'[q] + pending'[q] - InFlight(q)' = reads'[q]
    <3>1. /\ pending'[q] = pending[q] + (IF q = p THEN 1 ELSE 0)
          /\ reads'[q] = reads[q] + (IF q = p THEN 1 ELSE 0)
          /\ pending[q] \in Int /\ stored[q] \in Int /\ reads[q] \in Int
      BY <2>1, <2>2 DEF TypeOK
    <3>2. InFlight(q)' = InFlight(q) /\ InFlight(q) \in Int
      BY <2>2, InFlightFrame, InFlightType
    <3>3. stored[q] + pending[q] - InFlight(q) = reads[q]
      BY DEF ExactInv
    <3>4. QED
      BY <2>2, <3>1, <3>2, <3>3
  <2>4. QED
    BY <2>1, <2>2, <2>3 DEF ExactInv
<1>4. ASSUME NEW r \in Request, RequestStep(r), ~Incr(r)
      PROVE  UNCHANGED <<stored, pending, flush, reads>>
  BY <1>4 DEF RequestStep, FindQuestion, Return, postgres, redis
<1>5. ASSUME NEW q \in Question, DeleteQuestion(q)
      PROVE  UNCHANGED <<stored, pending, flush, reads>>
  BY <1>5 DEF DeleteQuestion, redis
<1>6. CASE UNCHANGED vars
  BY <1>1, <1>6 DEF vars, postgres, redis
<1>7. QED
  BY <1>1, <1>2, <1>3, <1>4, <1>5, <1>6 DEF Next

(* Without failures row and field together, less what is in both, are a      *)
(* ReadTally, for any number of processes that run handler over the same     *)
(* hash at a time: one more with each question_detail, and the same after    *)
(* each step of a flush (update_read_count adds before it takes).            *)
THEOREM FlushersKeepTally ==
    ASSUME Fault = {}
    PROVE  Spec => ImplementsTally
<1> DEFINE total == [q \in Question |-> stored[q] + pending[q] - InFlight(q)]
<1>1. TypeOK /\ ExactInv => total = reads
  BY DEF ExactInv, TypeOK
<1>2. TypeOK' /\ ExactInv' => total' = reads'
  <2>1. ASSUME TypeOK', ExactInv' PROVE \A q \in Question : total'[q] = reads'[q]
    BY <2>1 DEF ExactInv
  <2>2. QED
    BY <2>1 DEF TypeOK
<1>3. Init => Tally!Init
  <2>1. Init => reads = [q \in Question |-> 0]
    BY DEF Init, Zero
  <2>2. QED
    BY <1>1, <2>1, InitType, ExactInit DEF Tally!Init
<1>4. TypeOK /\ ExactInv /\ TypeOK' /\ ExactInv' /\ [Next]_vars
        => [\E q \in Question : Tally!Read(q)]_total
  BY <1>1, <1>2, ExactNext DEF Tally!Read
<1>5. QED
  BY <1>3, <1>4, ExactInit, ExactNext, InitType, NextType, PTL
     DEF Spec, ImplementsTally, Tally!Spec
=============================================================================
