---------------------------- MODULE ServiceProofs ----------------------------
(* Proofs about Service, for any requests, flushes, pool, threads and bounds. *)
EXTENDS Service, TLAPS

-----------------------------------------------------------------------------
(* What the gateway and the handlers may answer. *)

ClientErrors == {"InvalidArgument", "NotFound", "Unauthenticated", "PermissionDenied"}
Statuses == {0, 200, 400, 401, 403, 404, 405, 415, 500}

(* A reply that keeps what its code says. *)
Sound(m, c, e) == /\ c \in ClientErrors => ~e
                  /\ c = "OK" /\ m \in Promises => e

HandlerReplies(m, t) == RepliesAtOnce(m, t) \cup RepliesWithRedis(m, t)

(* A failed attempt may have had an effect only behind a code that is not    *)
(* the client's fault, and OK of a method that promises a change has one.    *)
LEMMA RepliesAreSound ==
    ASSUME NEW m \in Methods, NEW t \in Token, NEW reply,
           reply \in HandlerReplies(m, t) \/ reply = ReplyWithoutRedis(m)
    PROVE  reply \in Reply /\ reply.code # "Lost" /\ Sound(m, reply.code, reply.effect)
<1> USE DEF Reply, Codes, Done, Undone, Either, Sound, ClientErrors, Promises
<1>1. CASE reply \in RepliesAtOnce(m, t)
  <2>1. CASE m \in {"user_register", "add_question", "add_answer"}
    BY <1>1, <2>1 DEF RepliesAtOnce, AddReplies, RegisterReplies
  <2>2. CASE m \in {"update_question", "delete_question", "update_answer",
                    "delete_answer", "agree_answer"}
    BY <1>1, <2>2 DEF RepliesAtOnce, ChangeReplies, AgreeReplies
  <2>3. CASE m \in {"latest_question", "answer_list", "answer_detail", "question_detail", "user_login"}
    BY <1>1, <2>3 DEF RepliesAtOnce, ReadReplies, LoginRefusals
  <2>4. CASE m \in {"verify_token", "user_logout"}
    BY <1>1, <2>4 DEF RepliesAtOnce, TokenErrors
  <2>5. CASE m = "answer_agree"
    BY <1>1, <2>5 DEF RepliesAtOnce
  <2>6. QED BY <2>1, <2>2, <2>3, <2>4, <2>5 DEF Methods
<1>2. CASE reply \in RepliesWithRedis(m, t)
  BY <1>2 DEF RepliesWithRedis, Methods, Token
<1>3. CASE reply = ReplyWithoutRedis(m)
  BY <1>3 DEF ReplyWithoutRedis
<1>4. QED BY <1>1, <1>2, <1>3 DEF HandlerReplies

(* verify_token changes nothing and names a user only for a good token. *)
LEMMA VerificationIsHarmless ==
    ASSUME NEW t \in Token, NEW reply,
           reply \in HandlerReplies("verify_token", t) \/ reply = ReplyWithoutRedis("verify_token")
    PROVE  ~reply.effect /\ (reply.code = "OK" => t = "live")
<1> USE DEF Done, Undone, Either
<1>1. CASE reply \in RepliesAtOnce("verify_token", t)
  BY <1>1 DEF RepliesAtOnce, TokenErrors, Token
<1>2. CASE reply \in RepliesWithRedis("verify_token", t)
  BY <1>2 DEF RepliesWithRedis, Token
<1>3. CASE reply = ReplyWithoutRedis("verify_token")
  BY <1>3 DEF ReplyWithoutRedis
<1>4. QED BY <1>1, <1>2, <1>3 DEF HandlerReplies

LEMMA StatusFacts ==
    ASSUME NEW c \in Codes
    PROVE  /\ GrpcStatus(c) \in Statuses /\ VerificationStatus(c) \in Statuses
           /\ GrpcStatus(c) # 200 /\ VerificationStatus(c) # 200
           /\ GrpcStatus(c) \in 400..499 => c \in ClientErrors
BY DEF Codes, GrpcStatus, VerificationStatus, Statuses, ClientErrors

LEMMA OwnStatusType ==
    ASSUME NEW h \in Http
    PROVE  OwnStatus(h) \in Statuses
BY DEF OwnStatus, RejectionStatus, Statuses

LEMMA MethodType ==
    ASSUME NEW h \in Http, Forwards(h)
    PROVE  Method(h.route) \in Methods
BY DEF Forwards, Method, Methods, QuestionMethod, AnswerMethod, Handlers, UserHandlers,
       QuestionHandlers, AnswerHandlers

-----------------------------------------------------------------------------
(* Types. *)

ProcessType == /\ up \in [Process -> {"building", "running", "exited"}]
               /\ server \in [Process -> TaskState] /\ metrics \in [Process -> TaskState]
               /\ signals \in [Process -> 0..MaxSignals]
               /\ restarts \in [Process -> 0..MaxRestarts]
               /\ kills \subseteq Process /\ cut \subseteq Process

RequestType == /\ http \in [Requests -> Asked] /\ step \in [Requests -> Step]
               /\ status \in [Requests -> Statuses]

CallType == /\ at \in [Requests -> Place] /\ method \in [Requests -> Methods]
            /\ code \in [Requests -> Codes] /\ effect \in [Requests -> BOOLEAN]

FlushType == /\ flush \in [Flushers -> {"idle", "entering", "holding", "asking", "over"}]
             /\ left \in [Flushers -> 0..MaxFields]

LEMMA TypeParts == TypeOK <=> ProcessType /\ RequestType /\ CallType /\ FlushType
BY DEF TypeOK, ProcessType, RequestType, CallType, FlushType, Statuses

LEMMA TypePartsNext == ProcessType' /\ RequestType' /\ CallType' /\ FlushType' => TypeOK'
BY DEF TypeOK, ProcessType, RequestType, CallType, FlushType, Statuses

LEMMA ProcessUnchanged == ProcessType /\ UNCHANGED process => ProcessType'
BY DEF ProcessType, process, task, plan

LEMMA CallUnchanged == CallType /\ UNCHANGED call => CallType'
BY DEF CallType, call

LEMMA FlushUnchanged == FlushType /\ UNCHANGED flushes => FlushType'
BY DEF FlushType, flushes

LEMMA RequestUnchanged == RequestType /\ UNCHANGED <<http, request>> => RequestType'
BY DEF RequestType, request

LEMMA StepTypes ==
    ASSUME RequestType, NEW r \in Requests, UNCHANGED http
    PROVE  /\ \A s \in Step : step' = [step EXCEPT ![r] = s] /\ UNCHANGED status => RequestType'
           /\ \A s \in Statuses : Answer(r, s) => RequestType'
BY DEF RequestType, Answer, Step, Statuses

LEMMA SendType ==
    ASSUME CallType, NEW r \in Requests, NEW m \in Methods, Send(r, m)
    PROVE  CallType'
BY DEF CallType, Send, Place, Codes

LEMMA ForgetType ==
    ASSUME CallType, NEW r \in Requests, Forget(r)
    PROVE  CallType'
BY DEF CallType, Forget, Place, Codes

LEMMA ReplyWithType ==
    ASSUME CallType, NEW r \in Requests, NEW reply \in Reply, ReplyWith(r, reply)
    PROVE  CallType'
<1>1. reply.code \in Codes /\ reply.effect \in BOOLEAN
  BY DEF Reply
<1>2. at' \in [Requests -> Place] /\ method' \in [Requests -> Methods]
  BY DEF CallType, ReplyWith, Place
<1>3. code' \in [Requests -> Codes]
  BY <1>1 DEF CallType, ReplyWith, Codes
<1>4. effect' \in [Requests -> BOOLEAN]
  BY <1>1 DEF CallType, ReplyWith
<1>5. QED BY <1>2, <1>3, <1>4 DEF CallType

LEMMA AbandonType ==
    ASSUME CallType, NEW R, Abandon(R)
    PROVE  CallType'
<1>1. at' \in [Requests -> Place] /\ code' \in [Requests -> Codes]
  BY DEF CallType, Abandon, Place, Codes
<1>2. QED BY <1>1 DEF CallType, Abandon

LEMMA BreakCallsType ==
    ASSUME CallType, BreakCalls
    PROVE  CallType'
<1>1. at' \in [Requests -> Place] /\ code' \in [Requests -> Codes]
  BY DEF CallType, BreakCalls, Place, Codes
<1>2. QED BY <1>1 DEF CallType, BreakCalls

LEMMA EndsType ==
    ASSUME TypeOK, NEW p \in Process, Ends(p)
    PROVE  /\ up' \in [Process -> {"building", "running", "exited"}]
           /\ server' \in [Process -> TaskState] /\ metrics' \in [Process -> TaskState]
           /\ restarts' \in [Process -> 0..MaxRestarts]
           /\ RequestType' /\ CallType' /\ FlushType'
<1>1. ProcessType /\ RequestType /\ CallType /\ FlushType
  BY TypeParts
<1>2. /\ up' \in [Process -> {"building", "running", "exited"}]
      /\ server' \in [Process -> TaskState] /\ metrics' \in [Process -> TaskState]
      /\ restarts' \in [Process -> 0..MaxRestarts]
  BY <1>1 DEF Ends, ProcessType, TaskState
<1>3. CASE p = "gateway"
  <2>1. CallType'
    BY <1>1, <1>3, AbandonType DEF Ends
  <2>2. RequestType'
    BY <1>1, <1>3 DEF Ends, RequestType, Step
  <2>3. FlushType'
    BY <1>1, <1>3, FlushUnchanged DEF Ends
  <2>4. QED BY <1>2, <2>1, <2>2, <2>3
<1>4. CASE p = "qa_svc"
  <2>1. CallType'
    BY <1>1, <1>4, BreakCallsType DEF Ends
  <2>2. RequestType'
    BY <1>1, <1>4, RequestUnchanged DEF Ends, request
  <2>3. FlushType'
    <3>1. flush' \in [Flushers -> {"idle", "entering", "holding", "asking", "over"}]
      BY <1>1, <1>4 DEF Ends, FlushType
    <3>2. left' \in [Flushers -> 0..MaxFields]
      BY <1>1, <1>4, SizeAssumption DEF Ends, FlushType
    <3>3. QED BY <3>1, <3>2 DEF FlushType
  <2>4. QED BY <1>2, <2>1, <2>2, <2>3
<1>5. QED BY <1>3, <1>4 DEF Process

LEMMA InitType == Init => TypeOK
<1> SUFFICES ASSUME Init PROVE TypeOK
  OBVIOUS
<1>1. ProcessType
  BY DEF Init, ProcessType, Process, TaskState
<1>2. RequestType
  BY DEF Init, RequestType, Step, Statuses
<1>3. CallType
  BY DEF Init, CallType, Place, Methods, Codes
<1>4. FlushType
  BY DEF Init, FlushType
<1>5. QED BY <1>1, <1>2, <1>3, <1>4, TypeParts

LEMMA GatewayStepType ==
    ASSUME TypeOK, NEW r \in Requests, GatewayStep(r) \/ Arrive(r)
    PROVE  TypeOK'
<1>1. ProcessType /\ RequestType /\ CallType /\ FlushType
  BY TypeParts
<1>2. http[r] \in Http /\ code[r] \in Codes
  BY <1>1, AskedAssumption DEF RequestType, CallType
<1>3. ProcessType' /\ FlushType' /\ UNCHANGED http
  BY <1>1, ProcessUnchanged, FlushUnchanged
     DEF GatewayStep, Arrive, Authenticate, Verified, Handle, Respond
<1>4. CASE Arrive(r)
  BY <1>1, <1>3, <1>4, StepTypes, CallUnchanged, TypePartsNext DEF Arrive, Step
<1>5. CASE Authenticate(r)
  <2>1. CallType'
    BY <1>1, <1>5, CallUnchanged, SendType DEF Authenticate, Methods
  <2>2. RequestType'
    BY <1>1, <1>3, <1>5, StepTypes DEF Authenticate, Step, Statuses
  <2>3. QED BY <1>3, <2>1, <2>2, TypePartsNext
<1>6. CASE Verified(r)
  <2>1. CallType'
    BY <1>1, <1>6, ForgetType DEF Verified
  <2>2. VerificationStatus(code[r]) \in Statuses
    BY <1>2, StatusFacts
  <2>3. RequestType'
    BY <1>1, <1>3, <1>6, <2>2, StepTypes DEF Verified, Step
  <2>4. QED BY <1>3, <2>1, <2>3, TypePartsNext
<1>7. CASE Handle(r)
  <2>1. CallType'
    BY <1>1, <1>2, <1>7, CallUnchanged, SendType, MethodType DEF Handle
  <2>2. RequestType'
    BY <1>1, <1>2, <1>3, <1>7, StepTypes, OwnStatusType DEF Handle, Step
  <2>3. QED BY <1>3, <2>1, <2>2, TypePartsNext
<1>8. CASE Respond(r)
  <2>1. CallType'
    BY <1>1, <1>8, ForgetType DEF Respond
  <2>2. GrpcStatus(code[r]) \in Statuses /\ 200 \in Statuses
    BY <1>2, StatusFacts DEF Statuses
  <2>3. RequestType'
    BY <1>1, <1>3, <1>8, <2>2, StepTypes DEF Respond
  <2>4. QED BY <1>3, <2>1, <2>3, TypePartsNext
<1>9. QED BY <1>4, <1>5, <1>6, <1>7, <1>8 DEF GatewayStep

LEMMA CallStepType ==
    ASSUME TypeOK, NEW r \in Requests,
           Dispatch(r) \/ FindSession(r) \/ UseRedis(r) \/ PoolTimeout(r)
    PROVE  TypeOK'
<1>1. ProcessType /\ RequestType /\ CallType /\ FlushType
  BY TypeParts
<1>2. http[r].token \in Token /\ method[r] \in Methods
  BY <1>1, AskedAssumption DEF RequestType, CallType, Http
<1>3. ProcessType' /\ RequestType' /\ FlushType'
  BY <1>1, ProcessUnchanged, RequestUnchanged, FlushUnchanged
     DEF Dispatch, FindSession, UseRedis, PoolTimeout
<1>4. \A reply \in HandlerReplies(method[r], http[r].token) : reply \in Reply
  BY <1>2, RepliesAreSound
<1>5. ReplyWithoutRedis(method[r]) \in Reply /\ Undone("AlreadyExists") \in Reply
  BY <1>2, RepliesAreSound DEF Undone, Reply, Codes
<1>6. ASSUME NEW s \in {"looking", "asking"},
             at' = [at EXCEPT ![r] = s], UNCHANGED <<method, code, effect>>
      PROVE  CallType'
  BY <1>1, <1>6 DEF CallType, Place
<1>7. CallType'
  <2>1. CASE Dispatch(r)
    BY <1>1, <1>4, <1>6, <2>1, ReplyWithType DEF Dispatch, HandlerReplies
  <2>2. CASE FindSession(r)
    BY <1>1, <1>5, <1>6, <2>2, ReplyWithType DEF FindSession
  <2>3. CASE UseRedis(r)
    BY <1>1, <1>4, <2>3, ReplyWithType DEF UseRedis, HandlerReplies
  <2>4. CASE PoolTimeout(r)
    BY <1>1, <1>5, <2>4, ReplyWithType DEF PoolTimeout
  <2>5. QED BY <2>1, <2>2, <2>3, <2>4
<1>8. QED BY <1>3, <1>7, TypePartsNext

LEMMA FlushStepType ==
    ASSUME TypeOK, NEW f \in Flushers, FlushStep(f)
    PROVE  TypeOK'
<1>1. ProcessType /\ RequestType /\ CallType /\ FlushType
  BY TypeParts
<1>2. ProcessType' /\ RequestType' /\ CallType'
  BY <1>1, ProcessUnchanged, RequestUnchanged, CallUnchanged
     DEF FlushStep, StartFlush, ScanFields, AddToRow, TakeOff, FlushTimeout
<1>3. left[f] \in Nat /\ left[f] <= MaxFields /\ MaxFields \in Nat
  BY <1>1, SizeAssumption DEF FlushType
<1>4. StopFlush(f) => FlushType'
  BY <1>1, <1>3 DEF StopFlush, FlushType
<1>5. CASE TakeOff(f)
  <2>1. CASE left[f] > 1
    <3>1. left[f] - 1 \in 0..MaxFields
      BY <1>3, <2>1
    <3>2. left' \in [Flushers -> 0..MaxFields]
      BY <1>1, <1>5, <2>1, <3>1 DEF TakeOff, FlushType
    <3>3. flush' \in [Flushers -> {"idle", "entering", "holding", "asking", "over"}]
      BY <1>1, <1>5, <2>1 DEF TakeOff, FlushType
    <3>4. QED BY <1>2, <3>2, <3>3, TypePartsNext DEF FlushType
  <2>2. CASE ~(left[f] > 1)
    BY <1>2, <1>4, <1>5, <2>2, TypePartsNext DEF TakeOff
  <2>3. QED BY <2>1, <2>2
<1>6. CASE StartFlush(f) \/ ScanFields(f) \/ AddToRow(f) \/ FlushTimeout(f)
  BY <1>1, <1>2, <1>4, <1>6, TypePartsNext
     DEF StartFlush, ScanFields, AddToRow, FlushTimeout, FlushType
<1>7. QED BY <1>5, <1>6 DEF FlushStep

LEMMA ProcessStepType ==
    ASSUME TypeOK, NEW p \in Process, ProcessStep(p) \/ BuildPools
    PROVE  TypeOK'
<1>1. ProcessType /\ RequestType /\ CallType /\ FlushType
  BY TypeParts
<1>2. CASE Ends(p) /\ kills' \subseteq kills /\ cut' \subseteq cut \cup {p}
           /\ signals' \in [Process -> 0..MaxSignals]
  BY <1>1, <1>2, EndsType, TypePartsNext DEF ProcessType
<1>3. signals[p] \in 0..MaxSignals /\ restarts[p] \in 0..MaxRestarts
  BY <1>1 DEF ProcessType
<1>4. CASE MainReturns(p) \/ Crash(p)
  BY <1>1, <1>2, <1>4 DEF MainReturns, Crash, ProcessType
<1>5. CASE Signal(p)
  <2>1. signals' \in [Process -> 0..MaxSignals]
    <3>1. signals[p] - 1 \in 0..MaxSignals
      BY <1>3, <1>5, SizeAssumption DEF Signal
    <3>2. QED BY <1>1, <1>5, <3>1 DEF Signal, ProcessType
  <2>2. CASE Ends(p) /\ cut' = cut \cup {p}
    BY <1>2, <1>5, <2>1, <2>2 DEF Signal
  <2>3. CASE /\ server' = [server EXCEPT ![p] = Listening(@)]
             /\ metrics' = [metrics EXCEPT ![p] = Listening(@)]
             /\ UNCHANGED <<up, restarts, cut, http, request, call, flushes>>
    <3>1. Listening(server[p]) \in TaskState /\ Listening(metrics[p]) \in TaskState
      BY <1>1 DEF Listening, ProcessType, TaskState
    <3>2. ProcessType'
      BY <1>1, <1>5, <2>1, <2>3, <3>1 DEF ProcessType, Signal
    <3>3. QED BY <1>1, <2>3, <3>2, RequestUnchanged, CallUnchanged, FlushUnchanged, TypePartsNext
  <2>4. QED BY <1>5, <2>2, <2>3 DEF Signal
<1>6. CASE Restart(p)
  <2>1. restarts[p] - 1 \in 0..MaxRestarts
    BY <1>3, <1>6, SizeAssumption DEF Restart
  <2>2. ProcessType'
    BY <1>1, <1>6, <2>1 DEF Restart, ProcessType, TaskState
  <2>3. QED BY <1>1, <1>6, <2>2, RequestUnchanged, CallUnchanged, FlushUnchanged, TypePartsNext DEF Restart
<1>7. CASE BuildPools \/ ServerStep(p) \/ MetricsStep(p)
  <2>1. ProcessType'
    BY <1>1, <1>7 DEF BuildPools, ServerStep, MetricsStep, ServerStarts, StopAccepting, ServerStops,
       MetricsStart, MetricsStops, ProcessType, TaskState, task, plan
  <2>2. UNCHANGED <<http, request, call, flushes>>
    BY <1>7 DEF BuildPools, ServerStep, MetricsStep, ServerStarts, StopAccepting, ServerStops,
       MetricsStart, MetricsStops
  <2>3. QED BY <1>1, <2>1, <2>2, RequestUnchanged, CallUnchanged, FlushUnchanged, TypePartsNext
<1>8. QED BY <1>4, <1>5, <1>6, <1>7 DEF ProcessStep

LEMMA TypeStep == TypeOK /\ [Next]_vars => TypeOK'
<1> SUFFICES ASSUME TypeOK, [Next]_vars PROVE TypeOK'
  OBVIOUS
<1>1. ProcessType /\ RequestType /\ CallType /\ FlushType
  BY TypeParts
<1>2. ASSUME NEW r \in Requests, VerificationTimeout(r) \/ ClientLeaves(r)
      PROVE  TypeOK'
  <2>1. ProcessType' /\ FlushType' /\ CallType'
    BY <1>1, <1>2, ProcessUnchanged, FlushUnchanged, AbandonType DEF VerificationTimeout, ClientLeaves
  <2>2. RequestType'
    BY <1>1, <1>2, StepTypes DEF VerificationTimeout, ClientLeaves, Step, Statuses
  <2>3. QED BY <2>1, <2>2, TypePartsNext
<1>3. ASSUME NEW r \in Requests, RequestStep(r)
      PROVE  TypeOK'
  BY <1>2, <1>3, GatewayStepType, CallStepType DEF RequestStep
<1>4. CASE UNCHANGED vars
  BY <1>1, <1>4, ProcessUnchanged, RequestUnchanged, CallUnchanged, FlushUnchanged, TypePartsNext DEF vars
<1>5. CASE BuildPools
  BY <1>5, ProcessStepType DEF Process
<1>6. QED BY <1>3, <1>4, <1>5, FlushStepType, ProcessStepType DEF Next

(* The two processes, their requests and calls keep their types. *)
THEOREM TypeCorrect == Spec => []TypeOK
BY InitType, TypeStep, PTL DEF Spec

-----------------------------------------------------------------------------
(* The inductive invariant of one request: h is what it asks, st its step, s *)
(* its status; a, m, c place, method and code of its call; e its effect.  It *)
(* says at each step what was checked before and what may have been done.    *)

MayChange(h) == Forwards(h) /\ (IsPublicPath(h.route) \/ h.token = "live")

StatusFits(h, s, e) ==
    /\ s \in 400..499 => ~e
    /\ s = 200 /\ Forwards(h) /\ Method(h.route) \in Promises => e

StepInv(h, st, s, a, m, c, e) ==
    /\ st \in {"none", "arrived", "routed"} => a = "none"
    /\ st \in {"none", "arrived", "verifying", "routed"} => ~e
    /\ st = "verifying" => /\ m = "verify_token" /\ a # "none"
                           /\ a = "replied" /\ c = "OK" => h.token = "live"
    /\ st = "routed" => IsPublicPath(h.route) \/ h.token = "live"
    /\ st = "forwarded" => /\ m = Method(h.route) /\ MayChange(h) /\ a # "none"
                           /\ IF a = "replied" THEN Sound(m, c, e) ELSE ~e
    /\ st = "answered" => StatusFits(h, s, e) /\ (a # "none" => m = "verify_token")
    /\ st # "answered" => s = 0

(* Every call that is in progress was allowed, whoever still waits for it.   *)
CallInv(h, a, m, e) ==
    /\ a \in InProgress => ~e /\ (m = "verify_token" \/ MayChange(h))
    /\ e => MayChange(h)

ReqInv(h, st, s, a, m, c, e) == StepInv(h, st, s, a, m, c, e) /\ CallInv(h, a, m, e)

RInv == \A r \in Requests :
            ReqInv(http[r], step[r], status[r], at[r], method[r], code[r], effect[r])

LEMMA RInvImplies == RInv => StatusTellsEffect /\ EffectWasAllowed
<1> SUFFICES ASSUME RInv PROVE StatusTellsEffect /\ EffectWasAllowed
  OBVIOUS
<1>1. ASSUME NEW r \in Requests
      PROVE  StatusFits(http[r], status[r], effect[r])
  <2>1. CASE step[r] = "answered"
    BY <2>1 DEF RInv, ReqInv, StepInv
  <2>2. CASE step[r] # "answered"
    BY <2>2 DEF RInv, ReqInv, StepInv, StatusFits
  <2>3. QED BY <2>1, <2>2
<1>2. \A r \in Requests : effect[r] => MayChange(http[r])
  BY DEF RInv, ReqInv, CallInv
<1>3. StatusTellsEffect
  BY <1>1, Zenon DEF StatusTellsEffect, StatusFits
<1>4. EffectWasAllowed
  BY <1>2, Zenon DEF EffectWasAllowed, MayChange
<1>5. QED BY <1>3, <1>4

LEMMA InitRInv == Init => RInv
<1> SUFFICES ASSUME Init, NEW r \in Requests
             PROVE  ReqInv(http[r], step[r], status[r], at[r], method[r], code[r], effect[r])
  BY DEF RInv
<1>1. step[r] \in {"none", "gone"} /\ status[r] = 0 /\ at[r] = "none" /\ effect[r] = FALSE
  BY DEF Init
<1>2. QED BY <1>1 DEF ReqInv, StepInv, CallInv, InProgress, Blocked

(* A step of one request leaves the others as they are. *)
LEMMA OthersKeep ==
    ASSUME TypeOK, RInv, NEW r \in Requests, UNCHANGED http,
           \A q \in Requests \ {r} :
               /\ step'[q] = step[q] /\ status'[q] = status[q] /\ at'[q] = at[q]
               /\ method'[q] = method[q] /\ code'[q] = code[q] /\ effect'[q] = effect[q],
           ReqInv(http[r], step'[r], status'[r], at'[r], method'[r], code'[r], effect'[r])
    PROVE  RInv'
<1> SUFFICES ASSUME NEW q \in Requests
             PROVE  ReqInv(http[q], step'[q], status'[q], at'[q], method'[q], code'[q], effect'[q])
  BY DEF RInv
<1>1. CASE q = r
  BY <1>1
<1>2. CASE q # r
  <2>1. ReqInv(http[q], step[q], status[q], at[q], method[q], code[q], effect[q])
    BY DEF RInv
  <2>2. QED BY <1>2, <2>1
<1>3. QED BY <1>1, <1>2

LEMMA ArriveKeeps ==
    ASSUME TypeOK, RInv, NEW r \in Requests, Arrive(r)
    PROVE  RInv'
<1>1. ReqInv(http[r], step[r], status[r], at[r], method[r], code[r], effect[r])
  BY DEF RInv
<1>2. ReqInv(http[r], "arrived", status[r], at[r], method[r], code[r], effect[r])
  BY <1>1 DEF ReqInv, StepInv, CallInv, Arrive
<1>3. QED BY <1>2, OthersKeep DEF Arrive, call, TypeOK

LEMMA AuthenticateKeeps ==
    ASSUME TypeOK, RInv, NEW r \in Requests, Authenticate(r)
    PROVE  RInv'
<1>1. /\ ReqInv(http[r], step[r], status[r], at[r], method[r], code[r], effect[r])
      /\ step[r] = "arrived"
  BY DEF RInv, Authenticate
<1>2. at[r] = "none" /\ ~effect[r] /\ status[r] = 0
  BY <1>1 DEF ReqInv, StepInv
<1>3. CASE IsPublicPath(http[r].route) /\ step' = [step EXCEPT ![r] = "routed"] /\ UNCHANGED <<status, call>>
  <2>1. ReqInv(http[r], "routed", status[r], at[r], method[r], code[r], effect[r])
    BY <1>1, <1>2, <1>3 DEF ReqInv, StepInv, CallInv
  <2>2. QED BY <1>3, <2>1, OthersKeep DEF Authenticate, call, TypeOK
<1>4. CASE Answer(r, 401) /\ UNCHANGED call
  <2>1. ReqInv(http[r], "answered", 401, at[r], method[r], code[r], effect[r])
    BY <1>1, <1>2 DEF ReqInv, StepInv, CallInv, StatusFits
  <2>2. QED BY <1>4, <2>1, OthersKeep DEF Authenticate, Answer, call, TypeOK
<1>5. CASE step' = [step EXCEPT ![r] = "verifying"] /\ Send(r, "verify_token") /\ UNCHANGED status
  <2>1. \A a \in {"queued", "replied"} : \A c \in {"OK", "Unavailable"} :
           (a = "replied" => c = "Unavailable") =>
              ReqInv(http[r], "verifying", status[r], a, "verify_token", c, effect[r])
    BY <1>1, <1>2 DEF ReqInv, StepInv, CallInv
  <2>2. /\ at'[r] \in {"queued", "replied"} /\ code'[r] \in {"OK", "Unavailable"}
        /\ at'[r] = "replied" => code'[r] = "Unavailable"
        /\ method'[r] = "verify_token" /\ step'[r] = "verifying"
    BY <1>5 DEF Send, TypeOK
  <2>3. ReqInv(http[r], step'[r], status'[r], at'[r], method'[r], code'[r], effect'[r])
    BY <1>5, <2>1, <2>2 DEF Send
  <2>4. QED BY <1>5, <2>3, OthersKeep DEF Authenticate, Send, TypeOK
<1>6. QED BY <1>3, <1>4, <1>5 DEF Authenticate

LEMMA VerifiedKeeps ==
    ASSUME TypeOK, RInv, NEW r \in Requests, Verified(r)
    PROVE  RInv'
<1>1. /\ ReqInv(http[r], step[r], status[r], at[r], method[r], code[r], effect[r])
      /\ step[r] = "verifying" /\ at[r] = "replied"
  BY DEF RInv, Verified
<1>2. StepInv(http[r], "verifying", status[r], "replied", method[r], code[r], effect[r])
  BY <1>1 DEF ReqInv
<1>3. ~effect[r] /\ status[r] = 0
  BY <1>2 DEF StepInv
<1>4. code[r] = "OK" => http[r].token = "live"
  BY <1>2 DEF StepInv
<1>5. at'[r] = "none" /\ UNCHANGED <<http, method, effect>>
  BY DEF Verified, Forget, TypeOK
<1>6. CASE code[r] = "OK"
  <2>1. ReqInv(http[r], "routed", status[r], "none", method[r], "OK", effect[r])
    BY <1>3, <1>4, <1>6 DEF ReqInv, StepInv, CallInv, InProgress, Blocked
  <2>2. QED BY <1>5, <1>6, <2>1, OthersKeep DEF Verified, Forget, TypeOK
<1>7. CASE code[r] # "OK"
  <2>1. VerificationStatus(code[r]) # 200
    BY StatusFacts DEF TypeOK
  <2>2. ReqInv(http[r], "answered", VerificationStatus(code[r]), "none", method[r], "OK", effect[r])
    BY <1>3, <2>1 DEF ReqInv, StepInv, CallInv, InProgress, Blocked, StatusFits
  <2>3. QED BY <1>5, <1>7, <2>2, OthersKeep DEF Verified, Forget, Answer, TypeOK
<1>8. QED BY <1>6, <1>7

LEMMA HandleKeeps ==
    ASSUME TypeOK, RInv, NEW r \in Requests, Handle(r)
    PROVE  RInv'
<1>1. /\ ReqInv(http[r], step[r], status[r], at[r], method[r], code[r], effect[r])
      /\ step[r] = "routed"
  BY DEF RInv, Handle
<1>2. /\ at[r] = "none" /\ ~effect[r] /\ status[r] = 0
      /\ IsPublicPath(http[r].route) \/ http[r].token = "live"
  BY <1>1 DEF ReqInv, StepInv
<1>3. CASE Forwards(http[r])
  <2> DEFINE m == Method(http[r].route)
  <2>1. MayChange(http[r])
    BY <1>2, <1>3, Zenon DEF MayChange
  <2>2. step' = [step EXCEPT ![r] = "forwarded"] /\ Send(r, m) /\ UNCHANGED status
    BY <1>3 DEF Handle
  <2>3. Sound(m, "Unavailable", effect[r])
    BY <1>2 DEF Sound, ClientErrors
  <2> HIDE DEF m
  <2>4. \A a \in {"queued", "replied"} : \A c \in {"OK", "Unavailable"} :
           (a = "replied" => c = "Unavailable") =>
              StepInv(http[r], "forwarded", status[r], a, m, c, effect[r])
    BY <1>2, <2>1, <2>3 DEF StepInv, m
  <2>5. \A a \in {"queued", "replied"} : CallInv(http[r], a, m, effect[r])
    BY <1>2, <2>1 DEF CallInv
  <2>6. /\ at'[r] \in {"queued", "replied"} /\ code'[r] \in {"OK", "Unavailable"}
        /\ at'[r] = "replied" => code'[r] = "Unavailable"
        /\ method'[r] = m /\ step'[r] = "forwarded"
    BY <2>2 DEF Send, TypeOK
  <2>7. ReqInv(http[r], step'[r], status'[r], at'[r], method'[r], code'[r], effect'[r])
    BY <2>2, <2>4, <2>5, <2>6 DEF Send, ReqInv
  <2>8. QED BY <2>2, <2>7, OthersKeep DEF Handle, Send, TypeOK
<1>4. CASE ~Forwards(http[r])
  <2>1. StatusFits(http[r], OwnStatus(http[r]), effect[r])
    BY <1>2, <1>4 DEF StatusFits
  <2>2. ReqInv(http[r], "answered", OwnStatus(http[r]), at[r], method[r], code[r], effect[r])
    BY <1>1, <1>2, <2>1 DEF ReqInv, StepInv, CallInv, InProgress, Blocked
  <2>3. QED BY <1>4, <2>2, OthersKeep DEF Handle, Answer, call, TypeOK
<1>5. QED BY <1>3, <1>4

LEMMA RespondKeeps ==
    ASSUME TypeOK, RInv, NEW r \in Requests, Respond(r)
    PROVE  RInv'
<1>1. /\ ReqInv(http[r], step[r], status[r], at[r], method[r], code[r], effect[r])
      /\ step[r] = "forwarded" /\ at[r] = "replied"
  BY DEF RInv, Respond
<1>2. Sound(Method(http[r].route), code[r], effect[r]) /\ MayChange(http[r])
  BY <1>1 DEF ReqInv, StepInv
<1>3. PICK s : s = IF code[r] = "OK" THEN 200 ELSE GrpcStatus(code[r])
  OBVIOUS
<1>4. StatusFits(http[r], s, effect[r])
  <2>1. CASE code[r] = "OK"
    BY <1>2, <1>3, <2>1 DEF StatusFits, Sound
  <2>2. CASE code[r] # "OK"
    <3>1. s # 200 /\ (s \in 400..499 => code[r] \in ClientErrors)
      BY <1>3, <2>2, StatusFacts DEF TypeOK
    <3>2. QED BY <1>2, <3>1 DEF StatusFits, Sound
  <2>3. QED BY <2>1, <2>2
<1>5. ReqInv(http[r], "answered", s, "none", method[r], "OK", effect[r])
  BY <1>2, <1>4 DEF ReqInv, StepInv, CallInv, InProgress, Blocked
<1>6. QED BY <1>3, <1>5, OthersKeep DEF Respond, Forget, Answer, TypeOK

(* What a handler may reply leaves a call in progress as it should be. *)
LEMMA ReplyFits ==
    ASSUME NEW h, NEW st, NEW s, NEW a \in InProgress, NEW m, NEW c, NEW e \in BOOLEAN,
           ReqInv(h, st, s, a, m, c, e), NEW x \in Codes, NEW y \in BOOLEAN,
           Sound(m, x, y), m = "verify_token" => ~y /\ (x = "OK" => h.token = "live")
    PROVE  /\ st \in {"verifying", "forwarded"} => ReqInv(h, st, s, "replied", m, x, e \/ y)
           /\ st \notin {"verifying", "forwarded"} => ReqInv(h, st, s, "none", m, "OK", e \/ y)
<1> DEFINE z == e \/ y
<1>1. ~e /\ (m = "verify_token" \/ MayChange(h)) /\ a # "none" /\ a # "replied"
  BY DEF ReqInv, CallInv, InProgress, Blocked
<1>2. z = y /\ (z => MayChange(h))
  BY <1>1
<1> HIDE DEF z
<1>3. CallInv(h, "replied", m, z) /\ CallInv(h, "none", m, z)
  BY <1>2 DEF CallInv, InProgress, Blocked
<1>4. CASE st = "verifying"
  <2>1. m = "verify_token" /\ s = 0
    BY <1>4 DEF ReqInv, StepInv
  <2>2. StepInv(h, st, s, "replied", m, x, z)
    BY <1>2, <1>4, <2>1 DEF StepInv
  <2>3. QED BY <1>3, <1>4, <2>2 DEF ReqInv, z
<1>5. CASE st = "forwarded"
  <2>1. m = Method(h.route) /\ MayChange(h) /\ s = 0
    BY <1>5 DEF ReqInv, StepInv
  <2>2. Sound(m, x, z)
    BY <1>2
  <2>3. StepInv(h, st, s, "replied", m, x, z)
    BY <1>5, <2>1, <2>2 DEF StepInv
  <2>4. QED BY <1>3, <1>5, <2>3 DEF ReqInv, z
<1>6. CASE st \notin {"verifying", "forwarded"}
  <2>1. st \notin {"none", "arrived", "routed"}
    BY <1>1 DEF ReqInv, StepInv
  <2>2. CASE st = "answered"
    <3>1. m = "verify_token" /\ StatusFits(h, s, e)
      BY <1>1, <2>2 DEF ReqInv, StepInv
    <3>2. z = e
      BY <1>1, <1>2, <3>1
    <3>3. StepInv(h, st, s, "none", m, "OK", z)
      BY <2>2, <3>1, <3>2 DEF StepInv
    <3>4. QED BY <1>3, <1>6, <3>3 DEF ReqInv, z
  <2>3. CASE st # "answered"
    <3>1. s = 0
      BY <2>3 DEF ReqInv, StepInv
    <3>2. StepInv(h, st, s, "none", m, "OK", z)
      BY <1>6, <2>1, <2>3, <3>1 DEF StepInv
    <3>3. QED BY <1>3, <1>6, <3>2 DEF ReqInv, z
  <2>4. QED BY <2>2, <2>3
<1>7. QED BY <1>4, <1>5, <1>6

(* The call is dropped behind its back or breaks: e becomes what it may have *)
(* done.                                                                     *)
LEMMA DropFits ==
    ASSUME TypeOK, RInv, NEW r \in Requests, at[r] \in InProgress, NEW e \in PerhapsDone(r)
    PROVE  e \in BOOLEAN /\ (e => method[r] # "verify_token" /\ MayChange(http[r]))
<1>1. http[r].token \in Token /\ method[r] \in Methods /\ effect[r] \in BOOLEAN
  BY AskedAssumption DEF TypeOK, Http
<1>2. ReqInv(http[r], step[r], status[r], at[r], method[r], code[r], effect[r])
  BY DEF RInv
<1>3. ~effect[r] /\ (method[r] = "verify_token" \/ MayChange(http[r]))
  BY <1>2 DEF ReqInv, CallInv
<1>4. CASE e = effect[r]
  BY <1>1, <1>3, <1>4
<1>5. CASE e # effect[r]
  <2>1. PICK reply \in HandlerReplies(method[r], http[r].token) : e = reply.effect
    BY <1>5 DEF PerhapsDone, HandlerReplies
  <2>2. reply \in Reply
    BY <1>1, <2>1, RepliesAreSound
  <2>3. method[r] = "verify_token" => ~reply.effect
    BY <1>1, <2>1, VerificationIsHarmless
  <2>4. e \in BOOLEAN
    BY <2>1, <2>2 DEF Reply
  <2>5. QED BY <1>3, <2>1, <2>3, <2>4
<1>6. QED BY <1>4, <1>5

LEMMA ReplyWithKeeps ==
    ASSUME TypeOK, RInv, NEW r \in Requests, at[r] \in InProgress, NEW reply \in Reply,
           ReplyWith(r, reply), UNCHANGED <<http, request>>,
           Sound(method[r], reply.code, reply.effect),
           method[r] = "verify_token" => ~reply.effect /\ (reply.code = "OK" => http[r].token = "live")
    PROVE  RInv'
<1>1. ReqInv(http[r], step[r], status[r], at[r], method[r], code[r], effect[r])
  BY DEF RInv
<1>2. reply.code \in Codes /\ reply.effect \in BOOLEAN /\ effect[r] \in BOOLEAN
  BY DEF Reply, TypeOK
<1>3. /\ Waiting(r) => ReqInv(http[r], step[r], status[r], "replied", method[r], reply.code,
                              effect[r] \/ reply.effect)
      /\ ~Waiting(r) => ReqInv(http[r], step[r], status[r], "none", method[r], "OK",
                               effect[r] \/ reply.effect)
  BY <1>1, <1>2, ReplyFits DEF Waiting
<1>4. /\ at'[r] = IF Waiting(r) THEN "replied" ELSE "none"
      /\ code'[r] = IF Waiting(r) THEN reply.code ELSE "OK"
      /\ effect'[r] = (effect[r] \/ reply.effect)
      /\ UNCHANGED <<http, step, status, method>>
  BY DEF ReplyWith, TypeOK, request
<1>5. ReqInv(http[r], step'[r], status'[r], at'[r], method'[r], code'[r], effect'[r])
  BY <1>3, <1>4
<1>6. QED BY <1>4, <1>5, OthersKeep DEF ReplyWith, TypeOK

LEMMA CallStepKeeps ==
    ASSUME TypeOK, RInv, NEW r \in Requests,
           Dispatch(r) \/ FindSession(r) \/ UseRedis(r) \/ PoolTimeout(r)
    PROVE  RInv'
<1>1. /\ at[r] \in InProgress /\ UNCHANGED <<http, request>>
      /\ http[r].token \in Token /\ method[r] \in Methods
  BY AskedAssumption DEF Dispatch, FindSession, UseRedis, PoolTimeout, InProgress, Blocked, TypeOK, Http
<1>2. ASSUME NEW reply, ReplyWith(r, reply),
             reply \in HandlerReplies(method[r], http[r].token) \/ reply = ReplyWithoutRedis(method[r])
      PROVE  RInv'
  <2>1. reply \in Reply /\ Sound(method[r], reply.code, reply.effect)
    BY <1>1, <1>2, RepliesAreSound
  <2>2. method[r] = "verify_token" => ~reply.effect /\ (reply.code = "OK" => http[r].token = "live")
    BY <1>1, <1>2, VerificationIsHarmless
  <2>3. QED BY <1>1, <1>2, <2>1, <2>2, ReplyWithKeeps
<1>3. ASSUME ReplyWith(r, Undone("AlreadyExists"))
      PROVE  RInv'
  <2> DEFINE reply == Undone("AlreadyExists")
  <2>1. reply \in Reply /\ Sound(method[r], reply.code, reply.effect) /\ ~reply.effect /\ reply.code # "OK"
    BY DEF Undone, Reply, Codes, Sound, ClientErrors
  <2> HIDE DEF reply
  <2>2. QED BY <1>1, <1>3, <2>1, ReplyWithKeeps DEF reply
<1>4. ASSUME NEW a \in Blocked, at' = [at EXCEPT ![r] = a], UNCHANGED <<method, code, effect>>
      PROVE  RInv'
  <2>1. ReqInv(http[r], step[r], status[r], at[r], method[r], code[r], effect[r])
    BY DEF RInv
  <2>2. at[r] # "none" /\ at[r] # "replied" /\ a # "none" /\ a # "replied" /\ a \in InProgress
    BY <1>1, <1>4 DEF InProgress, Blocked
  <2>3. StepInv(http[r], step[r], status[r], a, method[r], code[r], effect[r])
    BY <2>1, <2>2 DEF ReqInv, StepInv
  <2>4. CallInv(http[r], a, method[r], effect[r])
    BY <1>1, <2>1, <2>2 DEF ReqInv, CallInv
  <2>5. QED BY <1>1, <1>4, <2>3, <2>4, OthersKeep DEF ReqInv, request, TypeOK
<1>5. CASE Dispatch(r)
  BY <1>2, <1>4, <1>5 DEF Dispatch, HandlerReplies, Blocked
<1>6. CASE FindSession(r)
  BY <1>3, <1>4, <1>6 DEF FindSession, Blocked
<1>7. CASE UseRedis(r)
  BY <1>2, <1>7 DEF UseRedis, HandlerReplies
<1>8. CASE PoolTimeout(r)
  BY <1>2, <1>8 DEF PoolTimeout
<1>9. QED BY <1>1, <1>5, <1>6, <1>7, <1>8

(* A request the gateway has given up leaves at most a call that was allowed. *)
LEMMA AbandonFits ==
    ASSUME TypeOK, RInv, NEW R \in SUBSET Requests, Abandon(R), NEW q \in Requests
    PROVE  /\ q \notin R => at'[q] = at[q] /\ code'[q] = code[q] /\ effect'[q] = effect[q]
           /\ q \in R => /\ at'[q] \in Blocked \cup {"none"}
                         /\ CallInv(http[q], at'[q], method[q], effect'[q])
           /\ method'[q] = method[q]
<1>1. ReqInv(http[q], step[q], status[q], at[q], method[q], code[q], effect[q])
  BY DEF RInv
<1>2. /\ at'[q] = IF q \in R /\ at[q] \notin Blocked THEN "none" ELSE at[q]
      /\ code'[q] = IF q \in R THEN "OK" ELSE code[q]
      /\ effect'[q] \in IF q \in R /\ at[q] = "queued" THEN PerhapsDone(q) ELSE {effect[q]}
      /\ method'[q] = method[q]
  BY DEF Abandon
<1>3. CASE q \notin R
  BY <1>2, <1>3
<1>4. CASE q \in R /\ at[q] \in Blocked
  <2>1. at'[q] = at[q] /\ effect'[q] = effect[q]
    BY <1>2, <1>4 DEF Blocked
  <2>2. QED BY <1>1, <1>2, <1>4, <2>1 DEF ReqInv
<1>5. CASE q \in R /\ at[q] \notin Blocked
  <2>1. at'[q] = "none"
    BY <1>2, <1>5
  <2>2. effect'[q] => MayChange(http[q])
    <3>1. CASE at[q] = "queued"
      BY <1>2, <1>5, <3>1, DropFits DEF InProgress
    <3>2. CASE at[q] # "queued"
      BY <1>1, <1>2, <3>2 DEF ReqInv, CallInv
    <3>3. QED BY <3>1, <3>2
  <2>3. QED BY <1>2, <1>5, <2>1, <2>2 DEF CallInv, InProgress, Blocked
<1>6. QED BY <1>3, <1>4, <1>5

LEMMA GiveUpKeeps ==
    ASSUME TypeOK, RInv, NEW r \in Requests, VerificationTimeout(r) \/ ClientLeaves(r)
    PROVE  RInv'
<1>1. ReqInv(http[r], step[r], status[r], at[r], method[r], code[r], effect[r])
  BY DEF RInv
<1>2. Abandon({r}) /\ {r} \in SUBSET Requests /\ UNCHANGED http
  BY DEF VerificationTimeout, ClientLeaves
<1>3. /\ CallInv(http[r], at'[r], method'[r], effect'[r])
      /\ at'[r] \in Blocked \cup {"none"} /\ method'[r] = method[r]
  BY <1>2, AbandonFits
<1>4. CASE VerificationTimeout(r)
  <2>1. step'[r] = "answered" /\ status'[r] = 500 /\ method'[r] = "verify_token"
    BY <1>1, <1>3, <1>4 DEF VerificationTimeout, Answer, ReqInv, StepInv, TypeOK
  <2>2. StatusFits(http[r], 500, effect'[r])
    BY DEF StatusFits
  <2>3. StepInv(http[r], step'[r], status'[r], at'[r], method'[r], code'[r], effect'[r])
    BY <2>1, <2>2 DEF StepInv
  <2>4. \A q \in Requests \ {r} : step'[q] = step[q] /\ status'[q] = status[q]
    BY <1>4 DEF VerificationTimeout, Answer, TypeOK
  <2>5. QED BY <1>2, <1>3, <2>3, <2>4, AbandonFits, OthersKeep DEF ReqInv
<1>5. CASE ClientLeaves(r)
  <2>1. step'[r] = "gone" /\ status'[r] = status[r] /\ status[r] = 0
    BY <1>1, <1>5 DEF ClientLeaves, Open, ReqInv, StepInv, TypeOK
  <2>2. StepInv(http[r], step'[r], status'[r], at'[r], method'[r], code'[r], effect'[r])
    BY <2>1 DEF StepInv
  <2>3. \A q \in Requests \ {r} : step'[q] = step[q] /\ status'[q] = status[q]
    BY <1>5 DEF ClientLeaves, TypeOK
  <2>4. QED BY <1>2, <1>3, <2>2, <2>3, AbandonFits, OthersKeep DEF ReqInv
<1>6. QED BY <1>4, <1>5

LEMMA BreakCallsKeeps ==
    ASSUME TypeOK, RInv, BreakCalls, UNCHANGED <<http, step, status>>
    PROVE  RInv'
<1> SUFFICES ASSUME NEW q \in Requests
             PROVE  ReqInv(http[q], step[q], status[q], at'[q], method'[q], code'[q], effect'[q])
  BY DEF RInv
<1>1. ReqInv(http[q], step[q], status[q], at[q], method[q], code[q], effect[q])
  BY DEF RInv
<1>2. method'[q] = method[q]
  BY DEF BreakCalls
<1>3. CASE at[q] \notin InProgress
  <2>1. at'[q] = at[q] /\ code'[q] = code[q] /\ effect'[q] = effect[q]
    BY <1>3 DEF BreakCalls
  <2>2. QED BY <1>1, <1>2, <2>1
<1>4. CASE at[q] \in InProgress
  <2> DEFINE y == effect'[q]
  <2>1. y \in PerhapsDone(q)
    BY <1>4 DEF BreakCalls
  <2>2. /\ at'[q] = IF Waiting(q) THEN "replied" ELSE "none"
        /\ code'[q] = IF Waiting(q) THEN "Lost" ELSE code[q]
    BY <1>4 DEF BreakCalls
  <2> HIDE DEF y
  <2>3. y \in BOOLEAN /\ (y => method[q] # "verify_token" /\ MayChange(http[q]))
    BY <1>4, <2>1, DropFits
  <2>4. ~effect[q] /\ at[q] # "none"
    BY <1>1, <1>4 DEF ReqInv, CallInv, InProgress, Blocked
  <2>5. \A a \in {"none", "replied"} : CallInv(http[q], a, method[q], y)
    BY <2>3 DEF CallInv, InProgress, Blocked
  <2>6. CASE step[q] = "verifying"
    <3>1. method[q] = "verify_token" /\ status[q] = 0
      BY <1>1, <2>6 DEF ReqInv, StepInv
    <3>2. StepInv(http[q], step[q], status[q], "replied", method[q], "Lost", y)
      BY <2>3, <2>6, <3>1 DEF StepInv
    <3>3. QED BY <1>2, <2>2, <2>5, <2>6, <3>2 DEF ReqInv, Waiting, y
  <2>7. CASE step[q] = "forwarded"
    <3>1. method[q] = Method(http[q].route) /\ MayChange(http[q]) /\ status[q] = 0
      BY <1>1, <2>7 DEF ReqInv, StepInv
    <3>2. Sound(method[q], "Lost", y)
      BY DEF Sound, ClientErrors
    <3>3. StepInv(http[q], step[q], status[q], "replied", method[q], "Lost", y)
      BY <2>7, <3>1, <3>2 DEF StepInv
    <3>4. QED BY <1>2, <2>2, <2>5, <2>7, <3>3 DEF ReqInv, Waiting, y
  <2>8. CASE step[q] \notin {"verifying", "forwarded"}
    <3>1. step[q] \notin {"none", "arrived", "routed"}
      BY <1>1, <2>4 DEF ReqInv, StepInv
    <3>2. step[q] = "answered" => StatusFits(http[q], status[q], effect[q]) /\ method[q] = "verify_token"
      BY <1>1, <2>4 DEF ReqInv, StepInv
    <3>3. step[q] # "answered" => status[q] = 0
      BY <1>1 DEF ReqInv, StepInv
    <3>4. step[q] = "answered" => y = effect[q]
      BY <2>3, <2>4, <3>2 DEF TypeOK
    <3>5. StepInv(http[q], step[q], status[q], "none", method[q], code[q], y)
      BY <2>8, <3>1, <3>2, <3>3, <3>4 DEF StepInv
    <3>6. QED BY <1>2, <2>2, <2>5, <2>8, <3>5 DEF ReqInv, Waiting, y
  <2>9. QED BY <2>6, <2>7, <2>8
<1>5. QED BY <1>3, <1>4

LEMMA EndsKeeps ==
    ASSUME TypeOK, RInv, NEW p \in Process, Ends(p)
    PROVE  RInv'
<1>1. CASE p = "qa_svc"
  BY <1>1, BreakCallsKeeps DEF Ends
<1>2. CASE p = "gateway"
  <2> DEFINE R == {r \in Requests : Open(r)}
  <2>1. /\ Abandon(R) /\ R \in SUBSET Requests /\ UNCHANGED <<http, status>>
        /\ step' = [r \in Requests |-> IF Open(r) THEN "cut" ELSE step[r]]
    BY <1>2 DEF Ends
  <2>2. \A r \in Requests : r \in R <=> Open(r)
    OBVIOUS
  <2> HIDE DEF R
  <2> SUFFICES ASSUME NEW q \in Requests
               PROVE  ReqInv(http[q], step'[q], status[q], at'[q], method'[q], code'[q], effect'[q])
    BY <2>1 DEF RInv
  <2>3. ReqInv(http[q], step[q], status[q], at[q], method[q], code[q], effect[q])
    BY DEF RInv
  <2>4. CASE Open(q)
    <3>1. step'[q] = "cut" /\ status[q] = 0
      BY <2>1, <2>3, <2>4 DEF Open, ReqInv, StepInv
    <3>2. CallInv(http[q], at'[q], method'[q], effect'[q])
      BY <2>1, <2>2, <2>4, AbandonFits
    <3>3. QED BY <3>1, <3>2 DEF ReqInv, StepInv
  <2>5. CASE ~Open(q)
    <3>1. step'[q] = step[q]
      BY <2>1, <2>5
    <3>2. at'[q] = at[q] /\ method'[q] = method[q] /\ code'[q] = code[q] /\ effect'[q] = effect[q]
      BY <2>1, <2>2, <2>5, AbandonFits
    <3>3. QED BY <2>3, <3>1, <3>2
  <2>6. QED BY <2>4, <2>5
<1>3. QED BY <1>1, <1>2 DEF Process

LEMMA RInvStep == TypeOK /\ RInv /\ [Next]_vars => RInv'
<1> SUFFICES ASSUME TypeOK, RInv, [Next]_vars PROVE RInv'
  OBVIOUS
<1>1. CASE UNCHANGED <<http, request, call>>
  BY <1>1 DEF RInv, request, call
<1>2. ASSUME NEW r \in Requests, RequestStep(r)
      PROVE  RInv'
  BY <1>2, ArriveKeeps, AuthenticateKeeps, VerifiedKeeps, HandleKeeps, RespondKeeps,
     CallStepKeeps, GiveUpKeeps DEF RequestStep, GatewayStep
<1>3. ASSUME NEW f \in Flushers, FlushStep(f)
      PROVE  RInv'
  BY <1>1, <1>3 DEF FlushStep, StartFlush, ScanFields, AddToRow, TakeOff, FlushTimeout
<1>4. ASSUME NEW p \in Process, ProcessStep(p)
      PROVE  RInv'
  <2>1. CASE Ends(p)
    BY <1>4, <2>1, EndsKeeps
  <2>2. CASE ~Ends(p)
    BY <1>1, <1>4, <2>2 DEF ProcessStep, ServerStep, MetricsStep, ServerStarts, StopAccepting,
       ServerStops, MetricsStart, MetricsStops, MainReturns, Signal, Crash, Restart
  <2>3. QED BY <2>1, <2>2
<1>5. CASE BuildPools
  BY <1>1, <1>5 DEF BuildPools
<1>6. CASE UNCHANGED vars
  BY <1>1, <1>6 DEF vars
<1>7. QED BY <1>2, <1>3, <1>4, <1>5, <1>6 DEF Next

(* No order of steps, timeouts, stops, crashes and restarts gets a change    *)
(* past the middleware.                                                      *)
THEOREM OnlyAllowedChanges == Spec => []EffectWasAllowed
BY InitType, TypeStep, InitRInv, RInvStep, RInvImplies, PTL DEF Spec

(* The HTTP status says what became of the request, whichever step failed.   *)
THEOREM StatusIsHonest == Spec => []StatusTellsEffect
BY InitType, TypeStep, InitRInv, RInvStep, RInvImplies, PTL DEF Spec

-----------------------------------------------------------------------------
(* Behind an answer. *)

(* The only call an answered request can have left is verify_token.          *)
LEMMA NothingIsLeft ==
    ASSUME TypeOK, RInv, NEW q \in Requests, step[q] = "answered", at[q] \in InProgress
    PROVE  /\ method[q] = "verify_token" /\ effect[q] = FALSE
           /\ \A e \in PerhapsDone(q) : e = effect[q]
<1>1. ReqInv(http[q], step[q], status[q], at[q], method[q], code[q], effect[q])
  BY DEF RInv
<1>2. at[q] # "none"
  BY DEF InProgress, Blocked
<1>3. method[q] = "verify_token"
  BY <1>1, <1>2 DEF ReqInv, StepInv
<1>4. effect[q] = FALSE
  BY <1>1 DEF ReqInv, CallInv, TypeOK
<1>5. ASSUME NEW e \in PerhapsDone(q)
      PROVE  e = effect[q]
  BY <1>3, <1>4, <1>5, DropFits
<1>6. QED BY <1>3, <1>4, <1>5

LEMMA AbandonedBehind ==
    ASSUME TypeOK, RInv, NEW q \in Requests, step[q] = "answered", NEW R, Abandon(R)
    PROVE  effect'[q] = effect[q]
<1>1. effect'[q] \in IF q \in R /\ at[q] = "queued" THEN PerhapsDone(q) ELSE {effect[q]}
  BY DEF Abandon
<1>2. CASE q \in R /\ at[q] = "queued"
  BY <1>1, <1>2, NothingIsLeft DEF InProgress
<1>3. CASE ~(q \in R /\ at[q] = "queued")
  BY <1>1, <1>3
<1>4. QED BY <1>2, <1>3

LEMMA BrokenBehind ==
    ASSUME TypeOK, RInv, NEW q \in Requests, step[q] = "answered", BreakCalls
    PROVE  effect'[q] = effect[q]
<1>1. effect'[q] \in IF at[q] \in InProgress THEN PerhapsDone(q) ELSE {effect[q]}
  BY DEF BreakCalls
<1>2. CASE at[q] \in InProgress
  BY <1>1, <1>2, NothingIsLeft
<1>3. CASE at[q] \notin InProgress
  BY <1>1, <1>3
<1>4. QED BY <1>2, <1>3

LEMMA RepliedBehind ==
    ASSUME TypeOK, RInv, NEW q \in Requests, step[q] = "answered", NEW r \in Requests,
           Dispatch(r) \/ FindSession(r) \/ UseRedis(r) \/ PoolTimeout(r)
    PROVE  effect'[q] = effect[q]
<1>1. at[r] \in InProgress
  BY DEF Dispatch, FindSession, UseRedis, PoolTimeout, InProgress, Blocked
<1>2. http[q].token \in Token /\ effect \in [Requests -> BOOLEAN]
  BY AskedAssumption DEF TypeOK, Http
<1>3. ASSUME NEW reply, ReplyWith(r, reply), q = r => reply.effect = FALSE
      PROVE  effect'[q] = effect[q]
  BY <1>2, <1>3 DEF ReplyWith
<1>4. ASSUME NEW reply, ReplyWith(r, reply),
             \/ reply \in HandlerReplies(method[r], http[r].token)
             \/ reply = ReplyWithoutRedis(method[r])
      PROVE  effect'[q] = effect[q]
  <2>1. q = r => method[r] = "verify_token"
    BY <1>1, NothingIsLeft
  <2>2. q = r => reply \in Reply /\ ~reply.effect
    BY <1>2, <1>4, <2>1, RepliesAreSound, VerificationIsHarmless DEF Methods
  <2>3. q = r => reply.effect = FALSE
    BY <2>2 DEF Reply
  <2>4. QED BY <1>3, <1>4, <2>3
<1>5. Undone("AlreadyExists").effect = FALSE
  BY DEF Undone
<1>6. CASE Dispatch(r)
  BY <1>4, <1>6 DEF Dispatch, HandlerReplies
<1>7. CASE FindSession(r)
  BY <1>3, <1>5, <1>7 DEF FindSession
<1>8. CASE UseRedis(r)
  BY <1>4, <1>8 DEF UseRedis, HandlerReplies
<1>9. CASE PoolTimeout(r)
  BY <1>4, <1>9 DEF PoolTimeout
<1>10. QED BY <1>6, <1>7, <1>8, <1>9

LEMMA NothingBehindStep ==
    ASSUME TypeOK, RInv, [Next]_vars, NEW q \in Requests, step[q] = "answered"
    PROVE  effect'[q] = effect[q]
<1>1. ASSUME NEW r \in Requests, RequestStep(r)
      PROVE  effect'[q] = effect[q]
  <2>1. CASE Arrive(r) \/ GatewayStep(r)
    BY <2>1 DEF Arrive, GatewayStep, Authenticate, Verified, Handle, Respond, Send, Forget, call
  <2>2. CASE VerificationTimeout(r) \/ ClientLeaves(r)
    BY <2>2, AbandonedBehind DEF VerificationTimeout, ClientLeaves
  <2>3. CASE Dispatch(r) \/ FindSession(r) \/ UseRedis(r) \/ PoolTimeout(r)
    BY <2>3, RepliedBehind
  <2>4. QED BY <1>1, <2>1, <2>2, <2>3 DEF RequestStep
<1>2. ASSUME NEW p \in Process, ProcessStep(p)
      PROVE  effect'[q] = effect[q]
  <2>1. CASE Ends(p)
    BY <2>1, AbandonedBehind, BrokenBehind DEF Ends
  <2>2. CASE ~Ends(p)
    BY <1>2, <2>2 DEF ProcessStep, ServerStep, MetricsStep, ServerStarts, StopAccepting,
       ServerStops, MetricsStart, MetricsStops, MainReturns, Signal, Crash, Restart, call
  <2>3. QED BY <2>1, <2>2
<1>3. ASSUME NEW f \in Flushers, FlushStep(f)
      PROVE  effect'[q] = effect[q]
  BY <1>3 DEF FlushStep, StartFlush, ScanFields, AddToRow, TakeOff, FlushTimeout, call
<1>4. CASE BuildPools
  BY <1>4 DEF BuildPools, call
<1>5. CASE UNCHANGED vars
  BY <1>5 DEF vars, call
<1>6. QED BY <1>1, <1>2, <1>3, <1>4, <1>5 DEF Next

(* The verification deadline never leaves work behind that changes something *)
(* after the client was told it failed.                                      *)
THEOREM NothingChangesBehind == Spec => NothingBehindTheAnswer
<1>1. TypeOK /\ RInv /\ [Next]_vars
          => [\A r \in Requests : step[r] = "answered" => effect'[r] = effect[r]]_vars
  BY NothingBehindStep
<1>2. QED BY <1>1, InitType, TypeStep, InitRInv, RInvStep, PTL DEF Spec, NothingBehindTheAnswer

-----------------------------------------------------------------------------
(* Who is cut off when a process ends. *)

(* A process that does not run serves nobody, and a server that does not     *)
(* serve has nobody left to serve.                                           *)
Quiet == {"off", "starting", "done", "failed"}
DrainInv == \A p \in Process : /\ up[p] # "running" => server[p] = "off"
                               /\ server[p] \in Quiet => Drained(p)

LEMMA InitDrain == Init => DrainInv /\ NobodyIsCutOff
BY DEF Init, DrainInv, Drained, Open, NobodyIsCutOff, InProgress, Blocked

LEMMA RequestDrain ==
    ASSUME TypeOK, RInv, DrainInv, NEW r \in Requests, RequestStep(r)
    PROVE  DrainInv'
<1> USE DEF Process
<1>1. UNCHANGED <<up, server>>
  BY DEF RequestStep, Arrive, GatewayStep, Authenticate, Verified, Handle, Respond,
     VerificationTimeout, ClientLeaves, Dispatch, FindSession, UseRedis, PoolTimeout, process, task
<1>2. step \in [Requests -> Step] /\ at \in [Requests -> Place]
  BY DEF TypeOK
<1>3. ASSUME server["gateway"] \in Quiet, NEW q \in Requests
      PROVE  ~Open(q)'
  <2>1. ~Open(q) /\ ~Open(r)
    BY <1>3 DEF DrainInv, Drained
  <2>2. CASE Arrive(r)
    BY <1>3, <2>2 DEF Arrive, Accepts, Quiet
  <2>3. CASE GatewayStep(r) \/ VerificationTimeout(r) \/ ClientLeaves(r)
    BY <2>1, <2>3 DEF GatewayStep, Authenticate, Verified, Handle, Respond,
       VerificationTimeout, ClientLeaves, Open, Waiting
  <2>4. CASE UNCHANGED request
    BY <2>1, <2>4 DEF Open, request
  <2>5. QED BY <2>2, <2>3, <2>4 DEF RequestStep, Dispatch, FindSession, UseRedis, PoolTimeout
<1>4. ASSUME server["qa_svc"] \in Quiet, NEW q \in Requests
      PROVE  (at[q] \in InProgress => ~Waiting(q))'
  <2>1. at[q] \in InProgress => ~Waiting(q)
    BY <1>4 DEF DrainInv, Drained
  <2>2. ~Accepts("qa_svc")
    BY <1>4 DEF Accepts, Quiet
  <2>3. CASE Arrive(r)
    BY <1>2, <2>1, <2>3 DEF Arrive, Waiting, call
  <2>4. CASE Authenticate(r)
    <3>1. at[r] = "none"
      BY <2>4 DEF RInv, ReqInv, StepInv, Authenticate
    <3>2. QED BY <1>2, <2>1, <2>2, <2>4, <3>1
          DEF Authenticate, Send, Answer, Waiting, InProgress, Blocked, call
  <2>5. CASE Handle(r)
    <3>1. at[r] = "none"
      BY <2>5 DEF RInv, ReqInv, StepInv, Handle
    <3>2. QED BY <1>2, <2>1, <2>2, <2>5, <3>1
          DEF Handle, Send, Answer, Waiting, InProgress, Blocked, call
  <2>6. CASE Verified(r) \/ Respond(r)
    BY <1>2, <2>1, <2>6 DEF Verified, Respond, Forget, Answer, Waiting, InProgress, Blocked
  <2>7. CASE VerificationTimeout(r) \/ ClientLeaves(r)
    BY <1>2, <2>1, <2>7 DEF VerificationTimeout, ClientLeaves, Abandon, Answer, Waiting, InProgress, Blocked
  <2>8. CASE Dispatch(r) \/ FindSession(r) \/ UseRedis(r) \/ PoolTimeout(r)
    <3>1. UNCHANGED step /\ at[r] \in InProgress
      BY <2>8 DEF Dispatch, FindSession, UseRedis, PoolTimeout, request, InProgress, Blocked
    <3>2. q # r => at'[q] = at[q]
      BY <1>2, <2>8 DEF Dispatch, FindSession, UseRedis, PoolTimeout, ReplyWith
    <3>3. QED BY <2>1, <3>1, <3>2 DEF Waiting
  <2>9. QED BY <2>3, <2>4, <2>5, <2>6, <2>7, <2>8 DEF RequestStep, GatewayStep
<1>5. QED BY <1>1, <1>3, <1>4 DEF DrainInv, Drained

LEMMA EndsDrain ==
    ASSUME TypeOK, DrainInv, NEW p \in Process, Ends(p)
    PROVE  DrainInv'
<1> USE DEF Process
<1>1. /\ \A o \in Process \ {p} : server'[o] = server[o] /\ up'[o] = up[o]
      /\ server'[p] = "off"
  BY DEF Ends, TypeOK
<1>2. CASE p = "gateway"
  <2>1. \A q \in Requests : ~Open(q)' /\ ~Waiting(q)'
    BY <1>2 DEF Ends, Open, Waiting
  <2>2. QED BY <1>1, <2>1 DEF DrainInv, Drained
<1>3. CASE p = "qa_svc"
  <2>1. UNCHANGED step
    BY <1>3 DEF Ends
  <2>2. \A q \in Requests : (at[q] \in InProgress => ~Waiting(q))'
    BY <1>3, <2>1 DEF Ends, BreakCalls, Waiting, InProgress, Blocked
  <2>3. server'["gateway"] \in Quiet => \A q \in Requests : ~Open(q)'
    BY <1>1, <1>3, <2>1 DEF DrainInv, Drained, Open
  <2>4. QED BY <1>1, <2>2, <2>3 DEF DrainInv, Drained
<1>4. QED BY <1>2, <1>3

(* A server comes to rest only with its work done. *)
LEMMA DrainStep ==
    ASSUME TypeOK, RInv, DrainInv, [Next]_vars
    PROVE  DrainInv'
<1>1. ASSUME UNCHANGED <<step, at>>,
             \A p \in Process : /\ server'[p] \in Quiet => server[p] \in Quiet \/ Drained(p)
                                /\ up'[p] # "running" => server'[p] = "off"
      PROVE  DrainInv'
  BY <1>1 DEF DrainInv, Drained, Open, Waiting
<1>2. ASSUME NEW p \in Process, ProcessStep(p), ~Ends(p)
      PROVE  DrainInv'
  <2>1. UNCHANGED <<step, at>>
    BY <1>2 DEF ProcessStep, ServerStep, MetricsStep, ServerStarts, StopAccepting, ServerStops,
       MetricsStart, MetricsStops, MainReturns, Signal, Crash, Restart, request, call
  <2>2. ASSUME NEW o \in Process
        PROVE  /\ server'[o] \in Quiet => server[o] \in Quiet \/ Drained(o)
               /\ up'[o] # "running" => server'[o] = "off"
    <3>1. /\ up[o] # "running" => server[o] = "off"
          /\ server \in [Process -> TaskState] /\ up \in [Process -> {"building", "running", "exited"}]
      BY DEF DrainInv, TypeOK
    <3>2. CASE ServerStep(p)
      BY <3>1, <3>2 DEF ServerStep, ServerStarts, StopAccepting, ServerStops, Quiet
    <3>3. CASE MetricsStep(p)
      BY <3>1, <3>3 DEF MetricsStep, MetricsStart, MetricsStops
    <3>4. CASE Signal(p)
      BY <1>2, <3>1, <3>4 DEF Signal, Listening, Quiet
    <3>5. CASE Restart(p)
      BY <3>1, <3>5 DEF Restart, Quiet, Process
    <3>6. QED BY <1>2, <3>2, <3>3, <3>4, <3>5 DEF ProcessStep, MainReturns, Crash
  <2>3. QED BY <1>1, <2>1, <2>2
<1>3. CASE BuildPools
  <2>1. UNCHANGED <<step, at>> /\ server["qa_svc"] = "off"
    BY <1>3 DEF BuildPools, DrainInv, Process, request, call
  <2>2. ASSUME NEW o \in Process
        PROVE  /\ server'[o] \in Quiet => server[o] \in Quiet \/ Drained(o)
               /\ up'[o] # "running" => server'[o] = "off"
    BY <1>3, <2>1 DEF BuildPools, DrainInv, TypeOK, Quiet, task, Process
  <2>3. QED BY <1>1, <2>1, <2>2
<1>4. ASSUME NEW f \in Flushers, FlushStep(f)
      PROVE  DrainInv'
  <2>1. UNCHANGED <<step, at, server, up>>
    BY <1>4 DEF FlushStep, StartFlush, ScanFields, AddToRow, TakeOff, FlushTimeout, process, task,
       request, call
  <2>2. QED BY <1>1, <2>1 DEF DrainInv
<1>5. CASE UNCHANGED vars
  <2>1. UNCHANGED <<step, at, server, up>>
    BY <1>5 DEF vars, process, task, request, call
  <2>2. QED BY <1>1, <2>1 DEF DrainInv
<1>6. QED BY <1>2, <1>3, <1>4, <1>5, RequestDrain, EndsDrain DEF Next

(* Of the steps that end a process only those that say so cut somebody off.  *)
LEMMA EndsCuts ==
    ASSUME TypeOK, DrainInv, NobodyIsCutOff, NEW p \in Process, Ends(p),
           cut \subseteq cut', p \in cut' \/ Ended(server[p])
    PROVE  NobodyIsCutOff'
<1>1. Ended(server[p]) => Drained(p)
  BY DEF Ended, DrainInv, Quiet
<1> SUFFICES ASSUME NEW q \in Requests
             PROVE  /\ step'[q] = "cut" => "gateway" \in cut'
                    /\ code'[q] = "Lost" => "qa_svc" \in cut'
  BY DEF NobodyIsCutOff
<1>2. /\ step[q] = "cut" => "gateway" \in cut'
      /\ code[q] = "Lost" => "qa_svc" \in cut'
  BY DEF NobodyIsCutOff
<1>3. CASE p = "gateway"
  <2>1. /\ step'[q] = IF Open(q) THEN "cut" ELSE step[q]
        /\ code'[q] \in {"OK", code[q]}
    BY <1>3 DEF Ends, Abandon
  <2>2. Drained(p) => ~Open(q)
    BY <1>3 DEF Drained
  <2>3. QED BY <1>1, <1>2, <1>3, <2>1, <2>2
<1>4. CASE p = "qa_svc"
  <2>1. /\ step'[q] = step[q]
        /\ code'[q] = IF at[q] \in InProgress /\ Waiting(q) THEN "Lost" ELSE code[q]
    BY <1>4 DEF Ends, BreakCalls
  <2>2. Drained(p) => ~(at[q] \in InProgress /\ Waiting(q))
    BY <1>4 DEF Drained
  <2>3. QED BY <1>1, <1>2, <1>4, <2>1, <2>2
<1>5. QED BY <1>3, <1>4 DEF Process

LEMMA RequestCuts ==
    ASSUME TypeOK, NobodyIsCutOff, NEW r \in Requests, RequestStep(r)
    PROVE  NobodyIsCutOff'
<1>1. UNCHANGED cut /\ step \in [Requests -> Step] /\ code \in [Requests -> Codes]
  BY DEF TypeOK, RequestStep, Arrive, GatewayStep, Authenticate, Verified, Handle, Respond,
     VerificationTimeout, ClientLeaves, Dispatch, FindSession, UseRedis, PoolTimeout, process
<1> SUFFICES ASSUME NEW q \in Requests
             PROVE  /\ step'[q] = "cut" => step[q] = "cut"
                    /\ code'[q] = "Lost" => code[q] = "Lost"
  BY <1>1 DEF NobodyIsCutOff
<1>2. CASE Arrive(r) \/ GatewayStep(r)
  BY <1>1, <1>2 DEF Arrive, GatewayStep, Authenticate, Verified, Handle, Respond, Answer, Send, Forget, call
<1>3. CASE VerificationTimeout(r) \/ ClientLeaves(r)
  BY <1>1, <1>3 DEF VerificationTimeout, ClientLeaves, Answer, Abandon
<1>4. CASE Dispatch(r) \/ FindSession(r) \/ UseRedis(r) \/ PoolTimeout(r)
  <2>1. UNCHANGED step /\ http[r].token \in Token /\ method[r] \in Methods
    BY <1>4, AskedAssumption DEF Dispatch, FindSession, UseRedis, PoolTimeout, request, TypeOK, Http
  <2>2. ASSUME NEW reply, ReplyWith(r, reply), reply.code # "Lost"
        PROVE  code'[q] = "Lost" => code[q] = "Lost"
    BY <1>1, <2>2 DEF ReplyWith
  <2>3. ASSUME NEW reply, ReplyWith(r, reply),
               \/ reply \in HandlerReplies(method[r], http[r].token)
               \/ reply = ReplyWithoutRedis(method[r])
        PROVE  code'[q] = "Lost" => code[q] = "Lost"
    BY <2>1, <2>2, <2>3, RepliesAreSound
  <2>4. Undone("AlreadyExists").code # "Lost"
    BY DEF Undone
  <2>5. code'[q] = "Lost" => code[q] = "Lost"
    BY <1>4, <2>2, <2>3, <2>4 DEF Dispatch, FindSession, UseRedis, PoolTimeout, HandlerReplies
  <2>6. QED BY <2>1, <2>5
<1>5. QED BY <1>2, <1>3, <1>4 DEF RequestStep

LEMMA CutStep ==
    ASSUME TypeOK, DrainInv, NobodyIsCutOff, [Next]_vars
    PROVE  NobodyIsCutOff'
<1>1. CASE UNCHANGED <<step, code, cut>>
  BY <1>1 DEF NobodyIsCutOff
<1>2. ASSUME NEW p \in Process, ProcessStep(p)
      PROVE  NobodyIsCutOff'
  <2>1. CASE Ends(p)
    <3>1. CASE MainReturns(p) \/ Signal(p) \/ Crash(p)
      <4>1. cut \subseteq cut'
        BY <3>1 DEF MainReturns, Signal, Crash
      <4>2. CASE p \in cut' \/ Ended(server[p])
        BY <2>1, <4>1, <4>2, EndsCuts
      <4>3. CASE ~(p \in cut' \/ Ended(server[p]))
        BY <1>1, <3>1, <4>3 DEF MainReturns, Signal, Crash, request, call
      <4>4. QED BY <4>2, <4>3
    <3>2. CASE ServerStep(p) \/ MetricsStep(p) \/ Restart(p)
      BY <1>1, <3>2 DEF ServerStep, MetricsStep, ServerStarts, StopAccepting, ServerStops,
         MetricsStart, MetricsStops, Restart, request, call
    <3>3. QED BY <1>2, <3>1, <3>2 DEF ProcessStep
  <2>2. CASE ~Ends(p)
    BY <1>1, <1>2, <2>2 DEF ProcessStep, ServerStep, MetricsStep, ServerStarts, StopAccepting,
       ServerStops, MetricsStart, MetricsStops, MainReturns, Signal, Crash, Restart, request, call
  <2>3. QED BY <2>1, <2>2
<1>3. ASSUME NEW f \in Flushers, FlushStep(f)
      PROVE  NobodyIsCutOff'
  BY <1>1, <1>3 DEF FlushStep, StartFlush, ScanFields, AddToRow, TakeOff, FlushTimeout,
     process, request, call
<1>4. CASE BuildPools
  BY <1>1, <1>4 DEF BuildPools, request, call
<1>5. CASE UNCHANGED vars
  BY <1>1, <1>5 DEF vars, process, request, call
<1>6. QED BY <1>2, <1>3, <1>4, <1>5, RequestCuts DEF Next

(* A process told to stop lets everyone finish whom it serves. *)
THEOREM NoneCutOff == Spec => []NobodyIsCutOff
BY InitType, TypeStep, InitRInv, RInvStep, InitDrain, DrainStep, CutStep, PTL DEF Spec
-----------------------------------------------------------------------------
(* Whom the gateway's handlers wait for. *)

(* A call in progress is one of a qa-svc that runs.                          *)
CallsRun == \A r \in Requests : at[r] \in InProgress => up["qa_svc"] = "running"

LEMMA InitCallsRun == Init => CallsRun
BY DEF Init, CallsRun, InProgress, Blocked

LEMMA CallsRunStep == TypeOK /\ CallsRun /\ [Next]_vars => CallsRun'
<1> SUFFICES ASSUME TypeOK, CallsRun, [Next]_vars, NEW q \in Requests, at'[q] \in InProgress
             PROVE  up'["qa_svc"] = "running"
  BY DEF CallsRun, InProgress, Blocked
<1>1. /\ at[q] \in InProgress => up["qa_svc"] = "running"
      /\ at \in [Requests -> Place] /\ up \in [Process -> {"building", "running", "exited"}]
      /\ "none" \notin InProgress /\ "replied" \notin InProgress
  BY DEF CallsRun, TypeOK, InProgress, Blocked
<1>2. CASE UNCHANGED <<at, up>>
  BY <1>1, <1>2
<1>3. ASSUME NEW r \in Requests, RequestStep(r)
      PROVE  up'["qa_svc"] = "running"
  <2>1. up' = up
    BY <1>3 DEF RequestStep, Arrive, GatewayStep, Authenticate, Verified, Handle, Respond,
       VerificationTimeout, ClientLeaves, Dispatch, FindSession, UseRedis, PoolTimeout, process
  <2>2. ASSUME NEW m, Send(r, m) PROVE up["qa_svc"] = "running"
    BY <1>1, <2>2 DEF Send, Accepts
  <2>3. CASE Arrive(r) \/ GatewayStep(r)
    BY <1>1, <2>1, <2>2, <2>3 DEF Arrive, GatewayStep, Authenticate, Verified, Handle, Respond, Forget, call
  <2>4. CASE VerificationTimeout(r) \/ ClientLeaves(r)
    BY <1>1, <2>1, <2>4 DEF VerificationTimeout, ClientLeaves, Abandon
  <2>5. CASE Dispatch(r) \/ FindSession(r) \/ UseRedis(r) \/ PoolTimeout(r)
    <3>1. at[r] \in InProgress
      BY <2>5 DEF Dispatch, FindSession, UseRedis, PoolTimeout, InProgress, Blocked
    <3>2. QED BY <2>1, <3>1 DEF CallsRun
  <2>6. QED BY <1>3, <2>3, <2>4, <2>5 DEF RequestStep
<1>4. ASSUME NEW p \in Process, ProcessStep(p)
      PROVE  up'["qa_svc"] = "running"
  <2>1. CASE Ends(p)
    <3>1. CASE p = "gateway"
      BY <1>1, <2>1, <3>1 DEF Ends, Abandon, Process
    <3>2. CASE p = "qa_svc"
      BY <1>1, <2>1, <3>2 DEF Ends, BreakCalls
    <3>3. QED BY <3>1, <3>2 DEF Process
  <2>2. CASE Restart(p)
    BY <1>1, <2>2 DEF Restart, Process, call
  <2>3. CASE ~Ends(p) /\ ~Restart(p)
    BY <1>2, <1>4, <2>3 DEF ProcessStep, ServerStep, MetricsStep, ServerStarts, StopAccepting,
       ServerStops, MetricsStart, MetricsStops, MainReturns, Signal, Crash, call
  <2>4. QED BY <2>1, <2>2, <2>3
<1>5. ASSUME NEW f \in Flushers, FlushStep(f)
      PROVE  up'["qa_svc"] = "running"
  BY <1>2, <1>5 DEF FlushStep, StartFlush, ScanFields, AddToRow, TakeOff, FlushTimeout, process, call
<1>6. CASE BuildPools
  BY <1>1, <1>6 DEF BuildPools, call
<1>7. CASE UNCHANGED vars
  BY <1>2, <1>7 DEF vars, process, call
<1>8. QED BY <1>3, <1>4, <1>5, <1>6, <1>7 DEF Next

(* Whoever waits has a reply, or a call at a qa-svc that runs: what is left  *)
(* to liveness is that such a call comes to its end.                         *)
THEOREM SomeoneWillAnswer == Spec => []NobodyWaitsInVain
<1>1. TypeOK /\ RInv /\ CallsRun => NobodyWaitsInVain
  <2> SUFFICES ASSUME TypeOK, RInv, CallsRun, NEW r \in Requests, Waiting(r), at[r] # "replied"
               PROVE  at[r] \in InProgress /\ up["qa_svc"] = "running"
    BY DEF NobodyWaitsInVain
  <2>1. at[r] # "none"
    BY DEF RInv, ReqInv, StepInv, Waiting
  <2>2. at[r] \in InProgress
    BY <2>1 DEF TypeOK, Place, InProgress, Blocked
  <2>3. QED BY <2>2 DEF CallsRun
<1>2. QED BY <1>1, InitType, TypeStep, InitRInv, RInvStep, InitCallsRun, CallsRunStep, PTL DEF Spec

-----------------------------------------------------------------------------
(* The two processes are one Exchange. *)

(* A call that is in progress has not had its effect, so that none is lost   *)
(* with it.                                                                  *)
LEMMA ChangeStays ==
    ASSUME TypeOK, RInv, [Next]_vars, NEW q \in Requests, effect[q] = TRUE
    PROVE  effect'[q] = TRUE
<1>1. at[q] \notin InProgress /\ effect \in [Requests -> BOOLEAN]
  BY DEF RInv, ReqInv, CallInv, TypeOK
<1>2. ASSUME NEW R, Abandon(R)
      PROVE  effect'[q] = TRUE
  <2>1. effect'[q] \in IF q \in R /\ at[q] = "queued" THEN PerhapsDone(q) ELSE {effect[q]}
    BY <1>2 DEF Abandon
  <2>2. QED BY <1>1, <2>1 DEF InProgress
<1>3. ASSUME BreakCalls
      PROVE  effect'[q] = TRUE
  <2>1. effect'[q] \in IF at[q] \in InProgress THEN PerhapsDone(q) ELSE {effect[q]}
    BY <1>3 DEF BreakCalls
  <2>2. QED BY <1>1, <2>1
<1>4. ASSUME NEW r \in Requests, RequestStep(r)
      PROVE  effect'[q] = TRUE
  <2>1. CASE Arrive(r) \/ GatewayStep(r)
    BY <2>1 DEF Arrive, GatewayStep, Authenticate, Verified, Handle, Respond, Send, Forget, call
  <2>2. CASE VerificationTimeout(r) \/ ClientLeaves(r)
    BY <1>2, <2>2 DEF VerificationTimeout, ClientLeaves
  <2>3. CASE Dispatch(r) \/ FindSession(r) \/ UseRedis(r) \/ PoolTimeout(r)
    <3>1. at[r] \in InProgress
      BY <2>3 DEF Dispatch, FindSession, UseRedis, PoolTimeout, InProgress, Blocked
    <3>2. q # r
      BY <1>1, <3>1
    <3>3. QED BY <1>1, <2>3, <3>2 DEF Dispatch, FindSession, UseRedis, PoolTimeout, ReplyWith
  <2>4. QED BY <1>4, <2>1, <2>2, <2>3 DEF RequestStep
<1>5. ASSUME NEW p \in Process, ProcessStep(p)
      PROVE  effect'[q] = TRUE
  <2>1. CASE Ends(p)
    BY <1>2, <1>3, <2>1 DEF Ends
  <2>2. CASE ~Ends(p)
    BY <1>5, <2>2 DEF ProcessStep, ServerStep, MetricsStep, ServerStarts, StopAccepting,
       ServerStops, MetricsStart, MetricsStops, MainReturns, Signal, Crash, Restart, call
  <2>3. QED BY <2>1, <2>2
<1>6. ASSUME NEW f \in Flushers, FlushStep(f)
      PROVE  effect'[q] = TRUE
  BY <1>6 DEF FlushStep, StartFlush, ScanFields, AddToRow, TakeOff, FlushTimeout, call
<1>7. CASE BuildPools
  BY <1>7 DEF BuildPools, call
<1>8. CASE UNCHANGED vars
  BY <1>8 DEF vars, call
<1>9. QED BY <1>4, <1>5, <1>6, <1>7, <1>8 DEF Next

(* What an answer has behind it: the change is made before, and only who is  *)
(* let through hears of success.                                             *)
Answered(q) == /\ Open(q) /\ step'[q] = "answered" /\ effect'[q] = effect[q]
               /\ status'[q] # 0 /\ (status'[q] = 200 => http[q] \in Admitted)

(* How a request may go on. *)
Moves(q) == \/ step'[q] = step[q] /\ status'[q] = status[q]
            \/ step[q] = "none" /\ step'[q] = "arrived" /\ effect'[q] = effect[q]
            \/ Open(q) /\ Open(q)'
            \/ Open(q) /\ step'[q] \in {"gone", "cut"}
            \/ Answered(q)

LEMMA NonzeroStatus ==
    ASSUME NEW c \in Codes, NEW h \in Http
    PROVE  VerificationStatus(c) # 0 /\ GrpcStatus(c) # 0 /\ OwnStatus(h) # 0
BY DEF Codes, GrpcStatus, VerificationStatus, OwnStatus, RejectionStatus

LEMMA GatewayMoves ==
    ASSUME TypeOK, RInv, NEW q \in Requests, GatewayStep(q) \/ VerificationTimeout(q)
    PROVE  Moves(q)
<1>1. /\ http[q] \in Asked /\ http[q] \in Http /\ code[q] \in Codes
      /\ step \in [Requests -> Step] /\ status \in [Requests -> Statuses]
  BY AskedAssumption DEF TypeOK, Statuses
<1>2. ReqInv(http[q], step[q], status[q], at[q], method[q], code[q], effect[q])
  BY DEF RInv
<1>3. step[q] \in {"routed", "forwarded"} => http[q] \in Admitted
  BY <1>1, <1>2 DEF ReqInv, StepInv, MayChange, Admitted
<1>4. ASSUME NEW s, Answer(q, s), effect'[q] = effect[q], Open(q), s # 0,
             s = 200 => step[q] \in {"routed", "forwarded"}
      PROVE  Moves(q)
  BY <1>1, <1>3, <1>4 DEF Answer, Moves, Answered
<1>5. ASSUME NEW s \in {"verifying", "routed", "forwarded"}, step' = [step EXCEPT ![q] = s], Open(q)
      PROVE  Moves(q)
  BY <1>1, <1>5 DEF Moves, Open
<1>6. CASE Authenticate(q)
  BY <1>4, <1>5, <1>6 DEF Authenticate, Open, call
<1>7. CASE Verified(q)
  <2>1. VerificationStatus(code[q]) # 0 /\ VerificationStatus(code[q]) # 200
    BY <1>1, NonzeroStatus, StatusFacts
  <2>2. QED BY <1>4, <1>5, <1>7, <2>1 DEF Verified, Forget, Open
<1>8. CASE Handle(q)
  <2>1. OwnStatus(http[q]) # 0
    BY <1>1, NonzeroStatus
  <2>2. QED BY <1>4, <1>5, <1>8, <2>1 DEF Handle, Open, call
<1>9. CASE Respond(q)
  <2> DEFINE s == IF code[q] = "OK" THEN 200 ELSE GrpcStatus(code[q])
  <2>1. s # 0
    BY <1>1, NonzeroStatus
  <2>2. Answer(q, s) /\ step[q] = "forwarded" /\ effect' = effect
    BY <1>9 DEF Respond, Forget
  <2> HIDE DEF s
  <2>3. QED BY <1>4, <2>1, <2>2 DEF Open
<1>10. CASE VerificationTimeout(q)
  <2>1. method[q] = "verify_token" /\ ~effect[q] /\ at[q] \in InProgress
    BY <1>2, <1>10 DEF VerificationTimeout, ReqInv, StepInv
  <2>2. \A e \in PerhapsDone(q) : e = effect[q]
    BY <2>1, DropFits DEF TypeOK
  <2>3. effect'[q] = effect[q]
    BY <1>10, <2>2 DEF VerificationTimeout, Abandon
  <2>4. QED BY <1>4, <1>10, <2>3 DEF VerificationTimeout, Open
<1>11. QED BY <1>6, <1>7, <1>8, <1>9, <1>10 DEF GatewayStep

LEMMA AllMove ==
    ASSUME TypeOK, RInv, [Next]_vars, NEW q \in Requests
    PROVE  Moves(q)
<1>1. step \in [Requests -> Step] /\ status \in [Requests -> Statuses]
  BY DEF TypeOK, Statuses
<1>2. CASE UNCHANGED request
  BY <1>2 DEF request, Moves
<1>3. ASSUME NEW r \in Requests, RequestStep(r)
      PROVE  Moves(q)
  <2>1. CASE r = q
    <3>1. CASE Arrive(q)
      BY <1>1, <3>1 DEF Arrive, Moves, call
    <3>2. CASE ClientLeaves(q)
      BY <1>1, <3>2 DEF ClientLeaves, Moves
    <3>3. CASE GatewayStep(q) \/ VerificationTimeout(q)
      BY <3>3, GatewayMoves
    <3>4. CASE Dispatch(q) \/ FindSession(q) \/ UseRedis(q) \/ PoolTimeout(q)
      BY <1>2, <3>4 DEF Dispatch, FindSession, UseRedis, PoolTimeout
    <3>5. QED BY <1>3, <2>1, <3>1, <3>2, <3>3, <3>4 DEF RequestStep
  <2>2. CASE r # q
    <3>1. step'[q] = step[q] /\ status'[q] = status[q]
      BY <1>1, <1>3, <2>2 DEF RequestStep, Arrive, GatewayStep, Authenticate, Verified, Handle, Respond,
         Answer, VerificationTimeout, ClientLeaves, Dispatch, FindSession, UseRedis, PoolTimeout, request
    <3>2. QED BY <3>1 DEF Moves
  <2>3. QED BY <2>1, <2>2
<1>4. ASSUME NEW p \in Process, ProcessStep(p)
      PROVE  Moves(q)
  <2>1. CASE Ends(p)
    BY <1>1, <2>1 DEF Ends, Moves
  <2>2. CASE ~Ends(p)
    BY <1>2, <1>4, <2>2 DEF ProcessStep, ServerStep, MetricsStep, ServerStarts, StopAccepting,
       ServerStops, MetricsStart, MetricsStops, MainReturns, Signal, Crash, Restart
  <2>3. QED BY <2>1, <2>2
<1>5. ASSUME NEW f \in Flushers, FlushStep(f)
      PROVE  Moves(q)
  BY <1>2, <1>5 DEF FlushStep, StartFlush, ScanFields, AddToRow, TakeOff, FlushTimeout
<1>6. CASE BuildPools
  BY <1>2, <1>6 DEF BuildPools
<1>7. CASE UNCHANGED vars
  BY <1>2, <1>7 DEF vars
<1>8. QED BY <1>3, <1>4, <1>5, <1>6, <1>7 DEF Next

LEMMA HttpStays == [Next]_vars => UNCHANGED http
BY DEF Next, vars, RequestStep, Arrive, GatewayStep, Authenticate, Verified, Handle, Respond,
   VerificationTimeout, ClientLeaves, Dispatch, FindSession, UseRedis, PoolTimeout,
   FlushStep, StartFlush, ScanFields, AddToRow, TakeOff, FlushTimeout, BuildPools, ProcessStep,
   ServerStep, MetricsStep, ServerStarts, StopAccepting, ServerStops, MetricsStart, MetricsStops,
   MainReturns, Signal, Crash, Restart, Ends

(* The invariants of one request before and after a step allow only what     *)
(* Exchange allows it.                                                        *)
LEMMA ExchangeMove ==
    ASSUME TypeOK, RInv, TypeOK', RInv', [Next]_vars, NEW q \in Requests
    PROVE  Promised!Come(q) \/ Promised!Answer(q) \/ Promised!Drop(q)
           \/ Promised!Work(q) \/ Promised!Rest(q)
<1>1. /\ http'[q] = http[q] /\ http[q] \in Asked
      /\ step[q] \in Step /\ step'[q] \in Step /\ effect[q] \in BOOLEAN /\ effect'[q] \in BOOLEAN
  BY HttpStays DEF TypeOK
<1>2. /\ ReqInv(http[q], step[q], status[q], at[q], method[q], code[q], effect[q])
      /\ ReqInv(http[q], step'[q], status'[q], at'[q], method'[q], code'[q], effect'[q])
  BY <1>1 DEF RInv
<1>3. effect'[q] = effect[q] \/ (http[q] \in Changing /\ effect'[q] = TRUE)
  <2>1. effect'[q] => http[q] \in Changing
    BY <1>1, <1>2 DEF ReqInv, CallInv, MayChange, Changing, Admitted
  <2>2. QED BY <1>1, <2>1, ChangeStays
<1>4. step[q] # "answered" /\ step'[q] # "answered" => status'[q] = status[q]
  BY <1>2 DEF ReqInv, StepInv
<1>5. step[q] \in {"none", "answered"} /\ step'[q] = step[q] => effect'[q] = effect[q]
  BY <1>1, <1>2, NothingBehindStep DEF ReqInv, StepInv
<1>6. /\ Phase(q) = IF step[q] = "none" THEN "coming" ELSE IF Open(q) THEN "open"
                    ELSE IF step[q] = "answered" THEN "answered" ELSE "dropped"
      /\ Phase(q)' = IF step'[q] = "none" THEN "coming" ELSE IF Open(q)' THEN "open"
                     ELSE IF step'[q] = "answered" THEN "answered" ELSE "dropped"
  BY DEF Phase, Open
<1> USE DEF Promised!Becomes, Promised!NoAnswer, Promised!NoChange, Promised!MayTakeEffect
<1>7. CASE step'[q] = step[q] /\ status'[q] = status[q]
  <2>1. Phase(q)' = Phase(q)
    BY <1>7 DEF Phase, Open
  <2>2. CASE step[q] \in {"none", "answered"}
    BY <1>5, <1>7, <2>1, <2>2 DEF Promised!Rest
  <2>3. CASE step[q] \notin {"none", "answered"}
    BY <1>1, <1>3, <1>6, <1>7, <2>1, <2>3 DEF Promised!Work
  <2>4. QED BY <2>2, <2>3
<1>8. CASE step[q] = "none" /\ step'[q] = "arrived" /\ effect'[q] = effect[q]
  BY <1>4, <1>6, <1>8 DEF Promised!Come, Open
<1>9. CASE Open(q) /\ Open(q)'
  BY <1>3, <1>4, <1>6, <1>9 DEF Promised!Work, Open
<1>10. CASE Open(q) /\ step'[q] \in {"gone", "cut"}
  BY <1>3, <1>4, <1>6, <1>10 DEF Promised!Drop, Open
<1>11. CASE Answered(q)
  <2>1. Phase(q) = "open" /\ Phase(q)' = "answered"
    BY <1>6, <1>11 DEF Answered, Open
  <2>2. StatusFits(http[q], status'[q], effect[q])
    BY <1>2, <1>11 DEF ReqInv, StepInv, Answered
  <2>3. QED BY <1>11, <2>1, <2>2 DEF Promised!Answer, Answered, StatusFits, Promising
<1>12. QED BY <1>7, <1>8, <1>9, <1>10, <1>11, AllMove DEF Moves

(* Every step of the gateway, of qa-svc, of a timer, of a signal, crash or   *)
(* restart does for each client what Exchange says.                          *)
THEOREM ServiceImplementsExchange == Spec => ImplementsExchange
<1>1. Init => Promised!Init
  BY AskedAssumption DEF Init, Promised!Init, Phase, Open
<1>2. TypeOK /\ RInv /\ TypeOK' /\ RInv' /\ [Next]_vars => [Promised!Next]_(Promised!vars)
  BY ExchangeMove, HttpStays DEF Promised!Next
<1>3. QED BY <1>1, <1>2, InitType, TypeStep, InitRInv, RInvStep, PTL
          DEF Spec, ImplementsExchange, Promised!Spec
=============================================================================
