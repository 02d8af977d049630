------------------------------- MODULE Service -------------------------------
(* The two processes and what happens to an HTTP request on its way through  *)
(* them: gateway authenticates it with one gRPC call to qa-svc and forwards  *)
(* it with a second; qa-svc answers calls with the connections of one Redis  *)
(* pool, which a flush of the read counts may share.  Processes start, fail  *)
(* to start, are told to stop, drain, crash and are started again.           *)
EXTENDS Gateway, FiniteSets

CONSTANTS
    Requests,     \* HTTP requests, one attempt each
    Asked,        \* what they may ask
    Flushers,     \* calls of QuestionRepository::handler that use qa-svc's pool
    PoolSize,     \* connections of qa-svc's Redis pool
    Workers,      \* tokio worker threads of qa-svc
    MaxFields,    \* bound: fields a flush moves
    MaxSignals,   \* bound: signals a process is sent
    MaxRestarts   \* bound: times a process is started again

Process == {"gateway", "qa_svc"}

ASSUME AskedAssumption == Asked \subseteq Http
ASSUME SizeAssumption == /\ PoolSize \in Nat \ {0} /\ Workers \in Nat \ {0}
                         /\ MaxFields \in Nat /\ MaxSignals \in Nat /\ MaxRestarts \in Nat

VARIABLES
    up,       \* of a process: building its pools, running, exited
    server,   \* of a process: its task that serves HTTP or gRPC
    metrics,  \* of a process: its task that serves /metrics
    signals,  \* plan, of a process: signals it will be sent
    restarts, \* plan, of a process: times it will be started again
    kills,    \* plan: processes that will be killed
    cut,      \* history: processes that ended without both tasks having ended
    http,     \* plan, of a request: what it asks
    step,     \* of a request: how far the gateway is with it
    status,   \* of a request: the HTTP status it was answered with, or 0
    at,       \* of a request: where its current gRPC call is
    method,   \* of a request: the method of that call
    code,     \* of a request: the code that call was answered with
    effect,   \* history, of a request: a handler has changed something for it
    flush,    \* of a flusher: idle, entering, holding, asking, over
    left      \* of a flusher: fields it has still to move

task == <<server, metrics>>
plan == <<signals, restarts, kills>>
process == <<up, task, plan, cut>>
request == <<step, status>>
call == <<at, method, code, effect>>
flushes == <<flush, left>>
vars == <<process, http, request, call, flushes>>

TaskState == {"off", "starting", "serving", "told", "draining", "done", "failed"}
Step == {"none", "arrived", "verifying", "routed", "forwarded", "answered", "gone", "cut"}
Place == {"none", "queued", "looking", "asking", "replied"}

(* What will be asked and what will happen to the processes is chosen here:  *)
(* the environment's part is a choice among initial states.  A request whose *)
(* client is gone, and a flush that is over, never come.                     *)
Init == /\ up = [p \in Process |-> IF p = "gateway" THEN "running" ELSE "building"]
        /\ server = [p \in Process |-> IF p = "gateway" THEN "starting" ELSE "off"]
        /\ metrics = server
        /\ signals \in [Process -> 0..MaxSignals]
        /\ restarts \in [Process -> 0..MaxRestarts]
        /\ kills \in SUBSET Process
        /\ cut = {}
        /\ http \in [Requests -> Asked]
        /\ step \in [Requests -> {"none", "gone"}]
        /\ status = [r \in Requests |-> 0]
        /\ at = [r \in Requests |-> "none"]
        /\ method = [r \in Requests |-> "verify_token"]
        /\ code = [r \in Requests |-> "OK"]
        /\ effect = [r \in Requests |-> FALSE]
        /\ flush \in [Flushers -> {"idle", "over"}]
        /\ left \in [Flushers -> 0..MaxFields]

-----------------------------------------------------------------------------
Open(r) == step[r] \in {"arrived", "verifying", "routed", "forwarded"}
Waiting(r) == step[r] \in {"verifying", "forwarded"}

(* A call with a reply still to come; one that waits for a connection does   *)
(* so with its thread (r2d2's get blocks) and cannot be dropped meanwhile.   *)
Blocked == {"looking", "asking"}
InProgress == {"queued"} \cup Blocked

Accepts(p) == up[p] = "running" /\ server[p] \in {"serving", "told"}

(* A flush holds its connection from one HSCAN to the next. *)
FreeConnection == Cardinality({f \in Flushers : flush[f] \in {"holding", "asking"}}) < PoolSize

FreeWorker == Cardinality({r \in Requests : at[r] \in Blocked})
              + Cardinality({f \in Flushers : flush[f] \in {"entering", "asking"}}) < Workers

(* What a call may have done when nobody waits for its end.                  *)
PerhapsDone(r) ==
    {effect[r]} \cup {reply.effect : reply \in RepliesAtOnce(method[r], http[r].token)
                                          \cup RepliesWithRedis(method[r], http[r].token)}

-----------------------------------------------------------------------------
(* The gateway handles a request. *)

Arrive(r) == /\ step[r] = "none" /\ Accepts("gateway")
             /\ step' = [step EXCEPT ![r] = "arrived"]
             /\ UNCHANGED <<process, http, status, call, flushes>>

Answer(r, s) == /\ step' = [step EXCEPT ![r] = "answered"]
                /\ status' = [status EXCEPT ![r] = s]

(* A method of QaServiceClient: without a connection there is an error       *)
(* status at once.  The client has no deadline of its own.                   *)
Send(r, m) == /\ method' = [method EXCEPT ![r] = m]
              /\ at' = [at EXCEPT ![r] = IF Accepts("qa_svc") THEN "queued" ELSE "replied"]
              /\ code' = [code EXCEPT ![r] = IF Accepts("qa_svc") THEN "OK" ELSE "Unavailable"]
              /\ UNCHANGED effect

(* The reply was taken. *)
Forget(r) == /\ at' = [at EXCEPT ![r] = "none"]
             /\ code' = [code EXCEPT ![r] = "OK"]
             /\ UNCHANGED <<method, effect>>

(* verify_token, up to the call. *)
Authenticate(r) ==
    /\ step[r] = "arrived"
    /\ UNCHANGED <<process, http, flushes>>
    /\ \/ /\ IsPublicPath(http[r].route)
          /\ step' = [step EXCEPT ![r] = "routed"]
          /\ UNCHANGED <<status, call>>
       \/ /\ ~IsPublicPath(http[r].route) /\ ~AuthorizationToken(http[r])
          /\ Answer(r, 401)
          /\ UNCHANGED call
       \/ /\ ~IsPublicPath(http[r].route) /\ AuthorizationToken(http[r])
          /\ step' = [step EXCEPT ![r] = "verifying"]
          /\ Send(r, "verify_token")
          /\ UNCHANGED status

(* Defect: any reply that is not an error lets the request through.          *)
Verified_StateIgnored(r) ==
    /\ step[r] = "verifying" /\ at[r] = "replied"
    /\ IF code[r] \in {"OK", "NoSession", "NoName"}
         THEN step' = [step EXCEPT ![r] = "routed"] /\ UNCHANGED status
         ELSE Answer(r, VerificationStatus(code[r]))
    /\ Forget(r)
    /\ UNCHANGED <<process, http, flushes>>

(* verify_token, from the reply. *)
Verified(r) ==
    /\ step[r] = "verifying" /\ at[r] = "replied"
    /\ IF code[r] = "OK"
         THEN step' = [step EXCEPT ![r] = "routed"] /\ UNCHANGED status
         ELSE Answer(r, VerificationStatus(code[r]))
    /\ Forget(r)
    /\ UNCHANGED <<process, http, flushes>>

(* The handler of the route. *)
Handle(r) ==
    /\ step[r] = "routed"
    /\ UNCHANGED <<process, http, flushes>>
    /\ IF Forwards(http[r])
         THEN /\ step' = [step EXCEPT ![r] = "forwarded"]
              /\ Send(r, Method(http[r].route))
              /\ UNCHANGED status
         ELSE Answer(r, OwnStatus(http[r])) /\ UNCHANGED call

Respond(r) ==
    /\ step[r] = "forwarded" /\ at[r] = "replied"
    /\ Answer(r, IF code[r] = "OK" THEN 200 ELSE GrpcStatus(code[r]))
    /\ Forget(r)
    /\ UNCHANGED <<process, http, flushes>>

(* The gateway no longer waits for the calls of the requests in R: qa-svc    *)
(* drops a handler at its next await.                                        *)
Abandon(R) ==
    /\ at' = [r \in Requests |-> IF r \in R /\ at[r] \notin Blocked THEN "none" ELSE at[r]]
    /\ effect' \in {e \in [Requests -> BOOLEAN] : \A r \in Requests :
           e[r] \in IF r \in R /\ at[r] = "queued" THEN PerhapsDone(r) ELSE {effect[r]}}
    /\ code' = [r \in Requests |-> IF r \in R THEN "OK" ELSE code[r]]
    /\ UNCHANGED method

(* Defect: the deadline is put around every call. *)
VerificationTimeout_EveryCall(r) ==
    /\ Waiting(r) /\ at[r] \in InProgress
    /\ Answer(r, 500)
    /\ Abandon({r})
    /\ UNCHANGED <<process, http, flushes>>

(* TOKEN_VERIFICATION_TIMEOUT; a reply that is there is taken first. *)
VerificationTimeout(r) ==
    /\ step[r] = "verifying" /\ at[r] \in InProgress
    /\ Answer(r, 500)
    /\ Abandon({r})
    /\ UNCHANGED <<process, http, flushes>>

(* The client closes its connection: the handler's future is dropped. *)
ClientLeaves(r) ==
    /\ Open(r)
    /\ step' = [step EXCEPT ![r] = "gone"]
    /\ Abandon({r})
    /\ UNCHANGED <<process, http, status, flushes>>

-----------------------------------------------------------------------------
(* qa-svc handles a call. *)

(* A reply nobody waits for goes nowhere. *)
ReplyWith(r, reply) ==
    /\ at' = [at EXCEPT ![r] = IF Waiting(r) THEN "replied" ELSE "none"]
    /\ code' = [code EXCEPT ![r] = IF Waiting(r) THEN reply.code ELSE "OK"]
    /\ effect' = [effect EXCEPT ![r] = @ \/ reply.effect]
    /\ UNCHANGED method

(* QaServiceServer::call and the handler, up to its reply or to the pool. *)
Dispatch(r) ==
    /\ at[r] = "queued" /\ FreeWorker
    /\ \/ \E reply \in RepliesAtOnce(method[r], http[r].token) : ReplyWith(r, reply)
       \/ /\ AsksRedis(method[r], http[r].token)
          /\ at' = [at EXCEPT ![r] = IF method[r] = "user_login" THEN "looking" ELSE "asking"]
          /\ UNCHANGED <<method, code, effect>>
    /\ UNCHANGED <<process, http, request, flushes>>

(* user_login looks for a session; an error counts as none. *)
FindSession(r) ==
    /\ at[r] = "looking"
    /\ \/ FreeConnection /\ ReplyWith(r, Undone("AlreadyExists"))
       \/ at' = [at EXCEPT ![r] = "asking"] /\ UNCHANGED <<method, code, effect>>
    /\ UNCHANGED <<process, http, request, flushes>>

UseRedis(r) ==
    /\ at[r] = "asking" /\ FreeConnection
    /\ \E reply \in RepliesWithRedis(method[r], http[r].token) : ReplyWith(r, reply)
    /\ UNCHANGED <<process, http, request, flushes>>

(* connection_timeout of the pool. *)
PoolTimeout(r) ==
    /\ at[r] = "asking"
    /\ ReplyWith(r, ReplyWithoutRedis(method[r]))
    /\ UNCHANGED <<process, http, request, flushes>>

-----------------------------------------------------------------------------
(* handler_redis_topg: with a connection it scans a batch and, for each      *)
(* field, awaits an UPDATE and asks for a second connection to take the      *)
(* value off the field.                                                      *)

StartFlush(f) ==
    /\ flush[f] = "idle" /\ up["qa_svc"] = "running" /\ FreeWorker
    /\ flush' = [flush EXCEPT ![f] = "entering"]
    /\ UNCHANGED <<left, process, http, request, call>>

StopFlush(f) == flush' = [flush EXCEPT ![f] = "over"] /\ left' = [left EXCEPT ![f] = 0]

ScanFields(f) ==
    /\ flush[f] = "entering" /\ FreeConnection
    /\ IF left[f] = 0
         THEN StopFlush(f)
         ELSE flush' = [flush EXCEPT ![f] = "holding"] /\ UNCHANGED left
    /\ UNCHANGED <<process, http, request, call>>

AddToRow(f) ==
    /\ flush[f] = "holding" /\ FreeWorker
    /\ \/ flush' = [flush EXCEPT ![f] = "asking"] /\ UNCHANGED left
       \/ StopFlush(f)
    /\ UNCHANGED <<process, http, request, call>>

(* Defect: the end of the batch is not noticed. *)
TakeOff_NoEnd(f) ==
    /\ flush[f] = "asking" /\ FreeConnection
    /\ flush' = [flush EXCEPT ![f] = "holding"]
    /\ left' = [left EXCEPT ![f] = @ - 1]
    /\ UNCHANGED <<process, http, request, call>>

(* The field is done: another one of the batch, another batch, or the end    *)
(* (a last batch that is empty is not told from the end).                    *)
TakeOff(f) ==
    /\ flush[f] = "asking" /\ FreeConnection
    /\ IF left[f] > 1
         THEN /\ flush' \in {[flush EXCEPT ![f] = s] : s \in {"holding", "entering"}}
              /\ left' = [left EXCEPT ![f] = @ - 1]
         ELSE StopFlush(f)
    /\ UNCHANGED <<process, http, request, call>>

(* Defect: only the first connection of a batch is waited for with a limit.  *)
FlushTimeout_FirstOnly(f) ==
    /\ flush[f] = "entering"
    /\ StopFlush(f)
    /\ UNCHANGED <<process, http, request, call>>

(* connection_timeout: the flush ends and its connection is given back. *)
FlushTimeout(f) ==
    /\ flush[f] \in {"entering", "asking"}
    /\ StopFlush(f)
    /\ UNCHANGED <<process, http, request, call>>
-----------------------------------------------------------------------------
(* The processes: start-up. *)

(* main of qa-svc builds its pools before it spawns its tasks. *)
BuildPools ==
    /\ up["qa_svc"] = "building"
    /\ \/ /\ up' = [up EXCEPT !["qa_svc"] = "running"]
          /\ server' = [server EXCEPT !["qa_svc"] = "starting"]
          /\ metrics' = [metrics EXCEPT !["qa_svc"] = "starting"]
       \/ up' = [up EXCEPT !["qa_svc"] = "exited"] /\ UNCHANGED task
    /\ UNCHANGED <<plan, cut, http, request, call, flushes>>

(* The gateway connects to qa-svc first.  Either task may fail to bind its   *)
(* port; a task listens for signals from when it serves.                     *)
ServerStarts(p) ==
    /\ server[p] = "starting"
    /\ \/ /\ p = "gateway" => Accepts("qa_svc")
          /\ server' = [server EXCEPT ![p] = "serving"]
       \/ server' = [server EXCEPT ![p] = "failed"]
    /\ UNCHANGED <<up, metrics, plan, cut, http, request, call, flushes>>

MetricsStart(p) ==
    /\ metrics[p] = "starting"
    /\ metrics' \in {[metrics EXCEPT ![p] = s] : s \in {"serving", "failed"}}
    /\ UNCHANGED <<up, server, plan, cut, http, request, call, flushes>>

-----------------------------------------------------------------------------
(* The processes: how they end. *)

(* Defect: nobody notices that the connection is gone.                       *)
BreakCalls_Unnoticed ==
    /\ at' = [r \in Requests |-> IF at[r] \in InProgress THEN "none" ELSE at[r]]
    /\ effect' \in {e \in [Requests -> BOOLEAN] : \A r \in Requests :
           e[r] \in IF at[r] \in InProgress THEN PerhapsDone(r) ELSE {effect[r]}}
    /\ UNCHANGED <<method, code>>

(* Those who wait for qa-svc get an error; what else it was doing stops.     *)
BreakCalls ==
    /\ at' = [r \in Requests |-> IF at[r] \notin InProgress THEN at[r]
                                 ELSE IF Waiting(r) THEN "replied" ELSE "none"]
    /\ code' = [r \in Requests |-> IF at[r] \in InProgress /\ Waiting(r) THEN "Lost" ELSE code[r]]
    /\ effect' \in {e \in [Requests -> BOOLEAN] : \A r \in Requests :
           e[r] \in IF at[r] \in InProgress THEN PerhapsDone(r) ELSE {effect[r]}}
    /\ UNCHANGED method

(* The process is gone, and what it was doing with it. *)
Ends(p) ==
    /\ up' = [up EXCEPT ![p] = "exited"]
    /\ server' = [server EXCEPT ![p] = "off"]
    /\ metrics' = [metrics EXCEPT ![p] = "off"]
    /\ UNCHANGED <<restarts, http, status>>
    /\ \/ /\ p = "gateway"
          /\ step' = [r \in Requests |-> IF Open(r) THEN "cut" ELSE step[r]]
          /\ Abandon({r \in Requests : Open(r)})
          /\ UNCHANGED flushes
       \/ /\ p = "qa_svc"
          /\ BreakCalls
          /\ flush' = [f \in Flushers |-> IF flush[f] = "idle" THEN "idle" ELSE "over"]
          /\ left' = [f \in Flushers |-> IF flush[f] = "idle" THEN left[f] ELSE 0]
          /\ UNCHANGED step

Ended(t) == t \in {"done", "failed"}

(* Defect: the process ends with the first of its tasks. *)
MainReturns_Select(p) ==
    /\ up[p] = "running"
    /\ Ended(server[p]) \/ Ended(metrics[p])
    /\ cut' = cut
    /\ Ends(p)
    /\ UNCHANGED <<signals, kills>>

(* join! waits for both tasks and drops their results; try_join! of qa-svc   *)
(* returns at once when a task has panicked, which only metrics does.        *)
MainReturns(p) ==
    /\ up[p] = "running"
    /\ \/ Ended(server[p]) /\ Ended(metrics[p]) /\ cut' = cut
       \/ p = "qa_svc" /\ metrics[p] = "failed" /\ ~Ended(server[p]) /\ cut' = cut \cup {p}
    /\ Ends(p)
    /\ UNCHANGED <<signals, kills>>

(* A task that listens takes the signal.  Once a task has listened the       *)
(* default action is off; before, the signal kills the process.              *)
Listening(t) == IF t = "serving" THEN "told" ELSE t

Signal(p) ==
    /\ up[p] # "exited" /\ signals[p] > 0
    /\ signals' = [signals EXCEPT ![p] = @ - 1]
    /\ IF {server[p], metrics[p]} \subseteq {"off", "starting", "failed"}
         THEN cut' = cut \cup {p} /\ Ends(p)
         ELSE /\ server' = [server EXCEPT ![p] = Listening(@)]
              /\ metrics' = [metrics EXCEPT ![p] = Listening(@)]
              /\ UNCHANGED <<up, restarts, cut, http, request, call, flushes>>
    /\ UNCHANGED kills

(* graceful_shutdown has slept: no connection is accepted any more. *)
StopAccepting(p) ==
    /\ server[p] = "told"
    /\ server' = [server EXCEPT ![p] = "draining"]
    /\ UNCHANGED <<up, metrics, plan, cut, http, request, call, flushes>>

MetricsStops(p) ==
    /\ metrics[p] = "told"
    /\ metrics' = [metrics EXCEPT ![p] = "done"]
    /\ UNCHANGED <<up, server, plan, cut, http, request, call, flushes>>

(* Defect: the gateway waits until everyone has got an answer.               *)
Drained_AllAnswered(p) ==
    IF p = "gateway" THEN \A r \in Requests : step[r] \in {"none", "answered"}
                     ELSE \A r \in Requests : at[r] \in InProgress => ~Waiting(r)

(* What a server finishes before it ends. *)
Drained(p) ==
    IF p = "gateway" THEN \A r \in Requests : ~Open(r)
                     ELSE \A r \in Requests : at[r] \in InProgress => ~Waiting(r)

ServerStops(p) ==
    /\ server[p] = "draining" /\ Drained(p)
    /\ server' = [server EXCEPT ![p] = "done"]
    /\ UNCHANGED <<up, metrics, plan, cut, http, request, call, flushes>>

Crash(p) ==
    /\ p \in kills /\ up[p] # "exited"
    /\ kills' = kills \ {p}
    /\ cut' = cut \cup {p}
    /\ Ends(p)
    /\ UNCHANGED signals

(* An operator starts the process again; the gateway's channel reconnects to *)
(* qa-svc by itself.                                                         *)
Restart(p) ==
    /\ up[p] = "exited" /\ restarts[p] > 0
    /\ restarts' = [restarts EXCEPT ![p] = @ - 1]
    /\ up' = [up EXCEPT ![p] = IF p = "gateway" THEN "running" ELSE "building"]
    /\ server' = [server EXCEPT ![p] = IF p = "gateway" THEN "starting" ELSE "off"]
    /\ metrics' = [metrics EXCEPT ![p] = IF p = "gateway" THEN "starting" ELSE "off"]
    /\ UNCHANGED <<signals, kills, cut, http, request, call, flushes>>

-----------------------------------------------------------------------------
GatewayStep(r) == Authenticate(r) \/ Verified(r) \/ Handle(r) \/ Respond(r)

RequestStep(r) == \/ Arrive(r) \/ GatewayStep(r) \/ VerificationTimeout(r) \/ ClientLeaves(r)
                  \/ Dispatch(r) \/ FindSession(r) \/ UseRedis(r) \/ PoolTimeout(r)

FlushStep(f) == StartFlush(f) \/ ScanFields(f) \/ AddToRow(f) \/ TakeOff(f) \/ FlushTimeout(f)

ServerStep(p) == ServerStarts(p) \/ StopAccepting(p) \/ ServerStops(p)
MetricsStep(p) == MetricsStart(p) \/ MetricsStops(p)

ProcessStep(p) == \/ ServerStep(p) \/ MetricsStep(p) \/ MainReturns(p)
                  \/ Signal(p) \/ Crash(p) \/ Restart(p)

Next == \/ \E r \in Requests : RequestStep(r)
        \/ \E f \in Flushers : FlushStep(f)
        \/ \E p \in Process : ProcessStep(p)
        \/ BuildPools

Spec == Init /\ [][Next]_vars

(* The two runtimes go on, and timers fire; a task that is ready again and   *)
(* again gets a worker.  Nobody has to send a signal, start a flush or find  *)
(* a connection free.                                                        *)
Fairness ==
    /\ \A r \in Requests : /\ WF_vars(GatewayStep(r)) /\ SF_vars(Dispatch(r))
                           /\ WF_vars(FindSession(r) \/ PoolTimeout(r))
    /\ \A f \in Flushers : WF_vars(FlushTimeout(f)) /\ SF_vars(AddToRow(f))
    /\ \A p \in Process : /\ WF_vars(ServerStep(p)) /\ WF_vars(MetricsStep(p))
                          /\ WF_vars(MainReturns(p))
    /\ WF_vars(BuildPools)

FairSpec == Spec /\ Fairness

-----------------------------------------------------------------------------
TypeOK == /\ up \in [Process -> {"building", "running", "exited"}]
          /\ server \in [Process -> TaskState] /\ metrics \in [Process -> TaskState]
          /\ signals \in [Process -> 0..MaxSignals] /\ restarts \in [Process -> 0..MaxRestarts]
          /\ kills \subseteq Process /\ cut \subseteq Process
          /\ http \in [Requests -> Asked]
          /\ step \in [Requests -> Step]
          /\ status \in [Requests -> {0, 200, 400, 401, 403, 404, 405, 415, 500}]
          /\ at \in [Requests -> Place] /\ method \in [Requests -> Methods]
          /\ code \in [Requests -> Codes] /\ effect \in [Requests -> BOOLEAN]
          /\ flush \in [Flushers -> {"idle", "entering", "holding", "asking", "over"}]
          /\ left \in [Flushers -> 0..MaxFields]

(* The HTTP status tells the client what became of its request: after a 4xx  *)
(* nothing was changed and it may be sent again corrected; after a 200 of a  *)
(* method that promises a change, the change is there.                       *)
StatusTellsEffect ==
    \A r \in Requests :
        /\ status[r] \in 400..499 => ~effect[r]
        /\ status[r] = 200 /\ Forwards(http[r]) /\ Method(http[r].route) \in Promises => effect[r]

(* Only a well-formed request makes qa-svc change anything, and, unless it   *)
(* is to register or to log in, only with a good token and for the user the  *)
(* token is of: no order of timeouts, crashes and restarts gets round the    *)
(* middleware.                                                               *)
EffectWasAllowed ==
    \A r \in Requests : effect[r] =>
        /\ Forwards(http[r])
        /\ IsPublicPath(http[r].route) \/ http[r].token = "live"

(* A process that ends as its tasks end cuts nobody off: the gateway leaves  *)
(* no request without an answer, and no call of qa-svc is lost.              *)
NobodyIsCutOff ==
    \A r \in Requests : /\ step[r] = "cut" => "gateway" \in cut
                        /\ code[r] = "Lost" => "qa_svc" \in cut

(* Whoever waits has something to wait for, as the RPCs have no deadline: a  *)
(* reply, or a call in progress at a qa-svc that runs.  No crash, stop or    *)
(* start again, of either side and at any point of a call, leaves a waiter   *)
(* whom nobody will answer.                                                  *)
NobodyWaitsInVain ==
    \A r \in Requests : Waiting(r) =>
        at[r] = "replied" \/ (at[r] \in InProgress /\ up["qa_svc"] = "running")

(* Nothing happens for a request behind its answer: only the verification    *)
(* has a deadline, and it changes nothing.                                   *)
NothingBehindTheAnswer ==
    [][\A r \in Requests : step[r] = "answered" => effect'[r] = effect[r]]_vars

(* What Exchange speaks of.                                                  *)
Phase(r) == CASE step[r] = "none" -> "coming"
              [] Open(r) -> "open"
              [] step[r] = "answered" -> "answered"
              [] OTHER -> "dropped"

Admitted == {h \in Asked : IsPublicPath(h.route) \/ h.token = "live"}
Changing == {h \in Admitted : Forwards(h)}
Promising == {h \in Asked : Forwards(h) /\ Method(h.route) \in Promises}

Promised == INSTANCE Exchange WITH ask <- http, phase <- [r \in Requests |-> Phase(r)]

(* To the client the two processes are one Exchange: its request is answered *)
(* once or never, the answer is final and true, and no crash, restart, stop  *)
(* or timeout takes back a change or makes one behind an answer.             *)
ImplementsExchange == Promised!Spec

(* Every request is answered, unless its client leaves or the gateway dies,  *)
(* although the RPCs have no deadline and flushes may take every connection  *)
(* and ask for more (PostgreSQL and Redis answering, with errors or not).    *)
AnsweredInTheEnd == \A r \in Requests : Open(r) ~> ~Open(r)

(* A flush that waits for a second connection while it keeps the first does  *)
(* not wait forever, even if every connection is held by such a flush.       *)
FlushEnds == \A f \in Flushers : (flush[f] = "entering") ~> (flush[f] = "over")

(* A process both of whose tasks have heard the signal ends, after the calls *)
(* it has begun, for which the drain sets no limit.                          *)
Told(p) == server[p] = "told" /\ metrics[p] = "told"
SignalEndsProcess == \A p \in Process : Told(p) ~> (up[p] = "exited")
=============================================================================
