# A specification of qa-sys

qa-sys is a question-and-answer service: an HTTP gateway (axum) in front of a
gRPC service, `qa-svc` (tonic), which keeps its data in PostgreSQL, sessions and
read counters in Redis, and passes votes through a Pulsar topic. This directory
holds TLA+ models of its parts, the TLC configurations that check them on small
instances, and TLAPS proofs for all instances. Paths below are relative to
`src/crates/` unless they start with `migrations/` or `proto/`.

## 1. The system: an inventory

| Component | State | Operations | Interacts with |
|---|---|---|---|
| **Votes** `qa-svc/src/application/app.rs` (`agree_answer`, `answer_agree`), `core/user_vote.rs` | tables `answers` (`agree_count`), `users_votes`; the Pulsar topic and its subscription | the two gRPC calls, `publish`, `consumer`, `handler_answer_agree`, `vote_answer`, `cancel_vote_answer`, `is_voted`, `is_batch_voted` | answers (deletion), broker |
| **Read counts** `question_detail`, `core/question.rs` | `questions.read_count`; Redis hash `qa-sys:question:read_count:hash` | `incr`, `handler` (`handler_redis_topg`, `reids_cmd`, `update_read_count`) | questions (deletion), Redis |
| **Users and sessions** `user_register`, `user_login`, `user_logout`, `verify_token`, `core/user.rs` | table `users`; Redis keys `user_login:<openid>` with a time to live; tokens held by clients | those four calls, `check_token` | gateway, Redis, AES |
| **Gateway** `gateway/src/router.rs`, `handler/qa.rs`, `handler/json_or_form.rs` | none but the requests in flight | `verify_token` (3 s timeout) in front of all but the public paths; one handler per gRPC call; the extractor, `authenticated_username`, `authenticated_token`; the status of a gRPC error | qa-svc |
| **Questions and answers** `core/question.rs`, `core/answer.rs` | tables `questions`, `answers` | add, update, delete, find_one | votes, read counts |
| **Lists** `find_latest` of both repositories, `domain/entity/answer.rs` | none | cursor paging of questions, offset paging of answers, `try_new` | tables |
| **Processes** `qa-svc/src/main.rs`, `gateway/src/main.rs`, `core/src/shutdown.rs`, `metrics.rs` | two tasks each | start, serve, graceful shutdown | everything |
| **Redis pool** `core/src/xredis.rs`, `qa-svc/src/config/xredis.rs` | its connections | `get`, with a connection timeout | sessions, read counts, flushes |
| **Generated gRPC code** `pb/src/pb.rs` | none | the client's methods, the dispatch of the server | gateway, qa-svc |
| AES, configuration files, response headers, `apps/server` | none that changes | | |

Behaviours that are hard here:

* **Concurrency without transactions.** Every gRPC call is a handful of separate
  queries. The vote test, the session test and the name test are all made in one
  statement and acted upon in another; only the name has a UNIQUE key behind it.
* **Two stores.** A read moves from Redis to PostgreSQL in two commands with no
  common transaction; a login lives in a token and in a Redis key.
* **At-least-once delivery.** A vote message is delivered again whenever its
  acknowledgement did not reach the broker, and a message whose handler failed
  is delivered again only when the subscription is opened anew, after messages
  that were behind it.
* **Failures in the middle.** Reads that fail and are taken for an answer
  (`unwrap_or(false)`, `res.is_ok()`), commands that fail after taking effect,
  a consumer loop that ends for good on a failed ack.
* **Time.** A token's expiry time and the session's time to live start at
  different moments; the verification of a token has a deadline, the call that
  follows it has none.
* **A pool that is asked twice.** A flush keeps one Redis connection while it asks
  the same pool for another, and `get` of the pool blocks its worker thread.
* **Processes that come and go.** Each has two tasks that start, fail and stop on
  their own, and a waiting time in which a server is told to stop and still takes
  connections.

What makes each part correct: the counter equals the votes, one vote per user,
nothing acknowledged before it is done, the last message of a user decides;
no read lost, none counted twice without a failure, all in the table in the
end; an acknowledged registration stays good, nobody acts under another's name,
a login lasts until it expires or is logged out; the HTTP status tells the client
what became of its request, nothing changes behind an answer, every request is
answered, and a process that is told to stop ends and cuts nobody off.

`PROJECT.json` lists each hazard at its line with the properties that cover it.

## 2. Modules

| Module | What it is |
|---|---|
| `VoteLedger` | abstract: a set of (user, answer) pairs and a counter in step with it |
| `VotePipeline` | the gRPC calls, the topic and subscription, the consumer, the tables |
| `MCVotePipeline`, `VotePipelineProofs`, `VoteOrderProofs` | instances for TLC; theorems; the theorem on the order of votes |
| `ReadTally` | abstract: one number per question that grows by one per read |
| `Accounts` | abstract: a name has one owner, tokens go to the owner, the gate opens for a holder while the user is logged in |
| `Exchange` | abstract: what a client may count on: one final, true answer or none, no change before its request or behind its answer |
| `ReadCount` | `question_detail`, the Redis hash, the flush, the table |
| `MCReadCount`, `ReadCountProofs`, `ReadTallyProofs` | instances for TLC; theorems; the theorem on several flushers |
| `Sessions` | register, login, logout, verification, the gateway's gate |
| `MCSessions`, `SessionsProofs` | instances for TLC; theorems |
| `Listing` | add and delete of questions and answers, `latest_question` and `answer_list` called page after page |
| `MCListing`, `ListingProofs`, `ListingQuietProofs` | instance for TLC; theorems; the theorem on answer pages |
| `Gateway` | one request, one call, no state: what the gateway decides, and how each gRPC handler may reply |
| `Service` | the two processes with requests, calls and flushes in progress; extends `Gateway` |
| `MCService`, `ServiceProofs` | scenarios for TLC; theorems |

`Service` is the composition: the components before it appear there by what they
do to a request. A handler of qa-svc is the set of replies it may give, each with a
code and whether it has changed anything (`Gateway!RepliesAtOnce`,
`RepliesWithRedis`); what it changes is the subject of the other modules.

Operators whose names end in `_<Something>` and whose comment starts with
"Defect" are variants of the definition they are named after, each with a
mistake someone could make in that code. The specification uses none of them:
they serve to confirm that each property can fail.

### VotePipeline

State: `answers`, `agreeCount`, `votes`, `nextId` are the PostgreSQL rows;
`topic`, `acked`, `owner` are what the broker keeps (messages in order, the
acknowledged positions, the holder of the Exclusive subscription); `req` holds
the gRPC calls in flight, `cons` the consumers.

| Action | Code |
|---|---|
| `FindAnswer`, `CheckVoted`, `Publish`, `PublishFails`, `Return` | `agree_answer` (app.rs 393-456) and `answer_agree` (632-695), which have the same body, and `publish` (user_vote.rs 202-221) |
| `Subscribe`, `Receive` | building the consumer, `try_next` (227-250) |
| `CheckHandled` | `is_voted` and the match of `handler_answer_agree` (34-62) |
| `VoteAnswer`, `CancelVoteAnswer` | the two transactions (64-142), each one step: PostgreSQL isolates the few statements inside |
| `HandlerFails`, `Ack`, `AckFails`, `LoopEnds`, `Crash` | the `continue` on an error (262-265), `ack(..).await?` (268), the ends of the loop |
| `Reconnect`, `ConnectionLost` | the Pulsar client and broker (external) |
| `DeleteAnswer` | `delete` of answer.rs (76-88) |

`failed`, the messages whose handler or commit failed (`Goto`), is history. The code
answers such a failure with `continue` (user_vote.rs 262-265) and no nack: while the
consumer keeps its subscription the message is not delivered again. So
`EveryVoteHandled` does not promise that each vote on a live answer is acknowledged: it
may be `LeftBehind`, and then it is due again whenever the subscription has ended.

What is assumed of the broker, from how the code uses it: messages of the topic
are delivered in order; the Exclusive subscription has one consumer at a time; a
consumer that subscribes or reconnects is sent, again in order, what was not
acknowledged at that moment, and messages buffered in the client are dropped; an
ack sent after the connection was lost does not count. There is no negative
acknowledgement and no redelivery timer because the code configures neither. A
payload that does not parse and a `target_type` other than "answer" are left
out: `publish` produces neither. A transaction whose connection dies before
COMMIT is rolled back before another process reads the tables.

### ReadCount

State: `exists`, `stored` (table `questions`), `fields`, `pending` (the Redis
hash; a field once made stays, at 0 too), `call` (the `question_detail` calls),
`flush` (the running `handler` calls), `reads` (history).

| Action | Code |
|---|---|
| `FindQuestion`, `Incr`, `Return` | `question_detail` (app.rs 458-497), `incr` (question.rs 243-260) |
| `Start`, `Scan` | `handler` (263-266), the HSCAN loop (60-118): any part of the fields per call, all that were there from the start before the cursor is 0 |
| `WriteStored`, `Subtract` | the halves of `update_read_count` (22-43, 44-58) |
| `FlushFails` | any `?` on the way, or the death of the process |
| `DeleteQuestion` | `delete` (186-198), which leaves the field |

A flush also carries `due`, how many reads of each question there were when it
began: history that no guard looks at. `Tally` maps the two stores to `ReadTally`:
row plus field, less what the running flushes have added to the row and not yet
taken off the field.

HSCAN may return a field twice in one reply only while Redis resizes the hash;
that is left out. Nothing in `src/` calls `handler` (nor `consumer`) outside the
tests; the models let any number of processes call them, as a job built on the
unused `ReadCountJobAppState` and `VoteJobAppState` would.

### Sessions

State: `rows` (table `users`), `session` (Redis, a key exists until its time),
`tokens` (handed out), `call` (the calls in flight), `now` (seconds); `registered`,
`live`, `acts` are history. A password stands for the person who chose it, a
token for the record that AES encrypts.

| Action | Code |
|---|---|
| `CheckUser`, `AddUser` | `user_register` (app.rs 196-223), `uk_users_username` (migrations l.81) |
| `FetchUser`, `ReadSession`, `SaveSession` | `user_login` (106-168) |
| `Authenticate`, `VerifyToken` | the gateway's `verify_token` (router.rs 73-101) and that of qa-svc (app.rs 65-100, 226-266) |
| `Act` | a handler of qa.rs, with `authenticated_username` (133-142) |
| `Logout` | `user_logout` of both (qa.rs 219-231, app.rs 170-195) |

The token is made in the step that reads the session (nothing is awaited between
them) and stored in a later one. One clock is used for both hosts: qa-svc and
Redis measure durations, so only equal pace matters. Redis keeps its keys (no
eviction, no restart). The login id inside a token is compared with nothing, and
so appears in the model only to tell tokens apart: after a logout and a new login
an earlier token that has not expired is accepted again.

To `Accounts` a row is the ownership of a name (`Owner`), a key that exists a user who
is logged in (`LoggedIn`), a token that was handed out makes its person a holder of
the names with its openid (`Holders`), and a call that is past the gate has been
let through for the name and the person of its token (`AdmittedFor`).

### Listing

State: `rows` (both tables; of a row its id, its owner and, for an answer, its
question), `adding` (INSERTs that have drawn an id and are not committed),
`nextId` (the sequences), `reader` (a client in the middle of a list), `edits`.

| Action | Code |
|---|---|
| `AddQuestion`, `AddAnswer`, `Insert` | `add_question`, `add_answer` (app.rs 268-290, 330-356), the INSERTs of question.rs (155-169) and answer.rs (44-58): the id is drawn in one step, the row is visible in a later one, or never when the INSERT fails |
| `DeleteQuestion`, `DeleteAnswer` | `DELETE .. WHERE id AND created_by` (question.rs 186-198, answer.rs 76-88) |
| `StartQuestions`, `QuestionPage` | `latest_question` (app.rs 499-539) and `find_latest` (question.rs 207-240), with the `last_id` of the reply before |
| `StartAnswers`, `CountAnswers`, `SelectAnswers` | `answer_list` (app.rs 541-598), the two queries of `find_latest` (answer.rs 102-147) as two steps, `try_new` (domain/entity/answer.rs 57-84) |

A list is a set here, since `ORDER BY id DESC` leaves no choice of order; what
matters is which rows a page has (`IsNewest`). A client keeps one page size for
all pages of a list and asks with 1 at least, as the gateway's validation demands
(handler/qa.rs 383-389, 587-598). Updates are not in the model: they change no id
and no number of rows. Answers may name a question that is gone: `add_answer`
does not look, and deleting a question leaves its answers.

### Gateway and Service

`Gateway` has the decisions on a request: `IsPublicPath`, `AuthorizationToken`,
`VerificationStatus` (router.rs 103-146), `Extracts` and `RejectionStatus`
(json_or_form.rs), `HasPrincipal` and `Forwards` (the handlers with an
`Extension(principal)`, the claimed name), `OwnStatus` (what is answered without a
second call), `GrpcStatus` (handler/qa.rs 60-91), `Method` (which of the sixteen
methods of pb.rs a handler calls), and the replies of the handlers of app.rs. Of
the two OK replies of `verify_token` that carry no name, `"NoSession"` is the one
with state 0 and `"NoName"` the one after a Redis error; `"Unavailable"` and
`"Lost"` are errors of the transport, before and after qa-svc took the call.

State of `Service`: `up`, `server`, `metrics` (the processes and their two tasks);
`http`, `step`, `status` (a request, how far the gateway is with it, its answer);
`at`, `method`, `code` (its current gRPC call); `flush`, `left` (the calls of
`handler` that use qa-svc's pool); `effect` and `cut` are history. `signals`,
`restarts`, `kills` and `http` are chosen in `Init`: what the environment will do
is a choice among initial states, when it does it is a choice of the steps.

| Action | Code |
|---|---|
| `Arrive`, `Authenticate`, `Verified` | a connection is accepted; `verify_token` of router.rs (73-101) up to its call and from the reply |
| `Handle`, `Respond` | a handler of handler/qa.rs, its call, `IntoResponse` |
| `VerificationTimeout` | the deadline of 3 s (router.rs 84-92) |
| `Send` (in `Authenticate`, `Handle`), `Dispatch` | a client method and the server's dispatch (pb.rs 371-727, 929-1650), the handler up to its reply or to the pool |
| `FindSession`, `UseRedis`, `PoolTimeout` | `user_login` (app.rs 121-138), the repositories' `get` of a pooled connection, its timeout |
| `StartFlush`, `ScanFields`, `AddToRow`, `TakeOff`, `FlushTimeout` | `handler_redis_topg`, `reids_cmd`, `update_read_count` (question.rs 22-137), seen as users of the pool |
| `BuildPools`, `ServerStarts`, `MetricsStart` | both `main.rs`, `prometheus_init` |
| `Signal`, `StopAccepting`, `MetricsStops` | `graceful_shutdown` (a signal, then the waiting time); `metrics.rs` 17-21 |
| `ServerStops`, `MainReturns` | axum and tonic have drained; `join!` of the gateway, `try_join!` of qa-svc |
| `ClientLeaves`, `Crash`, `Restart`, `Abandon`, `BreakCalls` | external: a client that closes its connection, a process that dies, is started again, calls that nobody waits for or that lose their connection |

What is assumed: a handler whose caller is gone is dropped by tonic at one of its
awaits and has then done any part of what it does (`PerhapsDone`); one that is
blocked in the pool's `get` cannot be dropped before it returns. The gateway's
channel reconnects by itself. A signal ends a process by default until one of its
tasks has installed a handler. The flushes share qa-svc's pool, as a job
with its `AppState` would; nothing in `src/` calls them.

`Exchange` is what is left of this for a client who knows nothing of tokens' checks,
calls, pools, tasks and processes: a request is coming, open, answered or dropped
(`Phase`), it has a status, and it has changed something or not.

`try_join!` returns early only for a task that panicked, and the gRPC server
returns its errors: hence qa-svc ends at once when its metrics port is taken, and
stays up with metrics alone when its own is; a gateway whose server task has
panicked stays up too, because `join!` waits for both.

## 3. The runs

| Run | Question | Result |
|---|---|---|
| `vote_one_consumer` | type invariant, one vote per user, ack after effect, refinement of `VoteLedger`, under all eight kinds of failure | holds |
| `vote_two_consumers` | counter = number of vote rows although two processes alternate | holds |
| `vote_order` | under all eight kinds of failure: the last message of a user decides, if none of that user's on the answer failed; every vote on a live answer is in the end acknowledged, or it failed and is left behind until the subscription is opened anew | holds |
| `vote_reply_wraps` | the replied number of likes is one the answer can have | **violated** |
| `vote_counted_twice` | a vote can be taken back | **violated** with two consumers |
| `read_one_flusher` | type invariant, no read lost, field not negative, reply counts its own read, with failures at each step; a flush that comes to its end has moved every read counted before it began (`FlushMovesAll`); while no question is deleted every read gets into the table in the end (`FlushCatchesUp`) | holds |
| `read_two_flushers` | refinement of `ReadTally` with two flushers, no failures | holds |
| `read_flush_blocked` | every read gets into the table, with a deleted question | **violated** |
| `sessions` | type invariant, registrations hold, one person per name, session outlives tokens, refinement of `Accounts` | holds |
| `sessions_logged_in_twice` | one valid login at a time | **violated** |
| `listing` | a walk over the questions misses none that was there throughout, repeats none, gets further with each page, and ends; a list of answers nobody changes is complete | holds |
| `service` | a 4xx means that nothing was changed and a promising 200 that it was; only allowed requests change anything; nothing changes behind an answer; a process that ends by itself cuts nobody off; nobody waits for a call that has ended with its process; refinement of `Exchange`; every request is answered, every flush and every process that was told to stop ends | holds |

The four violations are recorded under "findings" with the lines they rest on:

* a reply to a "down" can carry 2^64 - 1 likes (app.rs 398/451), because the
  count is read before the vote is looked up;
* one message can be inserted twice when a consumer loses its connection after
  its `has_voted` test, and then the vote can never be cancelled
  (user_vote.rs 119-122; `users_votes` has no unique key);
* the Redis field of a deleted question ends every flush at it (question.rs
  37-43, 124-130), so the other fields may never be written;
* two racing logins both succeed (app.rs 122, 146) although the second is to be
  refused.

### Bounds

* Votes: two users and one answer that may be deleted, or one user and two
  answers; 3 messages (up, down and up again, or an unsupported action among
  them), one call in flight (two for the reply), 1 or 2 failures of the kinds
  the cfg lists. 3 messages are the fewest with which a redelivered old message
  meets a newer one of its user and a third party's. 2^64 is 16 in the runs: any
  value above every count.
* Reads: 2 questions with 2 reads each, one call, 2 failures; with two flushers
  1 question and 3 reads (a read before the scan, between scan and subtraction,
  and after).
* Sessions: 2 people, 2 names, 2 openids, 2 concurrent calls, 2 logins, a
  lifetime of 2 seconds and a clock up to 3, so that tokens and sessions expire
  within the run at different moments; 1 failure.
* Lists: at most 3 rows per table, page sizes 1 and 2, so that there are walks of
  up to four calls, full last pages and ones that are not; 3 rows appear or go
  meanwhile; answers of 2 questions. No reader looks at both tables, so each
  behaviour starts with one of them empty and its ids used up
  (`MCListing!OneTableSpec`): all edits are then in the table that is read.
* Service: six scenarios (`MCService`), each a request or two, flushes and a plan for
  the processes. `Contention`: two flushes with all of 2 connections ask for two more
  on all of 2 threads, while a request waits. `StopUnderLoad`: a flush and a call
  in progress when qa-svc is told to stop. `Stop`: both processes are told, in any
  order, with a vote under way. `KillServer`, `KillGateway`: a process dies and
  comes back once, with a login or two requests under way. `Refused`: a malformed
  request. Clients leave, ports are taken, deadlines and pool timeouts fire in all
  of them. The scenarios keep apart what would only multiply: requests do not
  touch each other except through the pool and the threads, which `Contention` has
  filled.
* The counters that would grow for ever (`topic`, `reads`, `now`, `logins`,
  `faults`) are bounded in guards by the constants named `Max...`. Hence the
  models stop, as does a consumer with nothing to do, and deadlock is not checked.
* Symmetry: people, names, openids, slots, consumers are used only by equality;
  it is used in runs of invariants alone.

### Fairness

`VotePipeline!Fairness` (run `vote_order`): weak fairness of the steps of each
consumer: tokio polls the task, PostgreSQL and the broker answer, and somebody
calls `consumer()` when no consumer is there. Failures are bounded and never
forced. That caller is an assumption on the deployment: nothing in `src/`
restarts a loop that ended. `ReadCount!FlushFairness` (runs `read_one_flusher` and
`read_flush_blocked`): `handler` is called again and again. Two flushers that stay
in step could move the same value to and fro for ever, so what two come to is not
claimed. Calls by clients are
never assumed to happen, but for `Listing!Fairness` (run `listing`): a client that
has begun to read a list asks for its next page, and is answered.
`Service!Fairness` (run `service`): weak fairness of the gateway's steps, of the
timers (the pool's connection timeout, for a request and for a flush), of the
starting and stopping of tasks and of `main`; strong fairness of `Dispatch` and
`AddToRow`, because tokio gives a worker to a task that is ready, again and again
if it has to wait for one. Nothing is assumed of signals, crashes, restarts and
clients, nor that a connection of the pool is ever free: what ends a wait for one
is the timeout.

Three things it does assume, which the code does not enforce. PostgreSQL and Redis
answer each query and command, with a result or an error: nothing in `src/` sets a
limit to one that is under way, and `Dispatch`, `AddToRow` and the like run it in a
step. A client that has opened a connection sends its request to the end, body
included: the body is there when `Handle` reads it, and neither axum nor the gateway
sets a limit to how long that may take. And
the end of a process is noticed by who is connected to it: a host or a network that
is lost without a reset leaves its peers waiting, and is not modelled. On these
rest `AnsweredInTheEnd` and, since the drain of axum and tonic has no limit of its own
and waits for every request that has begun, `SignalEndsProcess`; on the third,
`NobodyWaitsInVain`.

## 4. What is proved

All theorems hold for every value of the constants, under the named assumptions
of the modules and, where stated, `SingleConsumer` / `SingleFlusher` (at most one
process runs the loop). That votes need the first is what `vote_counted_twice`
shows; two flushers can take a field below zero for a while, which no run shows.

**Votes** (`VotePipelineProofs`). `TypeCorrect`: types, from an invariant on the
message a consumer is at. `CountIsExact` (`CountMatchesVotes`): any number of
consumers; the vote rows are finite, their ids are below `nextId`, each
transaction changes rows and counter together, and exact-one deletion is what
makes the decrement right. `NoDoubleVote` and `AckAfterEffect`: one consumer; the
invariant says that a consumer at `insert` has no row for its message's user and
answer, at `cancel` has one, and at `ack` the effect of its message is in the
table: true because no other process writes `users_votes`.
`PipelineImplementsLedger`: every step is a step of `VoteLedger` or leaves its
variables alone; it rests on the two invariants before it.

**Read counts** (`ReadCountProofs`). `TypeCorrect`; and for one flusher
`ReadsSurviveFailures`, `FieldsNotNegative`, `RepliesPositive`. The inductive
invariant is a balance: a field holds at least what the running flush scanned and
has not taken off, and row plus field is at least the reads plus what is in both.
`NoReadLost` by itself is not inductive: a subtraction could take off more than
was there. `FlushesMoveAll` (`FlushMovesAll`) adds `DueInv`, on each field a running
flush has reads due of: its row has them already, or the flush has the field in
hand with a value that makes up for what is missing, or has yet to see it.

`FlushersKeepTally` (`ImplementsTally`, in `ReadTallyProofs`): without failures any finite
number of flushes at a time implement `ReadTally`. Two of them may both have
scanned a field and both move its value, so no inequality between a field and a
scanned value survives; what does is the sum. `ExactInv` says that row plus field,
less the sum over all flushers of what each has in both, is the number of reads.
The sum is a fold over the set of flushers. That changing one of its terms changes
it by as much (`SumOfChange`) is induction on the size of the set; in
place of the induction theorem the proof takes a smallest counterexample and
removes an element from it. `FlusherAssumption` (finitely many flushers) is what
makes it a sum.

**Sessions** (`SessionsProofs`). `TypeCorrect`; `RegistrationsStay` from the
uniqueness of rows; `NamesAreNotShared` from the invariant that each token,
session, request and act belongs to one row with its name, openid and password;
`LoginsLast` from the bound that no token expires after `now + Lifetime`.
`SessionsImplementAccounts` (`ImplementsAccounts`): every step is a step of `Accounts` or
changes nothing that `Accounts` has. It rests on the invariant that each token belongs to one row (`OwnerInv`) and on
`VerifiesOwnToken` (what qa-svc is asked to verify is a token that was handed out).

**Lists** (`ListingProofs`). `TypeCorrect`, with the fact that the sequence is
ahead of every id, so that no id names two rows. `WalksMissNothing` and
`WalksRepeatNothing`, for every page size: the inductive invariant `WalkInv` splits
the ids at the cursor of a walk, what it has got is at or above, what it still
lacks of the rows it began with is below. `WalkComplete` alone is not inductive,
and the second half needs `StartIsPast`: an id that was there at the start cannot
go and come back, as no INSERT on its way has it. `WalksAdvance` (`CursorDescends`) follows from
`WalkInv` at the page: its rows are below the cursor, and a full page is not empty.
`QuietListsComplete`
(`QuietListComplete`, in `ListingQuietProofs`), for every number of answers and every
page size: while no row appears or goes, a reader at page p has the newest
(p - 1) * limit answers (`FullPagesSoFar`); the page at that offset continues them
(`NextPage`, since two tops of one list with equally many rows are the same,
`TopsAgree`), and p has reached `total_page` exactly when p * limit rows are all there
are (`EnoughPages`). A row that appears or goes ends the quiet for good, as `edits`
only grows.

**The order of votes** (`VoteOrderProofs`). `LastOneWins` (`LastMessageWins`): one
consumer, any failures. A message that fails is applied after those behind it, and
then the last message need not decide; but that concerns its user and its answer
alone. A message is live when it can take effect (an up or a down on an answer
that exists) and no message of its user on that answer has failed (`Clean`).
`OrderInv` says that the acknowledged live messages have no gap before them; that
the message at hand is the newest in work; that what is still to be delivered is
no older than any acknowledged one; and that once all a user said of an answer is
acknowledged, none of it having failed, the vote row is as the last of it said
(`Decided`). A handler that gives up keeps this because its message is then no
longer live (`GivesUp`). `Decided` is kept because a transaction changes a row only
for a message that is not acknowledged, or is not the user's last, unless one of
them failed: else its effect would have been there before (`CommittedDecided`).

**Service** (`ServiceProofs`), for any number of requests, flushes, connections,
threads, signals, crashes and restarts. `TypeCorrect`. `StatusIsHonest` and
`OnlyAllowedChanges` from `RInv`, for each request by itself: where it is with the
gateway, where its call is with qa-svc, and what may have been changed by then
(nothing while it is being verified, nothing after a code of a 4xx, something
after an OK that promises it); every step of a call keeps it because each reply
is sound (`RepliesAreSound`). `NothingChangesBehind`: a call whose caller was
answered is a `verify_token`, since only that has a deadline. `NoneCutOff` from
`DrainInv`: a server that ends by itself has drained, and one that does not serve
has no request or call in progress. `SomeoneWillAnswer` (`NobodyWaitsInVain`) from
`CallsRun`: a call in progress is at a qa-svc that runs, and a request at the gateway
that waits has a call in progress or its reply; what has to be shown of each crash,
stop and start is that it tells all who wait. `ServiceImplementsExchange`
(`ImplementsExchange`): each step moves each request as `Exchange` allows (`Moves`),
although one step may move many. What an answer says of the effect is taken
from `RInv` after the step, that it is given once from `RInv` before it, and that
nothing is undone from `ChangeStays`.

**Model-checked only.** Liveness (`EveryVoteHandled`, `FlushCatchesUp`, `WalkEnds`,
`AnsweredInTheEnd`, `FlushEnds`, `SignalEndsProcess`): the prover does not handle
fairness. Of three of them the theorems have the half that is safety: a walk's
cursor descends, a flush that ends has left nothing, and whoever waits has
somebody who will answer. The four violated properties need no proof.

## 5. Not modelled, and the plan

Done: (1) votes, (2) read counts, (3) sessions and the gate, (4) lists, (5) the two
processes with the requests on their way through them, each with its proofs.

Every invariant, every action property and every refinement that a passing run
checks is proved. What is left is liveness, which is out of the prover's reach.

Left out:

* *What an update writes* (question.rs 170-185, answer.rs 60-75): the text of a row
  is a value nothing else depends on, and two updates of a row are put in order
  by PostgreSQL. An update is a call of `Service` that may change something. Its
  `WHERE` has the id alone and it replies state 1 whether or not a row matched, as
  `Gateway!ChangeReplies` says. Limits of length differ in places (a title may have
  512 characters by the gateway's rule and 300 in the table); an INSERT that fails
  for that is one of `AddReplies`.
* *`questions.reply_count`*: no statement in `src/` writes it; it stays 0.
* *The length of a name*: the gateway measures bytes when it authenticates
  (router.rs 131) and characters when it registers (qa.rs 105). Names are model
  values.
* *AES* (a byte conversion of a library; a token is the record it encrypts), reading
  configuration files and building library objects (once, before anything is
  served: `BuildPools`), response headers (constant), logging and wording of
  errors, message types, compression and size limits of the generated code
  (carried along or never set), `apps/server` (prints a line).
* `is_batch_voted` and `UserRepository::fetch_users`, which only read, and methods of
  repositories that nothing calls.
