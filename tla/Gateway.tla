------------------------------- MODULE Gateway -------------------------------
(* What is decided about one request without looking at any state: by the    *)
(* HTTP gateway (routing, the Authorization header, the body, the claimed    *)
(* name, the HTTP status of an error) and by the gRPC handlers of qa-svc     *)
(* (with which code they may reply, and whether they have changed anything   *)
(* by then).  Module Service puts the steps in order and interleaves them.   *)
EXTENDS Integers

(* A path is named by the handler it is routed to. *)
UserHandlers == {"user_register", "user_login", "user_logout"}
QuestionHandlers == {"question_add", "question_detail", "question_update",
                     "question_delete", "question_find_latest"}
AnswerHandlers == {"answer_add", "answer_update", "answer_delete",
                   "answer_find_one", "answer_find_list", "answer_agree"}
Handlers == {"root", "hello"} \cup UserHandlers \cup QuestionHandlers \cup AnswerHandlers

Route == Handlers \cup {"no_api_route", "no_route"}

ContentType == {"application/json", "application/problem+json",
                "application/x-www-form-urlencoded", "text/plain", "none"}

(* A body: what its header calls it, what it can be parsed as, whether the   *)
(* values pass the Validate rules, and whose name (or token) it carries.     *)
Body == [type : ContentType, text : {"json", "form", "broken"},
         valid : BOOLEAN, claim : {"own", "other"}]

(* The Authorization header: absent or not "Bearer <token>", or a token that *)
(* is good, has expired, does not decrypt, or whose session is gone.         *)
Token == {"absent", "live", "expired", "forged", "logged_out"}

Http == [route : Route, post : BOOLEAN, token : Token, body : Body]

-----------------------------------------------------------------------------
(* handler/json_or_form.rs *)

IsJson(type) == type \in {"application/json", "application/problem+json"}
IsForm(type) == type = "application/x-www-form-urlencoded"

(* Whether the body gets past the extractor. *)
Readable(b) == \/ IsJson(b.type) /\ b.text = "json"
               \/ IsForm(b.type) /\ b.text = "form"

Extracts(b) == Readable(b) /\ b.valid

RejectionStatus(b) == IF IsJson(b.type) \/ IsForm(b.type) THEN 400 ELSE 415

-----------------------------------------------------------------------------
(* router.rs *)

IsPublicPath(route) == route \in {"root", "hello", "user_register", "user_login"}

(* A token that goes with the request to qa-svc; else it is Unauthorized. *)
AuthorizationToken(h) == h.token # "absent"

(* The handlers with an Extension(principal); each compares the name or the  *)
(* token in the body with the principal's.                                   *)
HasPrincipal(route) == /\ route \in Handlers
                       /\ ~IsPublicPath(route)
                       /\ route # "question_find_latest"

(* The gRPC status codes the code distinguishes.  "NoSession" and "NoName"   *)
(* are the two OK replies of verify_token without a name: state 0, and state *)
(* 1 after a Redis error.  The transport's own are "Unavailable" (qa-svc did *)
(* not take the call) and "Lost" (it took it and the connection broke).      *)
Codes == {"OK", "NoSession", "NoName", "InvalidArgument", "NotFound", "Unauthenticated",
          "PermissionDenied", "AlreadyExists", "Aborted", "Internal", "Unknown",
          "Unavailable", "Lost"}

(* IntoResponse of GatewayError::GrpcError *)
GrpcStatus(code) == CASE code = "InvalidArgument" -> 400
                      [] code = "NotFound" -> 404
                      [] code = "Unauthenticated" -> 401
                      [] code = "PermissionDenied" -> 403
                      [] OTHER -> 500

(* map_verification_error and authenticated_username *)
VerificationStatus(code) ==
    IF code \in {"InvalidArgument", "Unauthenticated", "PermissionDenied",
                 "NoSession", "NoName"}
      THEN 401
      ELSE GrpcStatus(code)

(* Requests the gateway answers by itself after the token was verified: the  *)
(* fallbacks, a wrong method, root and hello, the extractor, the claim.      *)
Forwards(h) == /\ h.route \in Handlers \ {"root", "hello"}
               /\ h.post /\ Extracts(h.body)
               /\ HasPrincipal(h.route) => h.body.claim = "own"

OwnStatus(h) ==
    CASE h.route = "no_api_route" -> 404
      [] h.route = "no_route" -> 405
      [] h.route \in {"root", "hello"} -> IF h.post THEN 405 ELSE 200
      [] ~h.post -> 405
      [] ~Extracts(h.body) -> RejectionStatus(h.body)
      [] OTHER -> 403

-----------------------------------------------------------------------------
(* The gRPC call a handler makes. *)
QuestionMethod(route) ==
    CASE route = "question_add" -> "add_question"
      [] route = "question_detail" -> "question_detail"
      [] route = "question_update" -> "update_question"
      [] route = "question_delete" -> "delete_question"
      [] route = "question_find_latest" -> "latest_question"

AnswerMethod(route) ==
    CASE route = "answer_add" -> "add_answer"
      [] route = "answer_update" -> "update_answer"
      [] route = "answer_delete" -> "delete_answer"
      [] route = "answer_find_one" -> "answer_detail"
      [] route = "answer_find_list" -> "answer_list"
      [] route = "answer_agree" -> "agree_answer"

Method(route) == CASE route \in UserHandlers -> route
                   [] route \in QuestionHandlers -> QuestionMethod(route)
                   [] route \in AnswerHandlers -> AnswerMethod(route)

(* trait QaService; answer_agree is called by no handler of the gateway. *)
Methods == {"user_login", "user_logout", "user_register", "verify_token",
            "add_question", "delete_question", "update_question",
            "add_answer", "delete_answer", "update_answer", "agree_answer",
            "question_detail", "latest_question", "answer_list", "answer_detail",
            "answer_agree"}

-----------------------------------------------------------------------------
(* application/app.rs: how a handler may end.  A reply carries a code and    *)
(* says whether the handler has changed anything (a row, the session, the    *)
(* read count, a vote message) by the time it replies.                       *)
Reply == [code : Codes, effect : BOOLEAN]

Done(code) == [code |-> code, effect |-> TRUE]
Undone(code) == [code |-> code, effect |-> FALSE]
Either(code) == {Done(code), Undone(code)}

(* Methods that answer OK only after they have changed something.            *)
Promises == {"user_register", "user_login", "user_logout", "add_question",
             "add_answer", "question_detail"}

(* check_token *)
TokenErrors(token) == {reply \in {Undone("Unauthenticated"), Undone("InvalidArgument")} :
                          \/ token = "expired" /\ reply.code = "Unauthenticated"
                          \/ token = "forged" /\ reply.code = "InvalidArgument"}

(* INSERT: a statement that failed may still have been committed. *)
AddReplies == {Done("OK")} \cup Either("Unknown")
(* UPDATE or DELETE: state 1, whether a row matched or not. *)
ChangeReplies == Either("OK") \cup Either("Unknown")
ReadReplies == {Undone("OK"), Undone("Unknown")}
LoginRefusals == {Undone("InvalidArgument"), Undone("Unknown"), Undone("Internal")}
RegisterReplies == AddReplies \cup {Undone("AlreadyExists"), Undone("Internal")}
(* A vote is refused with OK and state 0; a publish that failed may have     *)
(* reached the broker.                                                       *)
AgreeReplies == Either("OK") \cup {Undone("Unknown")} \cup Either("Internal")

(* The replies given without a connection from the Redis pool.  A token may  *)
(* expire between its verification and user_logout.                          *)
RepliesAtOnce(method, token) ==
    {reply \in Reply :
        \/ method = "user_register" /\ reply \in RegisterReplies
        \/ method \in {"add_question", "add_answer"} /\ reply \in AddReplies
        \/ /\ method \in {"update_question", "delete_question", "update_answer", "delete_answer"}
           /\ reply \in ChangeReplies
        \/ method = "agree_answer" /\ reply \in AgreeReplies
        \/ method \in {"latest_question", "answer_list", "answer_detail"} /\ reply \in ReadReplies
        \/ method = "question_detail" /\ reply = Undone("Unknown")
        \/ method = "user_login" /\ reply \in LoginRefusals
        \/ method \in {"verify_token", "user_logout"} /\ reply \in TokenErrors(token)
        \/ method = "user_logout" /\ reply = Undone("Unauthenticated")}

AsksRedis(method, token) ==
    \/ method \in {"user_login", "question_detail"}
    \/ method \in {"verify_token", "user_logout"} /\ token \notin {"expired", "forged"}

(* The replies given once a connection is there.  user_login comes here      *)
(* after it has looked for a session.                                        *)
RepliesWithRedis(method, token) ==
    {reply \in Reply :
        \/ method = "user_login" /\ reply \in {Done("OK")} \cup Either("Internal")
        \/ method = "user_logout" /\ reply \in {Done("OK")} \cup Either("Aborted")
        \/ method = "question_detail" /\ reply \in {Done("OK")} \cup Either("Unknown")
        \/ method = "verify_token" /\ reply = Undone("NoName")
        \/ method = "verify_token" /\ token = "live" /\ reply = Undone("OK")
        \/ method = "verify_token" /\ token = "logged_out" /\ reply = Undone("NoSession")}

(* Defect: a read that could not be counted is answered all the same.        *)
ReplyWithoutRedis_Ignored(method) ==
    IF method = "question_detail" THEN Undone("OK") ELSE Undone("NoName")

(* The reply when the pool has no connection to give in time. *)
ReplyWithoutRedis(method) ==
    CASE method = "verify_token" -> Undone("NoName")
      [] method = "user_login" -> Undone("Internal")
      [] method = "user_logout" -> Undone("Aborted")
      [] OTHER -> Undone("Unknown")
=============================================================================
