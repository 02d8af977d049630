------------------------------ MODULE MCService ------------------------------
(* Scenarios: what is asked and what happens to the processes meanwhile,     *)
(* chosen so that every way through the system meets the trouble that        *)
(* concerns it.  Which of it happens, and when, is open in each.             *)
EXTENDS Service

CONSTANTS r1, r2, f1, f2

Json(valid, claim) == [type |-> "application/json", text |-> "json",
                       valid |-> valid, claim |-> claim]
Post(route, token, body) == [route |-> route, post |-> TRUE, token |-> token, body |-> body]

Detail == Post("question_detail", "live", Json(TRUE, "own"))
Login == Post("user_login", "absent", Json(TRUE, "own"))
Agree == Post("answer_agree", "live", Json(TRUE, "own"))
LoggedOut == Post("question_delete", "logged_out", Json(TRUE, "own"))
Malformed == Post("user_register", "absent", Json(FALSE, "own"))

MCAsked == {Detail, Login, Agree, LoggedOut, Malformed}

Plan(asked, comes, gateway, qa_svc, killed, again) ==
    /\ \A r \in Requests : http[r] = asked /\ (step[r] = "none" <=> r \in comes)
    /\ signals = [p \in Process |-> IF p = "gateway" THEN gateway ELSE qa_svc]
    /\ kills = killed
    /\ restarts = [p \in Process |-> IF p \in again THEN 1 ELSE 0]

(* The flushes that come, and the fields they find. *)
Flush(F, n1, n2) == /\ left = [f \in Flushers |-> IF f = f1 THEN n1 ELSE n2]
                    /\ \A f \in Flushers : flush[f] = "idle" <=> f \in F

(* Two flushes hold both connections and ask for two more, which also takes  *)
(* both threads, while a request waits for one and the other.                *)
Contention == Plan(Detail, {r1}, 0, 0, {}, {}) /\ Flush({f1, f2}, 2, 1)

(* qa-svc is stopped with a flush and a call in progress. *)
StopUnderLoad == Plan(Detail, {r1}, 0, 1, {}, {}) /\ Flush({f1}, 1, 0)

(* Both processes are stopped. *)
Stop == Plan(Agree, {r1}, 1, 1, {}, {}) /\ Flush({}, 0, 0)

(* Either process is killed and started again. *)
KillServer == Plan(Login, {r1}, 0, 0, {"qa_svc"}, {"qa_svc"}) /\ Flush({f1}, 0, 0)
KillGateway == Plan(LoggedOut, {r1, r2}, 0, 0, {"gateway"}, {"gateway"}) /\ Flush({}, 0, 0)

Refused == Plan(Malformed, {r1}, 1, 0, {}, {}) /\ Flush({}, 0, 0)

ScenarioInit == /\ Init
                /\ \/ Contention \/ StopUnderLoad \/ Stop
                   \/ KillServer \/ KillGateway \/ Refused

ScenarioSpec == ScenarioInit /\ [][Next]_vars /\ Fairness
=============================================================================
