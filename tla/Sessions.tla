------------------------------ MODULE Sessions ------------------------------
(* Who a request is made for.  user_register adds a row to table users;      *)
(* user_login answers with a token (an encrypted login id, openid and expiry *)
(* time) and stores a session in Redis under the openid, with a time to      *)
(* live; the gateway has qa-svc verify the token of every other request and  *)
(* only then calls the handler, for the username of the session.             *)
(*                                                                           *)
(* Every call is a few steps, one for each query or command it sends, and    *)
(* the calls interleave.  The clock is the time in seconds: qa-svc compares  *)
(* it with the expiry time of a token, Redis with that of a key.             *)
EXTENDS Integers, FiniteSets

CONSTANTS
    User,       \* usernames
    Client,     \* people; each has a password of their own
    OpenId,     \* the openids that may be drawn (Uuid::new_v4)
    Request,    \* slots for calls in flight
    Fault,      \* kinds of failure that may occur
    Lifetime,   \* 86400 s: of a token from its login, of a session from SETEX
    None,       \* nobody
    MaxTime,    \* bound: the clock
    MaxLogins,  \* bound: logins
    MaxFaults   \* bound: failures

ASSUME NoneAssumption == None \notin User \cup Client \cup OpenId
ASSUME FaultAssumption == Fault \subseteq {"insert", "read", "save", "delete"}
ASSUME BoundAssumption == /\ Lifetime \in Nat \ {0} /\ MaxTime \in Nat
                          /\ MaxLogins \in Nat /\ MaxFaults \in Nat

VARIABLES
    rows,        \* PostgreSQL: table users
    session,     \* Redis: the value of key user_login:<openid> and when it expires
    tokens,      \* the tokens handed out by user_login
    call,        \* the calls in flight
    now,         \* the clock
    logins,      \* how many login ids were drawn
    faults,      \* failures so far
    registered,  \* history: who was told that a name is registered
    live,        \* history: the tokens handed out per openid since its last logout
    acts         \* history: what was done for which user, by whom

history == <<registered, live, acts>>
vars == <<rows, session, tokens, call, now, logins, faults, history>>

-----------------------------------------------------------------------------
Row == [name : User, password : Client, openid : OpenId]
Token == [login : Nat, openid : OpenId \cup {None}, by : Client \cup {None}, expires : Nat]
Session == [name : User \cup {None}, until : Nat]
Call == [pc : {"idle", "insert", "session", "save", "verify", "granted"},
         name : User \cup {None}, token : Token]

NoSession == [name |-> None, until |-> 0]
NoTokenYet(o, c) == [login |-> 0, openid |-> o, by |-> c, expires |-> 0]
NoToken == NoTokenYet(None, None)
Idle == [pc |-> "idle", name |-> None, token |-> NoToken]

Init == /\ rows = {}
        /\ session = [o \in OpenId |-> NoSession]
        /\ tokens = {}
        /\ call = [r \in Request |-> Idle]
        /\ now = 0 /\ logins = 0 /\ faults = 0
        /\ registered = {}
        /\ live = [o \in OpenId |-> {}]
        /\ acts = {}

Fails(kind) == kind \in Fault /\ faults < MaxFaults /\ faults' = faults + 1

Goes(r, to) == call' = [call EXCEPT ![r] = to]
Ends(r) == Goes(r, Idle)

Taken(n) == \E w \in rows : w.name = n

(* A key that has expired is not there. *)
Exists(o) == now < session[o].until

-----------------------------------------------------------------------------
(* user_register: a query for the name, then the insert. *)

CheckUser(r, n, c) ==
    /\ call[r].pc = "idle" /\ ~Taken(n)
    /\ Goes(r, [pc |-> "insert", name |-> n, token |-> NoTokenYet(None, c)])
    /\ UNCHANGED <<rows, session, tokens, now, logins, faults, history>>

(* Defect: users has no UNIQUE key on username. *)
AddUser_NoUniqueKey(r) ==
    LET n == call[r].name  c == call[r].token.by IN
    /\ call[r].pc = "insert"
    /\ Ends(r)
    /\ \/ /\ \E o \in OpenId : /\ \A w \in rows : w.openid # o
                               /\ rows' = rows \cup {[name |-> n, password |-> c, openid |-> o]}
          /\ \/ registered' = registered \cup {[name |-> n, by |-> c]} /\ UNCHANGED faults
             \/ UNCHANGED registered /\ Fails("insert")
       \/ Fails("insert") /\ UNCHANGED <<rows, registered>>
    /\ UNCHANGED <<session, tokens, now, logins, live, acts>>

(* Defect: ON CONFLICT (username) DO UPDATE SET password. *)
AddUser_Upsert(r) ==
    LET n == call[r].name  c == call[r].token.by IN
    /\ call[r].pc = "insert"
    /\ Ends(r)
    /\ \/ /\ IF Taken(n)
               THEN rows' = {IF w.name = n THEN [w EXCEPT !.password = c] ELSE w : w \in rows}
               ELSE \E o \in OpenId :
                      /\ \A w \in rows : w.openid # o
                      /\ rows' = rows \cup {[name |-> n, password |-> c, openid |-> o]}
          /\ registered' = registered \cup {[name |-> n, by |-> c]} /\ UNCHANGED faults
       \/ Fails("insert") /\ UNCHANGED <<rows, registered>>
    /\ UNCHANGED <<session, tokens, now, logins, live, acts>>

(* INSERT: refused by uk_users_username when the name was taken meanwhile;   *)
(* its reply may be lost, with the row stored or not.                        *)
AddUser(r) ==
    LET n == call[r].name  c == call[r].token.by IN
    /\ call[r].pc = "insert"
    /\ Ends(r)
    /\ \/ /\ ~Taken(n)
          /\ \E o \in OpenId : /\ \A w \in rows : w.openid # o
                               /\ rows' = rows \cup {[name |-> n, password |-> c, openid |-> o]}
          /\ \/ registered' = registered \cup {[name |-> n, by |-> c]} /\ UNCHANGED faults
             \/ UNCHANGED registered /\ Fails("insert")
       \/ Taken(n) /\ UNCHANGED <<rows, registered, faults>>
       \/ Fails("insert") /\ UNCHANGED <<rows, registered>>
    /\ UNCHANGED <<session, tokens, now, logins, live, acts>>

-----------------------------------------------------------------------------
(* user_login: the row, then the session, then SETEX. *)

(* Defect: the row is found by its name, the password is not compared. *)
FetchUser_AnyPassword(r, n, c) ==
    /\ call[r].pc = "idle"
    /\ \E w \in rows :
         /\ w.name = n
         /\ Goes(r, [pc |-> "session", name |-> n, token |-> NoTokenYet(w.openid, c)])
    /\ UNCHANGED <<rows, session, tokens, now, logins, faults, history>>

FetchUser(r, n, c) ==
    /\ call[r].pc = "idle"
    /\ \E w \in rows :
         /\ w.name = n /\ w.password = c
         /\ Goes(r, [pc |-> "session", name |-> n, token |-> NoTokenYet(w.openid, c)])
    /\ UNCHANGED <<rows, session, tokens, now, logins, faults, history>>

(* Only a session that is found refuses the login: a read that fails is      *)
(* taken for none.  The token is made, with its expiry time, before SETEX.   *)
ReadSession(r) ==
    LET t == call[r].token IN
    /\ call[r].pc = "session"
    /\ \/ /\ Exists(t.openid)
          /\ Ends(r)
          /\ UNCHANGED <<logins, faults>>
       \/ /\ \/ ~Exists(t.openid) /\ UNCHANGED faults
             \/ Exists(t.openid) /\ Fails("read")
          /\ logins < MaxLogins /\ logins' = logins + 1
          /\ Goes(r, [pc |-> "save", name |-> call[r].name,
                      token |-> [login |-> logins + 1, openid |-> t.openid, by |-> t.by,
                                 expires |-> now + Lifetime]])
    /\ UNCHANGED <<rows, session, tokens, now, history>>

(* SETEX user_login:<openid>, whatever is there. *)
Stores(r) == session' = [session EXCEPT ![call[r].token.openid] =
                            [name |-> call[r].name, until |-> now + Lifetime]]

HandsOut(t) == /\ tokens' = tokens \cup {t}
               /\ live' = [live EXCEPT ![t.openid] = @ \cup {t}]

(* Defect: SET .. NX EX, a session that is there stays. *)
SaveSession_IfAbsent(r) ==
    /\ call[r].pc = "save"
    /\ Ends(r)
    /\ \/ /\ IF Exists(call[r].token.openid) THEN UNCHANGED session ELSE Stores(r)
          /\ HandsOut(call[r].token) /\ UNCHANGED faults
       \/ (Stores(r) \/ UNCHANGED session) /\ Fails("save") /\ UNCHANGED <<tokens, live>>
    /\ UNCHANGED <<rows, now, logins, registered, acts>>

(* The session is stored and the token handed out, or the command fails, its *)
(* effect done or not, and there is no token.                                *)
SaveSession(r) ==
    /\ call[r].pc = "save"
    /\ Ends(r)
    /\ \/ Stores(r) /\ HandsOut(call[r].token) /\ UNCHANGED faults
       \/ (Stores(r) \/ UNCHANGED session) /\ Fails("save") /\ UNCHANGED <<tokens, live>>
    /\ UNCHANGED <<rows, now, logins, registered, acts>>

-----------------------------------------------------------------------------
(* The gateway's verify_token, in front of every handler but the public ones *)

(* check_token: a request with a token that has expired is refused at once.  *)
CheckToken(t) == now < t.expires

Authenticate(r, t) ==
    /\ call[r].pc = "idle" /\ t \in tokens /\ CheckToken(t)
    /\ Goes(r, [pc |-> "verify", name |-> None, token |-> t])
    /\ UNCHANGED <<rows, session, tokens, now, logins, faults, history>>

(* The reply of verify_token of qa-svc: a Redis failure is also state 1, but *)
(* with no username.                                                         *)
Verified(o) == IF Exists(o) THEN [state |-> 1, username |-> session[o].name]
                            ELSE [state |-> 0, username |-> None]
UnknownError == [state |-> 1, username |-> None]

(* Defect: the state alone decides. *)
Admits_ByState(reply) == reply.state = 1

(* authenticated_username of router.rs. *)
Admits(reply) == reply.state = 1 /\ reply.username # None

Decide(r, reply) ==
    IF Admits(reply)
      THEN Goes(r, [pc |-> "granted", name |-> reply.username, token |-> call[r].token])
      ELSE Ends(r)

VerifyToken(r) ==
    /\ call[r].pc = "verify"
    /\ \/ Decide(r, Verified(call[r].token.openid)) /\ UNCHANGED faults
       \/ Decide(r, UnknownError) /\ Fails("read")
    /\ UNCHANGED <<rows, session, tokens, now, logins, history>>

(* A handler that names the user it acts for: the principal or nobody        *)
(* (authenticated_username of qa.rs).                                        *)
Act(r, claimed) ==
    /\ call[r].pc = "granted"
    /\ acts' = IF claimed = call[r].name
                 THEN acts \cup {[for |-> claimed, by |-> call[r].token.by]}
                 ELSE acts
    /\ Ends(r)
    /\ UNCHANGED <<rows, session, tokens, now, logins, faults, registered, live>>

(* user_logout of the request's own token, which qa-svc checks once more: it *)
(* ends the user's session, whichever token that came with.                  *)
Deletes(o) == /\ session' = [session EXCEPT ![o] = NoSession]
              /\ live' = [live EXCEPT ![o] = {}]

Logout(r) ==
    LET t == call[r].token IN
    /\ call[r].pc = "granted"
    /\ \/ CheckToken(t) /\ Deletes(t.openid) /\ UNCHANGED faults
       \/ ~CheckToken(t) /\ UNCHANGED <<session, live, faults>>
       \/ CheckToken(t) /\ Fails("delete") /\ (Deletes(t.openid) \/ UNCHANGED <<session, live>>)
    /\ Ends(r)
    /\ UNCHANGED <<rows, tokens, now, logins, registered, acts>>

-----------------------------------------------------------------------------
Tick == /\ now < MaxTime
        /\ now' = now + 1
        /\ UNCHANGED <<rows, session, tokens, call, logins, faults, history>>

(* Registration and login are public; every other route of api_router is     *)
(* behind verify_token and acts for a user or logs out.                      *)
RequestStep(r) ==
    \/ \E n \in User, c \in Client : CheckUser(r, n, c) \/ FetchUser(r, n, c)
    \/ AddUser(r) \/ ReadSession(r) \/ SaveSession(r)
    \/ \E t \in tokens : Authenticate(r, t)
    \/ VerifyToken(r) \/ Logout(r)
    \/ \E n \in User : Act(r, n)

Next == Tick \/ \E r \in Request : RequestStep(r)

Spec == Init /\ [][Next]_vars

-----------------------------------------------------------------------------
(* Properties *)

(* Every variable has its type; a request that was let through has a user.   *)
(* (The records of user.rs, and the gate of router.rs.)                      *)
TypeOK ==
    /\ rows \subseteq Row
    /\ session \in [OpenId -> Session]
    /\ tokens \subseteq Token
    /\ call \in [Request -> Call]
    /\ \A r \in Request : call[r].pc = "granted" => call[r].name \in User
    /\ now \in Nat /\ logins \in Nat /\ faults \in Nat
    /\ registered \subseteq [name : User, by : Client]
    /\ live \in [OpenId -> SUBSET Token]
    /\ acts \subseteq [for : User, by : Client]

(* Whoever was told that a name is registered can log in under it with the   *)
(* password given, ever after, although register tests for the name in one   *)
(* query and inserts it in another.                                          *)
RegistrationHolds ==
    \A g \in registered : \E w \in rows : w.name = g.name /\ w.password = g.by

(* No two people ever act under one name: through two racing registrations,  *)
(* logins, session reads that fail, logouts and the delay between the check  *)
(* of a token and the work of its request.                                   *)
OneClientPerName == \A a, b \in acts : a.for = b.for => a.by = b.by

(* A token that was handed out and not logged out works until it expires:    *)
(* the session in Redis lives as long, also when two logins of one user race *)
(* and their SETEX come in the other order.                                  *)
SessionOutlivesTokens ==
    \A o \in OpenId : \A t \in live[o] : t.expires <= session[o].until

(* What Accounts speaks of: who owns a name, who is logged in, who holds a   *)
(* token of whose openid, and for whom a request was let through.            *)
Owner(n) == IF Taken(n) THEN (CHOOSE w \in rows : w.name = n).password ELSE None
LoggedIn == {n \in User : \E w \in rows : w.name = n /\ Exists(w.openid)}
Holders == {h \in [name : User, by : Client] : \E w \in rows, t \in tokens :
                h.name = w.name /\ h.by = t.by /\ w.openid = t.openid}
AdmittedFor(r) == IF call[r].pc = "granted"
                    THEN [name |-> call[r].name, by |-> call[r].token.by]
                    ELSE [name |-> None, by |-> None]

Promised == INSTANCE Accounts
    WITH owner <- [n \in User |-> Owner(n)], told <- registered, holders <- Holders,
         loggedIn <- LoggedIn, admitted <- [r \in Request |-> AdmittedFor(r)]

(* Each step of a call, of the clock or of a failure does what Accounts says *)
(* or changes none of it: a name keeps the owner it got first, tokens go to  *)
(* the owner alone, the gate opens only for a holder of a token while there  *)
(* is a session, and a logout or the end of a session closes it.             *)
ImplementsAccounts == Promised!Spec

(* A user who is logged in cannot log in again ("AlreadyExists", app.rs:126): *)
(* of the tokens handed out since the last logout, one at most is valid.     *)
OneLoginAtATime ==
    \A o \in OpenId : Cardinality({t \in live[o] : CheckToken(t)}) <= 1
=============================================================================
