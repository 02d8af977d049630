--------------------------- MODULE SessionsProofs ---------------------------
(* Proofs about Sessions, for any number of users, people, requests and      *)
(* logins.  One inductive invariant ties every token, session and request to *)
(* the row of table users it came from; a second one compares the life of a  *)
(* session with the expiry time of its tokens.                               *)
EXTENDS Sessions, TLAPS

(* The table has one row per name and one per openid. *)
RowsUnique == \A v, w \in rows : v.name = w.name \/ v.openid = w.openid => v = w

(* Token t was made for the person whose password the row has. *)
Earned(t) == \E w \in rows : w.openid = t.openid /\ w.password = t.by

(* The user and the person a request stands for are those of one row. *)
Belongs(n, t) == \E w \in rows : w.name = n /\ w.openid = t.openid /\ w.password = t.by

TokensEarned == \A t \in tokens : Earned(t)

SessionsOwned == \A o \in OpenId : session[o] # NoSession =>
                    \E w \in rows : w.openid = o /\ w.name = session[o].name

CallsOwned == \A r \in Request :
                 /\ call[r].pc \in {"session", "save", "granted"} => Belongs(call[r].name, call[r].token)
                 /\ call[r].pc = "verify" => Earned(call[r].token)
                 /\ call[r].pc = "insert" => call[r].name \in User /\ call[r].token.by \in Client

ActsOwned == \A a \in acts : \E w \in rows : w.name = a.for /\ w.password = a.by

OwnerInv == RowsUnique /\ TokensEarned /\ SessionsOwned /\ CallsOwned /\ ActsOwned

(* A step of a request leaves the rest of the calls as they are. *)
LEMMA CallUpdate ==
    ASSUME TypeOK, NEW r \in Request, NEW to \in Call, Goes(r, to)
    PROVE  /\ call' \in [Request -> Call]
           /\ call'[r] = to
           /\ \A s \in Request : s # r => call'[s] = call[s]
BY DEF TypeOK, Goes

LEMMA ConstantsTyped ==
    /\ Idle \in Call /\ NoToken \in Token /\ NoSession \in Session
BY DEF Idle, NoToken, NoTokenYet, NoSession, Call, Token, Session

(* What the type invariant needs of a request before its register or login   *)
(* step: the fields that step will use.                                      *)
CallsTyped ==
    \A r \in Request :
        /\ call[r].pc = "insert" => call[r].name \in User /\ call[r].token.by \in Client
        /\ call[r].pc \in {"session", "save"} => call[r].name \in User
        /\ call[r].pc \in {"session", "save", "verify", "granted"} =>
              call[r].token.openid \in OpenId /\ call[r].token.by \in Client

TokensTyped == \A t \in tokens : t.openid \in OpenId /\ t.by \in Client

TypeInv == TypeOK /\ CallsTyped /\ TokensTyped

LEMMA TypeInit == Init => TypeInv
BY ConstantsTyped DEF Init, TypeInv, TypeOK, CallsTyped, TokensTyped, Idle

LEMMA TypeStep == TypeInv /\ [Next]_vars => TypeInv'
<1>. SUFFICES ASSUME TypeInv, [Next]_vars PROVE TypeInv'
  OBVIOUS
<1>. USE ConstantsTyped, NoneAssumption
<1>1. CASE UNCHANGED vars
  BY <1>1 DEF TypeInv, TypeOK, CallsTyped, TokensTyped, vars, history, Exists
<1>2. CASE Tick
  BY <1>2 DEF TypeInv, TypeOK, CallsTyped, TokensTyped, Tick, history
<1>3. ASSUME NEW r \in Request, NEW n \in User, NEW c \in Client, CheckUser(r, n, c)
      PROVE  TypeInv'
  <2>1. [pc |-> "insert", name |-> n, token |-> NoTokenYet(None, c)] \in Call
    BY DEF Call, Token, NoTokenYet
  <2>. QED BY <1>3, <2>1, CallUpdate
    DEF TypeInv, TypeOK, CallsTyped, TokensTyped, CheckUser, history, NoTokenYet
<1>4. ASSUME NEW r \in Request, NEW n \in User, NEW c \in Client, FetchUser(r, n, c)
      PROVE  TypeInv'
  <2>1. PICK w \in rows : /\ w.name = n /\ w.password = c
                          /\ Goes(r, [pc |-> "session", name |-> n,
                                token |-> NoTokenYet(w.openid, c)])
    BY <1>4 DEF FetchUser
  <2>2. w.openid \in OpenId
    BY DEF TypeInv, TypeOK, Row
  <2>3. [pc |-> "session", name |-> n,
         token |-> NoTokenYet(w.openid, c)] \in Call
    BY <2>2 DEF Call, Token, NoTokenYet
  <2>. QED BY <1>4, <2>1, <2>2, <2>3, CallUpdate
    DEF TypeInv, TypeOK, CallsTyped, TokensTyped, FetchUser, history, NoTokenYet
<1>5. ASSUME NEW r \in Request, AddUser(r) PROVE TypeInv'
  <2>1. /\ call' \in [Request -> Call] /\ call'[r] = Idle
        /\ \A s \in Request : s # r => call'[s] = call[s]
    BY <1>5, CallUpdate DEF AddUser, Ends, TypeInv
  <2>2. rows' \subseteq Row /\ registered' \subseteq [name : User, by : Client] /\ faults' \in Nat
    BY <1>5 DEF AddUser, TypeInv, TypeOK, CallsTyped, Row, Fails
  <2>. QED BY <1>5, <2>1, <2>2
    DEF TypeInv, TypeOK, CallsTyped, TokensTyped, AddUser, Idle
<1>6. ASSUME NEW r \in Request, ReadSession(r) PROVE TypeInv'
  <2>. DEFINE t == call[r].token
              made == [login |-> logins + 1, openid |-> t.openid, by |-> t.by,
                       expires |-> now + Lifetime]
              saves == [pc |-> "save", name |-> call[r].name, token |-> made]
  <2>1. t.openid \in OpenId /\ t.by \in Client /\ call[r].name \in User
    BY <1>6 DEF TypeInv, CallsTyped, ReadSession
  <2>2. saves \in Call
    BY <2>1, BoundAssumption DEF TypeInv, TypeOK, Call, Token
  <2>3. Goes(r, Idle) \/ Goes(r, saves)
    BY <1>6 DEF ReadSession, Ends
  <2>4. logins' \in Nat /\ faults' \in Nat
    BY <1>6 DEF ReadSession, Fails, TypeInv, TypeOK
  <2>5. /\ call' \in [Request -> Call] /\ call'[r] \in {Idle, saves}
        /\ \A s \in Request : s # r => call'[s] = call[s]
    BY <2>2, <2>3, CallUpdate DEF TypeInv
  <2>. QED BY <1>6, <2>1, <2>4, <2>5
    DEF TypeInv, TypeOK, CallsTyped, TokensTyped, ReadSession, Idle, history
<1>7. ASSUME NEW r \in Request, SaveSession(r) PROVE TypeInv'
  <2>. DEFINE t == call[r].token
  <2>1. t \in Token /\ t.openid \in OpenId /\ t.by \in Client /\ call[r].name \in User
    BY <1>7 DEF TypeInv, TypeOK, CallsTyped, SaveSession, Call
  <2>2. /\ call' \in [Request -> Call] /\ call'[r] = Idle
        /\ \A s \in Request : s # r => call'[s] = call[s]
    BY <1>7, CallUpdate DEF SaveSession, Ends, TypeInv
  <2>3. session' \in [OpenId -> Session]
    BY <1>7, <2>1, BoundAssumption DEF SaveSession, Stores, TypeInv, TypeOK, Session
  <2>4. tokens' \subseteq Token /\ TokensTyped'
    BY <1>7, <2>1 DEF SaveSession, HandsOut, TypeInv, TypeOK, TokensTyped
  <2>5. live' \in [OpenId -> SUBSET Token] /\ faults' \in Nat
    BY <1>7, <2>1 DEF SaveSession, HandsOut, Fails, TypeInv, TypeOK
  <2>. QED BY <1>7, <2>2, <2>3, <2>4, <2>5
    DEF TypeInv, TypeOK, CallsTyped, SaveSession, Idle
<1>8. ASSUME NEW r \in Request, NEW t \in tokens, Authenticate(r, t) PROVE TypeInv'
  <2>1. [pc |-> "verify", name |-> None, token |-> t] \in Call
    BY DEF Call, TypeInv, TypeOK
  <2>. QED BY <1>8, <2>1, CallUpdate
    DEF TypeInv, TypeOK, CallsTyped, TokensTyped, Authenticate, history
<1>9. ASSUME NEW r \in Request, VerifyToken(r) PROVE TypeInv'
  <2>. DEFINE o == call[r].token.openid
              grants == [pc |-> "granted", name |-> session[o].name, token |-> call[r].token]
  <2>1. o \in OpenId /\ call[r].token.by \in Client
    BY <1>9 DEF TypeInv, CallsTyped, VerifyToken
  <2>2. Goes(r, Idle) \/ (session[o].name # None /\ Goes(r, grants))
    BY <1>9 DEF VerifyToken, Decide, Admits, Verified, UnknownError, Ends
  <2>3. faults' \in Nat
    BY <1>9 DEF VerifyToken, Fails, TypeInv, TypeOK
  <2>4. session[o].name # None => grants \in Call /\ session[o].name \in User
    BY <2>1 DEF TypeInv, TypeOK, Session, Call
  <2>5. /\ call' \in [Request -> Call]
        /\ call'[r] = Idle \/ (call'[r] = grants /\ session[o].name \in User)
        /\ \A s \in Request : s # r => call'[s] = call[s]
    BY <2>2, <2>4, CallUpdate DEF TypeInv
  <2>. QED BY <1>9, <2>1, <2>3, <2>5
    DEF TypeInv, TypeOK, CallsTyped, TokensTyped, VerifyToken, Idle, history
<1>10. ASSUME NEW r \in Request, NEW n \in User, Act(r, n) PROVE TypeInv'
  <2>1. /\ call' \in [Request -> Call] /\ call'[r] = Idle
        /\ \A s \in Request : s # r => call'[s] = call[s]
    BY <1>10, CallUpdate DEF Act, Ends, TypeInv
  <2>2. acts' \subseteq [for : User, by : Client]
    BY <1>10 DEF Act, TypeInv, TypeOK, CallsTyped
  <2>. QED BY <1>10, <2>1, <2>2 DEF TypeInv, TypeOK, CallsTyped, TokensTyped, Act, Idle
<1>11. ASSUME NEW r \in Request, Logout(r) PROVE TypeInv'
  <2>1. /\ call' \in [Request -> Call] /\ call'[r] = Idle
        /\ \A s \in Request : s # r => call'[s] = call[s]
    BY <1>11, CallUpdate DEF Logout, Ends, TypeInv
  <2>2. session' \in [OpenId -> Session] /\ live' \in [OpenId -> SUBSET Token] /\ faults' \in Nat
    BY <1>11 DEF Logout, Deletes, Fails, TypeInv, TypeOK
  <2>. QED BY <1>11, <2>1, <2>2 DEF TypeInv, TypeOK, CallsTyped, TokensTyped, Logout, Idle
<1>. QED
  BY <1>1, <1>2, <1>3, <1>4, <1>5, <1>6, <1>7, <1>8, <1>9, <1>10, <1>11
  DEF Next, RequestStep

LEMMA TypeInvHolds == Spec => []TypeInv
BY TypeInit, TypeStep, PTL DEF Spec

(* Every reachable state is well typed; in particular a request that passed  *)
(* the gate has a registered user's name, never the empty one of a failed    *)
(* verification.                                                             *)
THEOREM TypeCorrect == Spec => []TypeOK
<1>1. TypeInv => TypeOK
  BY DEF TypeInv
<1>. QED BY <1>1, TypeInvHolds, PTL

-----------------------------------------------------------------------------
(* Everything belongs to a row *)

RegistrationInv == RowsUnique /\ RegistrationHolds

LEMMA OwnerInit == Init => OwnerInv /\ RegistrationInv
BY DEF Init, OwnerInv, RegistrationInv, RegistrationHolds, RowsUnique, TokensEarned,
       SessionsOwned, CallsOwned, ActsOwned, Idle

(* Rows stay: only AddUser touches the table, and it adds a row whose name   *)
(* and openid are new.                                                       *)
LEMMA RowsStep ==
    ASSUME [Next]_vars PROVE /\ rows \subseteq rows'
                             /\ RowsUnique => RowsUnique'
                             /\ RegistrationHolds => RegistrationHolds'
<1>1. ASSUME NEW r \in Request, AddUser(r)
      PROVE  /\ rows \subseteq rows'
             /\ RowsUnique => RowsUnique'
             /\ RegistrationHolds => RegistrationHolds'
  <2>. DEFINE n == call[r].name
              c == call[r].token.by
  <2>1. CASE rows' = rows /\ registered' = registered
    BY <2>1 DEF RowsUnique, RegistrationHolds
  <2>2. ASSUME NEW o \in OpenId, ~Taken(n), \A v \in rows : v.openid # o,
               rows' = rows \cup {[name |-> n, password |-> c, openid |-> o]},
               registered' \subseteq registered \cup {[name |-> n, by |-> c]}
        PROVE  /\ rows \subseteq rows'
               /\ RowsUnique => RowsUnique'
               /\ RegistrationHolds => RegistrationHolds'
    <3>. DEFINE w == [name |-> n, password |-> c, openid |-> o]
    <3>1. w \in rows' /\ w.name = n /\ w.password = c /\ w.openid = o
      BY <2>2
    <3>2. \A v \in rows' : v = w \/ (v \in rows /\ v.name # n /\ v.openid # o)
      BY <2>2 DEF Taken
    <3>3. RowsUnique => RowsUnique'
      BY <3>1, <3>2 DEF RowsUnique
    <3>4. RegistrationHolds => RegistrationHolds'
      <4>1. \A g \in registered' : g \in registered \/ (g.name = n /\ g.by = c)
        BY <2>2
      <4>. QED BY <2>2, <3>1, <4>1 DEF RegistrationHolds
    <3>. QED BY <2>2, <3>3, <3>4
  <2>3. \/ rows' = rows /\ registered' = registered
        \/ \E o \in OpenId :
              /\ ~Taken(n) /\ \A v \in rows : v.openid # o
              /\ rows' = rows \cup {[name |-> n, password |-> c, openid |-> o]}
              /\ registered' \subseteq registered \cup {[name |-> n, by |-> c]}
    BY <1>1 DEF AddUser
  <2>. QED BY <2>1, <2>2, <2>3
<1>2. (\A r \in Request : ~AddUser(r)) => rows' = rows /\ registered' = registered
  BY DEF Next, RequestStep, vars, history, Tick, CheckUser, FetchUser, ReadSession, SaveSession,
         Authenticate, VerifyToken, Act, Logout
<1>. QED BY <1>1, <1>2 DEF RowsUnique, RegistrationHolds

LEMMA OwnerStep == TypeInv /\ OwnerInv /\ [Next]_vars => OwnerInv'
<1>. SUFFICES ASSUME TypeInv, OwnerInv, [Next]_vars PROVE OwnerInv'
  OBVIOUS
<1>0. rows \subseteq rows' /\ RowsUnique'
  BY RowsStep DEF OwnerInv
<1>. USE ConstantsTyped, NoneAssumption
<1>1. CASE UNCHANGED vars \/ Tick
  BY <1>1 DEF OwnerInv, RowsUnique, TokensEarned, SessionsOwned, CallsOwned, ActsOwned,
              Earned, Belongs, vars, history, Tick
<1>3. ASSUME NEW r \in Request, NEW n \in User, NEW c \in Client, CheckUser(r, n, c)
      PROVE  OwnerInv'
  <2>1. [pc |-> "insert", name |-> n, token |-> NoTokenYet(None, c)] \in Call
    BY DEF Call, Token, NoTokenYet
  <2>. QED BY <1>0, <1>3, <2>1, CallUpdate
    DEF TypeInv, OwnerInv, TokensEarned, SessionsOwned, CallsOwned, ActsOwned, Earned, Belongs,
        CheckUser, history, NoTokenYet
<1>4. ASSUME NEW r \in Request, NEW n \in User, NEW c \in Client, FetchUser(r, n, c)
      PROVE  OwnerInv'
  <2>1. PICK w \in rows :
          /\ w.name = n /\ w.password = c
          /\ Goes(r, [pc |-> "session", name |-> n, token |-> NoTokenYet(w.openid, c)])
    BY <1>4 DEF FetchUser
  <2>2. [pc |-> "session", name |-> n, token |-> NoTokenYet(w.openid, c)] \in Call
    BY DEF Call, Token, NoTokenYet, TypeInv, TypeOK, Row
  <2>. QED BY <1>0, <1>4, <2>1, <2>2, CallUpdate
    DEF TypeInv, OwnerInv, TokensEarned, SessionsOwned, CallsOwned, ActsOwned, Earned, Belongs,
        FetchUser, history, NoTokenYet
<1>5. ASSUME NEW r \in Request, AddUser(r) PROVE OwnerInv'
  <2>1. /\ call'[r] = Idle
        /\ \A s \in Request : s # r => call'[s] = call[s]
    BY <1>5, CallUpdate DEF AddUser, Ends, TypeInv
  <2>2. CallsOwned'
    BY <1>0, <2>1 DEF OwnerInv, CallsOwned, Earned, Belongs, Idle
  <2>. QED BY <1>0, <1>5, <2>2
    DEF OwnerInv, TokensEarned, SessionsOwned, ActsOwned, Earned, AddUser
<1>6. ASSUME NEW r \in Request, ReadSession(r) PROVE OwnerInv'
  <2>. DEFINE t == call[r].token
              made == [login |-> logins + 1, openid |-> t.openid, by |-> t.by,
                       expires |-> now + Lifetime]
              saves == [pc |-> "save", name |-> call[r].name, token |-> made]
  <2>1. Belongs(call[r].name, t) /\ t.openid \in OpenId /\ t.by \in Client /\ call[r].name \in User
    BY <1>6 DEF OwnerInv, CallsOwned, TypeInv, CallsTyped, ReadSession
  <2>2. saves \in Call
    BY <2>1, BoundAssumption DEF TypeInv, TypeOK, Call, Token
  <2>3. Goes(r, Idle) \/ Goes(r, saves)
    BY <1>6 DEF ReadSession, Ends
  <2>4. /\ call'[r] \in {Idle, saves}
        /\ \A s \in Request : s # r => call'[s] = call[s]
    BY <2>2, <2>3, CallUpdate DEF TypeInv
  <2>5. CallsOwned'
    BY <1>0, <2>1, <2>4 DEF OwnerInv, CallsOwned, Earned, Belongs, Idle
  <2>. QED BY <1>0, <1>6, <2>5
    DEF OwnerInv, TokensEarned, SessionsOwned, ActsOwned, Earned, ReadSession, history
<1>7. ASSUME NEW r \in Request, SaveSession(r) PROVE OwnerInv'
  <2>. DEFINE t == call[r].token
  <2>1. Belongs(call[r].name, t) /\ t.openid \in OpenId /\ t \in Token
    BY <1>7 DEF OwnerInv, CallsOwned, TypeInv, TypeOK, CallsTyped, SaveSession, Call
  <2>2. /\ call'[r] = Idle
        /\ \A s \in Request : s # r => call'[s] = call[s]
    BY <1>7, CallUpdate DEF SaveSession, Ends, TypeInv
  <2>3. CallsOwned'
    BY <1>0, <2>2 DEF OwnerInv, CallsOwned, Earned, Belongs, Idle
  <2>4. TokensEarned'
    BY <1>0, <1>7, <2>1 DEF OwnerInv, TokensEarned, Earned, Belongs, SaveSession, HandsOut
  <2>5. ASSUME Stores(r) PROVE SessionsOwned'
    <3>1. session'[t.openid] = [name |-> call[r].name, until |-> now + Lifetime]
      BY <2>1, <2>5 DEF Stores, TypeInv, TypeOK
    <3>2. \A o \in OpenId : o # t.openid => session'[o] = session[o]
      BY <2>1, <2>5 DEF Stores, TypeInv, TypeOK
    <3>. QED BY <1>0, <2>1, <3>1, <3>2 DEF OwnerInv, SessionsOwned, Belongs
  <2>6. SessionsOwned'
    BY <1>0, <1>7, <2>5 DEF OwnerInv, SessionsOwned, SaveSession
  <2>. QED BY <1>0, <1>7, <2>3, <2>4, <2>6 DEF OwnerInv, ActsOwned, SaveSession
<1>8. ASSUME NEW r \in Request, NEW t \in tokens, Authenticate(r, t) PROVE OwnerInv'
  <2>1. [pc |-> "verify", name |-> None, token |-> t] \in Call
    BY DEF Call, TypeInv, TypeOK
  <2>. QED BY <1>0, <1>8, <2>1, CallUpdate
    DEF TypeInv, OwnerInv, TokensEarned, SessionsOwned, CallsOwned, ActsOwned, Earned, Belongs,
        Authenticate, history
<1>9. ASSUME NEW r \in Request, VerifyToken(r) PROVE OwnerInv'
  <2>. DEFINE t == call[r].token
              o == t.openid
              grants == [pc |-> "granted", name |-> session[o].name, token |-> t]
  <2>1. o \in OpenId /\ Earned(t) /\ t \in Token
    BY <1>9 DEF TypeInv, TypeOK, Call, CallsTyped, VerifyToken, OwnerInv, CallsOwned
  <2>2. Goes(r, Idle) \/ (session[o].name # None /\ Goes(r, grants))
    BY <1>9 DEF VerifyToken, Decide, Admits, Verified, UnknownError, Ends
  <2>3. session[o].name # None => grants \in Call
    BY <2>1 DEF TypeInv, TypeOK, Session, Call
  <2>4. session[o].name # None => Belongs(session[o].name, t)
    <3>1. session[o].name # None => session[o] # NoSession
      BY DEF NoSession
    <3>. QED BY <2>1, <3>1 DEF OwnerInv, SessionsOwned, RowsUnique, Earned, Belongs
  <2>5. /\ call'[r] = Idle \/ (call'[r] = grants /\ Belongs(session[o].name, t))
        /\ \A s \in Request : s # r => call'[s] = call[s]
    BY <2>2, <2>3, <2>4, CallUpdate DEF TypeInv
  <2>6. CallsOwned'
    BY <1>0, <2>5 DEF OwnerInv, CallsOwned, Earned, Belongs, Idle
  <2>. QED BY <1>0, <1>9, <2>6
    DEF OwnerInv, TokensEarned, SessionsOwned, ActsOwned, Earned, VerifyToken, history
<1>10. ASSUME NEW r \in Request, NEW n \in User, Act(r, n) PROVE OwnerInv'
  <2>1. /\ call'[r] = Idle
        /\ \A s \in Request : s # r => call'[s] = call[s]
    BY <1>10, CallUpdate DEF Act, Ends, TypeInv
  <2>2. CallsOwned'
    BY <1>0, <2>1 DEF OwnerInv, CallsOwned, Earned, Belongs, Idle
  <2>3. ActsOwned'
    BY <1>0, <1>10 DEF Act, OwnerInv, ActsOwned, CallsOwned, Belongs
  <2>. QED BY <1>0, <1>10, <2>2, <2>3 DEF OwnerInv, TokensEarned, SessionsOwned, Earned, Act
<1>11. ASSUME NEW r \in Request, Logout(r) PROVE OwnerInv'
  <2>1. /\ call'[r] = Idle
        /\ \A s \in Request : s # r => call'[s] = call[s]
    BY <1>11, CallUpdate DEF Logout, Ends, TypeInv
  <2>2. CallsOwned'
    BY <1>0, <2>1 DEF OwnerInv, CallsOwned, Earned, Belongs, Idle
  <2>3. \A o \in OpenId : session'[o] \in {session[o], NoSession}
    BY <1>11 DEF Logout, Deletes, TypeInv, TypeOK
  <2>. QED BY <1>0, <1>11, <2>2, <2>3
    DEF OwnerInv, TokensEarned, SessionsOwned, ActsOwned, Earned, Logout
<1>. QED
  BY <1>1, <1>3, <1>4, <1>5, <1>6, <1>7, <1>8, <1>9, <1>10, <1>11 DEF Next, RequestStep

(* A registration that was acknowledged stays good: its row is there with    *)
(* the password given, whatever other registrations race with it.            *)
THEOREM RegistrationsStay == Spec => []RegistrationHolds
<1>1. RegistrationInv /\ [Next]_vars => RegistrationInv'
  BY RowsStep DEF RegistrationInv
<1>2. RegistrationInv => RegistrationHolds
  BY DEF RegistrationInv
<1>. QED BY <1>1, <1>2, OwnerInit, PTL DEF Spec

(* One name, one person: tokens, sessions and requests lead back to one row, *)
(* whose name and openid no other row has.                                   *)
THEOREM NamesAreNotShared == Spec => []OneClientPerName
<1>1. OwnerInv => OneClientPerName
  BY DEF OwnerInv, RowsUnique, ActsOwned, OneClientPerName
<1>. QED BY <1>1, OwnerInit, OwnerStep, TypeInvHolds, PTL DEF Spec

-----------------------------------------------------------------------------
(* The life of a session *)

(* No token, handed out or about to be, expires later than a session that is *)
(* stored now: the expiry time is computed before SETEX.                     *)
ExpiryBounded ==
    /\ \A t \in tokens : t.expires <= now + Lifetime
    /\ \A r \in Request : call[r].pc = "save" => call[r].token.expires <= now + Lifetime

LiveHandedOut == \A o \in OpenId : live[o] \subseteq tokens

ExpiryInv == ExpiryBounded /\ LiveHandedOut /\ SessionOutlivesTokens

LEMMA ExpiryStep == TypeInv /\ ExpiryInv /\ [Next]_vars => ExpiryInv'
<1>. SUFFICES ASSUME TypeInv, ExpiryInv, [Next]_vars PROVE ExpiryInv'
  OBVIOUS
<1>. USE ConstantsTyped, BoundAssumption
<1>1. now \in Nat /\ \A t \in tokens : t.expires \in Nat
  BY DEF TypeInv, TypeOK, Token
<1>2. \A r \in Request : call[r].token.expires \in Nat
  BY DEF TypeInv, TypeOK, Call, Token
<1>3. CASE UNCHANGED vars
  BY <1>3 DEF ExpiryInv, ExpiryBounded, LiveHandedOut, SessionOutlivesTokens, vars, history
<1>4. CASE Tick
  BY <1>1, <1>2, <1>4 DEF ExpiryInv, ExpiryBounded, LiveHandedOut, SessionOutlivesTokens, Tick, history
<1>5. ASSUME NEW r \in Request, NEW to \in Call, Goes(r, to), now' = now, tokens' = tokens,
             to.pc = "save" => to.token.expires <= now + Lifetime
      PROVE  ExpiryBounded'
  BY <1>5, CallUpdate DEF TypeInv, ExpiryInv, ExpiryBounded
<1>6. ASSUME now' = now, tokens' = tokens, live' = live, session' = session, ExpiryBounded'
      PROVE  ExpiryInv'
  BY <1>6 DEF ExpiryInv, LiveHandedOut, SessionOutlivesTokens
<1>7. ASSUME NEW r \in Request, NEW n \in User, NEW c \in Client, CheckUser(r, n, c)
      PROVE  ExpiryInv'
  <2>1. [pc |-> "insert", name |-> n, token |-> NoTokenYet(None, c)] \in Call
    BY DEF Call, Token, NoTokenYet
  <2>. QED BY <1>5, <1>6, <1>7, <2>1 DEF CheckUser, history
<1>8. ASSUME NEW r \in Request, NEW n \in User, NEW c \in Client, FetchUser(r, n, c)
      PROVE  ExpiryInv'
  <2>1. PICK w \in rows :
          Goes(r, [pc |-> "session", name |-> n, token |-> NoTokenYet(w.openid, c)])
    BY <1>8 DEF FetchUser
  <2>2. [pc |-> "session", name |-> n, token |-> NoTokenYet(w.openid, c)] \in Call
    BY DEF Call, Token, NoTokenYet, TypeInv, TypeOK, Row
  <2>. QED BY <1>5, <1>6, <1>8, <2>1, <2>2 DEF FetchUser, history
<1>9. ASSUME NEW r \in Request, AddUser(r) PROVE ExpiryInv'
  BY <1>5, <1>6, <1>9 DEF AddUser, Ends, Idle
<1>10. ASSUME NEW r \in Request, ReadSession(r) PROVE ExpiryInv'
  <2>. DEFINE t == call[r].token
              made == [login |-> logins + 1, openid |-> t.openid, by |-> t.by,
                       expires |-> now + Lifetime]
              saves == [pc |-> "save", name |-> call[r].name, token |-> made]
  <2>1. saves \in Call
    BY <1>10 DEF TypeInv, TypeOK, CallsTyped, Call, Token, ReadSession
  <2>2. Goes(r, Idle) \/ Goes(r, saves)
    BY <1>10 DEF ReadSession, Ends
  <2>3. saves.token.expires <= now + Lifetime
    BY <1>1
  <2>. QED BY <1>5, <1>6, <1>10, <2>1, <2>2, <2>3 DEF ReadSession, history, Idle
<1>11. ASSUME NEW r \in Request, SaveSession(r) PROVE ExpiryInv'
  <2>. DEFINE t == call[r].token
  <2>1. t.openid \in OpenId /\ t \in Token /\ t.expires <= now + Lifetime
    BY <1>11 DEF TypeInv, TypeOK, CallsTyped, Call, SaveSession, ExpiryInv, ExpiryBounded
  <2>2. ExpiryBounded'
    <3>1. /\ call'[r] = Idle
          /\ \A s \in Request : s # r => call'[s] = call[s]
      BY <1>11, CallUpdate DEF SaveSession, Ends, TypeInv
    <3>2. tokens' \subseteq tokens \cup {t} /\ now' = now
      BY <1>11 DEF SaveSession, HandsOut
    <3>. QED BY <2>1, <3>1, <3>2 DEF ExpiryInv, ExpiryBounded, Idle
  <2>3. LiveHandedOut'
    BY <1>11, <2>1 DEF SaveSession, HandsOut, TypeInv, TypeOK, ExpiryInv, LiveHandedOut
  <2>4. CASE HandsOut(t) /\ Stores(r)
    <3>1. session'[t.openid].until = now + Lifetime /\ live'[t.openid] = live[t.openid] \cup {t}
      BY <2>1, <2>4 DEF HandsOut, Stores, TypeInv, TypeOK
    <3>2. \A o \in OpenId : o # t.openid => session'[o] = session[o] /\ live'[o] = live[o]
      BY <2>1, <2>4 DEF HandsOut, Stores, TypeInv, TypeOK
    <3>3. \A u \in live[t.openid] : u.expires <= now + Lifetime
      BY <2>1 DEF ExpiryInv, ExpiryBounded, LiveHandedOut
    <3>4. SessionOutlivesTokens'
      BY <2>1, <3>1, <3>2, <3>3 DEF ExpiryInv, SessionOutlivesTokens
    <3>. QED BY <2>2, <2>3, <3>4 DEF ExpiryInv
  <2>5. CASE Stores(r) /\ live' = live
    <3>1. session'[t.openid].until = now + Lifetime
      BY <2>1, <2>5 DEF Stores, TypeInv, TypeOK
    <3>2. \A o \in OpenId : o # t.openid => session'[o] = session[o]
      BY <2>1, <2>5 DEF Stores, TypeInv, TypeOK
    <3>3. \A u \in live[t.openid] : u.expires <= now + Lifetime
      BY <2>1 DEF ExpiryInv, ExpiryBounded, LiveHandedOut
    <3>4. SessionOutlivesTokens'
      BY <2>1, <2>5, <3>1, <3>2, <3>3 DEF ExpiryInv, SessionOutlivesTokens
    <3>. QED BY <2>2, <2>3, <3>4 DEF ExpiryInv
  <2>6. CASE session' = session /\ live' = live
    BY <2>2, <2>3, <2>6 DEF ExpiryInv, SessionOutlivesTokens
  <2>. QED BY <1>11, <2>4, <2>5, <2>6 DEF SaveSession
<1>12. ASSUME NEW r \in Request, NEW t \in tokens, Authenticate(r, t) PROVE ExpiryInv'
  <2>1. [pc |-> "verify", name |-> None, token |-> t] \in Call
    BY DEF Call, TypeInv, TypeOK
  <2>. QED BY <1>5, <1>6, <1>12, <2>1 DEF Authenticate, history
<1>13. ASSUME NEW r \in Request, VerifyToken(r) PROVE ExpiryInv'
  <2>. DEFINE t == call[r].token
              grants == [pc |-> "granted", name |-> session[t.openid].name, token |-> t]
  <2>1. Goes(r, Idle) \/ Goes(r, grants)
    BY <1>13 DEF VerifyToken, Decide, Admits, Verified, UnknownError, Ends
  <2>2. grants \in Call
    BY <1>13 DEF TypeInv, TypeOK, CallsTyped, Session, Call, VerifyToken
  <2>. QED BY <1>5, <1>6, <1>13, <2>1, <2>2 DEF VerifyToken, history, Idle
<1>14. ASSUME NEW r \in Request, NEW n \in User, Act(r, n) PROVE ExpiryInv'
  BY <1>5, <1>6, <1>14 DEF Act, Ends, Idle
<1>15. ASSUME NEW r \in Request, Logout(r) PROVE ExpiryInv'
  <2>. DEFINE o == call[r].token.openid
  <2>1. ExpiryBounded' /\ now' = now /\ tokens' = tokens
    BY <1>5, <1>15 DEF Logout, Ends, Idle
  <2>2. CASE session' = session /\ live' = live
    BY <1>6, <2>1, <2>2
  <2>3. CASE Deletes(o)
    <3>1. /\ \A p \in OpenId : p # o => session'[p] = session[p] /\ live'[p] = live[p]
          /\ o \in OpenId => live'[o] = {}
      BY <2>3 DEF Deletes, TypeInv, TypeOK
    <3>. QED BY <2>1, <3>1 DEF ExpiryInv, LiveHandedOut, SessionOutlivesTokens
  <2>. QED BY <1>15, <2>2, <2>3 DEF Logout
<1>. QED
  BY <1>3, <1>4, <1>7, <1>8, <1>9, <1>10, <1>11, <1>12, <1>13, <1>14, <1>15 DEF Next, RequestStep

(* A session lasts as long as any token that needs it: until it expires or   *)
(* its user logs out there is a session for it, however logins race.         *)
THEOREM LoginsLast == Spec => []SessionOutlivesTokens
<1>1. Init => ExpiryInv
  BY DEF Init, ExpiryInv, ExpiryBounded, LiveHandedOut, SessionOutlivesTokens, Idle
<1>2. ExpiryInv => SessionOutlivesTokens
  BY DEF ExpiryInv
<1>. QED BY <1>1, <1>2, ExpiryStep, TypeInvHolds, PTL DEF Spec

-----------------------------------------------------------------------------
(* Sessions implements Accounts *)

(* A token that is being verified was handed out. *)
VerifiesOwnToken == \A r \in Request : call[r].pc = "verify" => call[r].token \in tokens

LEMMA VerifiesStep == TypeInv /\ VerifiesOwnToken /\ [Next]_vars => VerifiesOwnToken'
<1> SUFFICES ASSUME TypeInv, VerifiesOwnToken, [Next]_vars PROVE VerifiesOwnToken'
  OBVIOUS
<1>1. tokens \subseteq tokens'
  BY DEF Next, RequestStep, vars, history, Tick, CheckUser, FetchUser, AddUser, ReadSession,
         SaveSession, HandsOut, Authenticate, VerifyToken, Act, Logout
<1>2. ASSUME NEW r \in Request, call'[r].pc = "verify", call'[r] # call[r]
      PROVE  call'[r].token \in tokens'
  <2>1. ASSUME NEW s \in Request, RequestStep(s) PROVE call'[r].token \in tokens'
    <3>1. ASSUME NEW to, Goes(s, to) PROVE s = r /\ call'[r] = to
      BY <1>2, <3>1 DEF Goes, TypeInv, TypeOK
    <3>2. ~Ends(s)
      BY <1>2, <3>1 DEF Ends, Idle
    <3>3. ASSUME NEW n \in User, NEW c \in Client PROVE ~CheckUser(s, n, c) /\ ~FetchUser(s, n, c)
      <4>1. ~CheckUser(s, n, c)
        BY <1>2, <3>1 DEF CheckUser
      <4>2. ASSUME NEW w \in rows,
                   Goes(s, [pc |-> "session", name |-> n, token |-> NoTokenYet(w.openid, c)])
            PROVE  FALSE
        BY <1>2, <3>1, <4>2
      <4>3. QED
        BY <4>1, <4>2 DEF FetchUser
    <3>4. ~ReadSession(s)
      BY <1>2, <3>1, <3>2 DEF ReadSession
    <3>5. ~AddUser(s) /\ ~SaveSession(s) /\ ~Logout(s) /\ \A n \in User : ~Act(s, n)
      BY <3>2 DEF AddUser, SaveSession, Logout, Act
    <3>6. ~VerifyToken(s)
      BY <1>2, <3>1, <3>2 DEF VerifyToken, Decide
    <3>7. PICK t \in tokens : Authenticate(s, t)
      BY <2>1, <3>3, <3>4, <3>5, <3>6 DEF RequestStep
    <3>8. call'[r].token = t
      BY <3>1, <3>7 DEF Authenticate
    <3>9. QED
      BY <1>1, <3>8
  <2>2. QED
    BY <1>2, <2>1 DEF Next, Tick, vars
<1>3. QED
  BY <1>1, <1>2 DEF VerifiesOwnToken

LEMMA OwnerIs ==
    ASSUME RowsUnique, NEW w \in rows
    PROVE  Owner(w.name) = w.password
BY DEF RowsUnique, Owner, Taken

LEMMA OwnerIsNext ==
    ASSUME RowsUnique', NEW w \in rows'
    PROVE  Owner(w.name)' = w.password
BY DEF RowsUnique, Owner, Taken

(* A new row changes the owner of its name alone. *)
LEMMA OwnerAdded ==
    ASSUME RowsUnique, RowsUnique', NEW w, w.name \in User, ~Taken(w.name),
           rows' = rows \cup {w}
    PROVE  [n \in User |-> Owner(n)]' = [[n \in User |-> Owner(n)] EXCEPT ![w.name] = w.password]
<1>1. Owner(w.name)' = w.password
  BY OwnerIsNext
<1>2. ASSUME NEW n \in User, n # w.name PROVE Owner(n)' = Owner(n)
  <2>1. CASE Taken(n)
    <3>1. PICK v \in rows : v.name = n
      BY <2>1 DEF Taken
    <3>2. QED
      BY <3>1, OwnerIs, OwnerIsNext
  <2>2. CASE ~Taken(n)
    BY <1>2, <2>2 DEF Taken, Owner
  <2>3. QED
    BY <2>1, <2>2
<1>3. QED
  BY <1>1, <1>2

(* The calls as Accounts sees them, when one of them goes on. *)
LEMMA AdmittedChange ==
    ASSUME TypeOK, NEW r \in Request, NEW to \in Call, Goes(r, to)
    PROVE  [s \in Request |-> AdmittedFor(s)]' =
               [[s \in Request |-> AdmittedFor(s)] EXCEPT ![r] =
                   IF to.pc = "granted" THEN [name |-> to.name, by |-> to.token.by]
                   ELSE [name |-> None, by |-> None]]
<1> DEFINE person == IF to.pc = "granted" THEN [name |-> to.name, by |-> to.token.by]
                     ELSE [name |-> None, by |-> None]
<1>1. AdmittedFor(r)' = person
  BY CallUpdate DEF AdmittedFor
<1>2. \A s \in Request : s # r => AdmittedFor(s)' = AdmittedFor(s)
  BY CallUpdate DEF AdmittedFor
<1>3. QED
  BY <1>1, <1>2

LEMMA AdmittedSame ==
    ASSUME TypeOK, NEW r \in Request, NEW to \in Call, Goes(r, to),
           call[r].pc # "granted", to.pc # "granted"
    PROVE  [s \in Request |-> AdmittedFor(s)]' = [s \in Request |-> AdmittedFor(s)]
BY CallUpdate DEF AdmittedFor

(* A step of a call that touches no store and lets nobody through. *)
LEMMA AccountsStutter ==
    ASSUME rows' = rows, session' = session, tokens' = tokens, now' = now,
           registered' = registered, acts' = acts,
           [s \in Request |-> AdmittedFor(s)]' = [s \in Request |-> AdmittedFor(s)]
    PROVE  UNCHANGED Promised!vars
BY DEF Promised!vars, Owner, Taken, Holders, LoggedIn, Exists

(* user_register *)
LEMMA AddUserAccounts ==
    ASSUME TypeInv, OwnerInv, OwnerInv', NEW r \in Request, AddUser(r)
    PROVE  [Promised!Next]_(Promised!vars)
<1> DEFINE n == call[r].name
           c == call[r].token.by
<1>1. n \in User /\ c \in Client /\ call[r].pc = "insert"
  BY DEF AddUser, TypeInv, CallsTyped
<1>2. [s \in Request |-> AdmittedFor(s)]' = [s \in Request |-> AdmittedFor(s)]
  BY <1>1, AdmittedSame, ConstantsTyped DEF AddUser, Ends, Idle, TypeInv
<1>3. UNCHANGED <<session, tokens, now, acts>>
  BY DEF AddUser
<1>4. CASE rows' = rows /\ registered' = registered
  BY <1>2, <1>3, <1>4, AccountsStutter
<1>5. ASSUME NEW o \in OpenId, ~Taken(n), \A v \in rows : v.openid # o,
             rows' = rows \cup {[name |-> n, password |-> c, openid |-> o]},
             registered' \in {registered, registered \cup {[name |-> n, by |-> c]}}
      PROVE  Promised!Register(n, c)
  <2> DEFINE w == [name |-> n, password |-> c, openid |-> o]
  <2>1. w.name = n /\ w.password = c /\ w.openid = o
    OBVIOUS
  <2>2. Owner(n) = None
    BY <1>5 DEF Owner
  <2>3. [m \in User |-> Owner(m)]' = [[m \in User |-> Owner(m)] EXCEPT ![n] = c]
    <3>1. RowsUnique /\ RowsUnique' /\ w.name \in User /\ ~Taken(w.name) /\ rows' = rows \cup {w}
      BY <1>1, <1>5, <2>1 DEF OwnerInv
    <3>2. [m \in User |-> Owner(m)]' = [[m \in User |-> Owner(m)] EXCEPT ![w.name] = w.password]
      BY <3>1, OwnerAdded
    <3>3. QED
      BY <2>1, <3>2
  <2>4. Holders' = Holders
    <3>1. \A t \in tokens : t.openid # o
      BY <1>5 DEF OwnerInv, TokensEarned, Earned
    <3>2. QED
      BY <1>3, <1>5, <3>1 DEF Holders
  <2>5. LoggedIn' = LoggedIn
    <3>1. session[o] = NoSession
      BY <1>5 DEF OwnerInv, SessionsOwned
    <3>2. ~Exists(o)
      BY <3>1 DEF Exists, NoSession, TypeInv, TypeOK
    <3>3. \A p : Exists(p)' = Exists(p)
      BY <1>3 DEF Exists
    <3>4. QED
      BY <1>5, <3>2, <3>3 DEF LoggedIn
  <2>6. QED
    BY <1>1, <1>2, <1>3, <1>5, <2>2, <2>3, <2>4, <2>5 DEF Promised!Register, Promised!Person
<1>6. \/ rows' = rows /\ registered' = registered
      \/ \E o \in OpenId :
            /\ ~Taken(n) /\ \A v \in rows : v.openid # o
            /\ rows' = rows \cup {[name |-> n, password |-> c, openid |-> o]}
            /\ registered' \in {registered, registered \cup {[name |-> n, by |-> c]}}
  BY DEF AddUser
<1>7. QED
  BY <1>1, <1>4, <1>5, <1>6 DEF Promised!Next

(* user_login *)
LEMMA SaveSessionAccounts ==
    ASSUME TypeInv, OwnerInv, NEW r \in Request, SaveSession(r)
    PROVE  [Promised!Next]_(Promised!vars)
<1> DEFINE n == call[r].name
           t == call[r].token
<1>1. PICK w \in rows : w.name = n /\ w.openid = t.openid /\ w.password = t.by
  BY DEF SaveSession, OwnerInv, CallsOwned, Belongs
<1>2. n \in User /\ t.by \in Client /\ t.openid \in OpenId /\ call[r].pc = "save"
  BY DEF SaveSession, TypeInv, CallsTyped
<1>3. [s \in Request |-> AdmittedFor(s)]' = [s \in Request |-> AdmittedFor(s)]
  BY <1>2, AdmittedSame, ConstantsTyped DEF SaveSession, Ends, Idle, TypeInv
<1>4. UNCHANGED <<rows, now, registered, acts>>
  BY DEF SaveSession
<1>5. CASE session' = session /\ tokens' = tokens
  BY <1>3, <1>4, <1>5, AccountsStutter
<1>6. CASE Stores(r) /\ tokens' \in {tokens, tokens \cup {t}}
  <2>1. Owner(n) = t.by
    BY <1>1, OwnerIs DEF OwnerInv
  <2>2. [m \in User |-> Owner(m)]' = [m \in User |-> Owner(m)]
    BY <1>4 DEF Owner, Taken
  <2>3. LoggedIn' = LoggedIn \cup {n}
    <3>1. \A v \in rows : v.openid \in OpenId
      BY DEF TypeInv, TypeOK, Row
    <3>2. session'[t.openid].until = now + Lifetime
      BY <1>2, <1>6 DEF Stores, TypeInv, TypeOK
    <3>3. now < now + Lifetime
      BY BoundAssumption DEF TypeInv, TypeOK
    <3>4. \A p \in OpenId : Exists(p)' <=> p = t.openid \/ Exists(p)
      BY <1>2, <1>4, <1>6, <3>2, <3>3 DEF Stores, Exists, TypeInv, TypeOK
    <3>5. \A v \in rows : v.openid = t.openid => v = w
      BY <1>1 DEF OwnerInv, RowsUnique
    <3>6. \A m \in User : m \in LoggedIn' <=> m \in LoggedIn \/ m = n
      BY <1>1, <1>4, <3>1, <3>4, <3>5 DEF LoggedIn
    <3>7. LoggedIn \subseteq User /\ LoggedIn' \subseteq User
      BY DEF LoggedIn
    <3>8. QED
      BY <1>2, <3>6, <3>7
  <2>4. Holders' \in {Holders, Holders \cup {[name |-> n, by |-> t.by]}}
    <3>1. CASE tokens' = tokens
      BY <1>4, <3>1 DEF Holders
    <3>2. CASE tokens' = tokens \cup {t}
      <4>1. \A v \in rows : v.openid = t.openid => v.name = n
        BY <1>1 DEF OwnerInv, RowsUnique
      <4>2. \A h \in [name : User, by : Client] :
                h \in Holders' <=> h \in Holders \/ (h.name = n /\ h.by = t.by)
        BY <1>1, <1>4, <3>2, <4>1 DEF Holders
      <4>3. [name |-> n, by |-> t.by] \in [name : User, by : Client]
        BY <1>2
      <4>4. \A h \in [name : User, by : Client] :
                h.name = n /\ h.by = t.by <=> h = [name |-> n, by |-> t.by]
        OBVIOUS
      <4>5. Holders \subseteq [name : User, by : Client] /\ Holders' \subseteq [name : User, by : Client]
        BY DEF Holders
      <4>6. QED
        BY <4>2, <4>3, <4>4, <4>5
    <3>3. QED
      BY <1>6, <3>1, <3>2
  <2>5. Promised!LogIn(n, t.by)
    BY <1>2, <1>3, <1>4, <2>1, <2>2, <2>3, <2>4 DEF Promised!LogIn, Promised!Person
  <2>6. QED
    BY <1>2, <2>5 DEF Promised!Next
<1>7. QED
  BY <1>5, <1>6 DEF SaveSession, HandsOut

(* verify_token in front of a handler *)
LEMMA VerifyAccounts ==
    ASSUME TypeInv, OwnerInv, VerifiesOwnToken, NEW r \in Request, VerifyToken(r)
    PROVE  [Promised!Next]_(Promised!vars)
<1> DEFINE t == call[r].token
           o == t.openid
           n == session[o].name
           grants == [pc |-> "granted", name |-> n, token |-> t]
<1>1. o \in OpenId /\ t.by \in Client /\ call[r].pc = "verify" /\ t \in tokens /\ t \in Token
  BY DEF VerifyToken, TypeInv, TypeOK, Call, CallsTyped, VerifiesOwnToken
<1>2. UNCHANGED <<rows, session, tokens, now, registered, acts>>
  BY DEF VerifyToken, history
<1>3. CASE Ends(r)
  <2>1. [s \in Request |-> AdmittedFor(s)]' = [s \in Request |-> AdmittedFor(s)]
    BY <1>1, <1>3, AdmittedSame, ConstantsTyped DEF Ends, Idle, TypeInv
  <2>2. QED
    BY <1>2, <2>1, AccountsStutter
<1>4. CASE n # None /\ Exists(o) /\ Goes(r, grants)
  <2>1. n \in User /\ grants \in Call
    BY <1>1, <1>4 DEF TypeInv, TypeOK, Session, Call
  <2>2. PICK w \in rows : w.openid = o /\ w.name = n
    <3>1. session[o] # NoSession
      BY <1>4 DEF NoSession
    <3>2. QED
      BY <1>1, <3>1 DEF OwnerInv, SessionsOwned
  <2>3. [name |-> n, by |-> t.by] \in Holders
    BY <1>1, <2>1, <2>2 DEF Holders
  <2>4. n \in LoggedIn
    BY <1>4, <2>1, <2>2 DEF LoggedIn
  <2>5. [s \in Request |-> AdmittedFor(s)]' =
            [[s \in Request |-> AdmittedFor(s)] EXCEPT ![r] = [name |-> n, by |-> t.by]]
    BY <1>4, <2>1, AdmittedChange DEF TypeInv
  <2>6. AdmittedFor(r) = [name |-> None, by |-> None]
    BY <1>1 DEF AdmittedFor
  <2>7. [m \in User |-> Owner(m)]' = [m \in User |-> Owner(m)] /\ Holders' = Holders /\ LoggedIn' = LoggedIn
    BY <1>2 DEF Owner, Taken, Holders, LoggedIn, Exists
  <2>8. Promised!Admit(r, n, t.by)
    BY <1>2, <2>3, <2>4, <2>5, <2>6, <2>7 DEF Promised!Admit, Promised!Person, Promised!Nobody
  <2>9. QED
    BY <1>1, <2>1, <2>8 DEF Promised!Next
<1>5. Ends(r) \/ (n # None /\ Exists(o) /\ Goes(r, grants))
  BY DEF VerifyToken, Decide, Admits, Verified, UnknownError
<1>6. QED
  BY <1>3, <1>4, <1>5

(* A handler that acts for a user, and user_logout *)
LEMMA GrantedAccounts ==
    ASSUME TypeInv, OwnerInv, NEW r \in Request, (\E n \in User : Act(r, n)) \/ Logout(r)
    PROVE  [Promised!Next]_(Promised!vars)
<1> DEFINE m == call[r].name
           t == call[r].token
           person == [name |-> m, by |-> t.by]
<1>1. call[r].pc = "granted" /\ m \in User /\ t.openid \in OpenId /\ t.by \in Client
  BY DEF Act, Logout, TypeInv, TypeOK, CallsTyped
<1>2. PICK w \in rows : w.name = m /\ w.openid = t.openid
  BY <1>1 DEF OwnerInv, CallsOwned, Belongs
<1>3. Ends(r) /\ UNCHANGED <<rows, tokens, now, registered>>
  BY DEF Act, Logout
<1>4. AdmittedFor(r) = person /\ person # [name |-> None, by |-> None]
  <2>1. AdmittedFor(r) = person
    BY <1>1 DEF AdmittedFor
  <2>2. person.name # None
    BY <1>1, NoneAssumption
  <2>3. QED
    BY <2>1, <2>2
<1>5. [s \in Request |-> AdmittedFor(s)]' = [[s \in Request |-> AdmittedFor(s)] EXCEPT ![r] = [name |-> None, by |-> None]]
  BY <1>3, AdmittedChange, ConstantsTyped DEF Ends, Idle, TypeInv
<1>6. [n \in User |-> Owner(n)]' = [n \in User |-> Owner(n)] /\ Holders' = Holders
  BY <1>3 DEF Owner, Taken, Holders
<1>7. ASSUME NEW n \in User, Act(r, n) PROVE Promised!Act(r)
  <2>1. LoggedIn' = LoggedIn
    BY <1>7 DEF Act, LoggedIn, Exists
  <2>2. acts' \in {acts, acts \cup {[for |-> m, by |-> t.by]}}
    BY <1>7 DEF Act
  <2>3. QED
    BY <1>3, <1>4, <1>5, <1>6, <2>1, <2>2 DEF Promised!Act, Promised!Nobody, Promised!Person
<1>8. ASSUME Logout(r) PROVE Promised!LogOut(r)
  <2>1. acts' = acts
    BY <1>8 DEF Logout
  <2>2. CASE session' = session
    <3>1. LoggedIn' = LoggedIn
      BY <1>3, <2>2 DEF LoggedIn, Exists
    <3>2. QED
      BY <1>3, <1>4, <1>5, <1>6, <2>1, <3>1 DEF Promised!LogOut, Promised!Nobody, Promised!Person
  <2>3. CASE Deletes(t.openid)
    <3>1. \A o \in OpenId : Exists(o)' <=> Exists(o) /\ o # t.openid
      BY <1>1, <1>3, <2>3 DEF Deletes, Exists, NoSession, TypeInv, TypeOK
    <3>2. \A v \in rows : v.openid \in OpenId /\ (v.openid = t.openid <=> v.name = m)
      BY <1>2 DEF OwnerInv, RowsUnique, TypeInv, TypeOK, Row
    <3>3. LoggedIn' = LoggedIn \ {m}
      BY <1>3, <3>1, <3>2 DEF LoggedIn
    <3>4. QED
      BY <1>3, <1>4, <1>5, <1>6, <2>1, <3>3 DEF Promised!LogOut, Promised!Nobody, Promised!Person
  <2>4. QED
    BY <1>8, <2>2, <2>3 DEF Logout
<1>9. QED
  BY <1>7, <1>8 DEF Promised!Next

LEMMA AccountsStep ==
    TypeInv /\ OwnerInv /\ OwnerInv' /\ VerifiesOwnToken /\ [Next]_vars => [Promised!Next]_(Promised!vars)
<1> SUFFICES ASSUME TypeInv, OwnerInv, OwnerInv', VerifiesOwnToken, [Next]_vars
             PROVE  [Promised!Next]_(Promised!vars)
  OBVIOUS
<1>1. CASE UNCHANGED vars
  <2>1. [s \in Request |-> AdmittedFor(s)]' = [s \in Request |-> AdmittedFor(s)]
    BY <1>1 DEF vars, AdmittedFor
  <2>2. QED
    BY <1>1, <2>1, AccountsStutter DEF vars, history
<1>2. CASE Tick
  <2>1. \A o \in OpenId : Exists(o)' => Exists(o)
    BY <1>2 DEF Tick, Exists, TypeInv, TypeOK, Session
  <2>2. \A v \in rows : v.openid \in OpenId
    BY DEF TypeInv, TypeOK, Row
  <2>3. LoggedIn' \in SUBSET LoggedIn
    BY <1>2, <2>1, <2>2 DEF Tick, LoggedIn
  <2>4. /\ [n \in User |-> Owner(n)]' = [n \in User |-> Owner(n)] /\ Holders' = Holders
        /\ [s \in Request |-> AdmittedFor(s)]' = [s \in Request |-> AdmittedFor(s)]
    BY <1>2 DEF Tick, Owner, Taken, Holders, AdmittedFor
  <2>5. Promised!Lapse
    BY <1>2, <2>3, <2>4 DEF Tick, history, Promised!Lapse
  <2>6. QED
    BY <2>5 DEF Promised!Next
<1>3. ASSUME NEW r \in Request, NEW to \in Call, Goes(r, to),
             call[r].pc # "granted", to.pc # "granted",
             UNCHANGED <<rows, session, tokens, now, registered, acts>>
      PROVE  UNCHANGED Promised!vars
  <2>1. [s \in Request |-> AdmittedFor(s)]' = [s \in Request |-> AdmittedFor(s)]
    BY <1>3, AdmittedSame DEF TypeInv
  <2>2. QED
    BY <1>3, <2>1, AccountsStutter
<1>4. ASSUME NEW r \in Request, NEW n \in User, NEW c \in Client, CheckUser(r, n, c)
      PROVE  UNCHANGED Promised!vars
  <2>1. [pc |-> "insert", name |-> n, token |-> NoTokenYet(None, c)] \in Call
    BY DEF Call, Token, NoTokenYet
  <2>2. QED
    BY <1>3, <1>4, <2>1 DEF CheckUser, history
<1>5. ASSUME NEW r \in Request, NEW n \in User, NEW c \in Client, FetchUser(r, n, c)
      PROVE  UNCHANGED Promised!vars
  <2>1. PICK w \in rows :
          Goes(r, [pc |-> "session", name |-> n, token |-> NoTokenYet(w.openid, c)])
    BY <1>5 DEF FetchUser
  <2>2. [pc |-> "session", name |-> n, token |-> NoTokenYet(w.openid, c)] \in Call
    BY DEF Call, Token, NoTokenYet, TypeInv, TypeOK, Row
  <2>3. QED
    BY <1>3, <1>5, <2>1, <2>2 DEF FetchUser, history
<1>6. ASSUME NEW r \in Request, ReadSession(r) PROVE UNCHANGED Promised!vars
  <2> DEFINE t == call[r].token
             saves == [pc |-> "save", name |-> call[r].name,
                       token |-> [login |-> logins + 1, openid |-> t.openid, by |-> t.by,
                                  expires |-> now + Lifetime]]
  <2>1. saves \in Call /\ Idle \in Call
    BY <1>6, BoundAssumption, ConstantsTyped
       DEF TypeInv, TypeOK, CallsTyped, Call, Token, ReadSession
  <2>2. Goes(r, Idle) \/ Goes(r, saves)
    BY <1>6 DEF ReadSession, Ends
  <2>3. Idle.pc # "granted" /\ saves.pc # "granted"
    BY DEF Idle
  <2>4. call[r].pc # "granted" /\ UNCHANGED <<rows, session, tokens, now, registered, acts>>
    BY <1>6 DEF ReadSession, history
  <2>5. QED
    BY <1>3, <2>1, <2>2, <2>3, <2>4
<1>7. ASSUME NEW r \in Request, NEW t \in tokens, Authenticate(r, t)
      PROVE  UNCHANGED Promised!vars
  <2>1. [pc |-> "verify", name |-> None, token |-> t] \in Call
    BY DEF Call, TypeInv, TypeOK
  <2>2. QED
    BY <1>3, <1>7, <2>1 DEF Authenticate, history
<1>8. QED
  BY <1>1, <1>2, <1>4, <1>5, <1>6, <1>7, AddUserAccounts, SaveSessionAccounts, VerifyAccounts,
     GrantedAccounts DEF Next, RequestStep

(* The calls of user_register, user_login, user_logout and the gate of the   *)
(* gateway, a step at a time and interleaved, with failures and a clock, are *)
(* what Accounts says: one owner per name, tokens for the owner alone, and a *)
(* gate that opens for holders of a token of a user who is logged in.        *)
THEOREM SessionsImplementAccounts == Spec => ImplementsAccounts
<1>1. Init => Promised!Init
  <2>1. ASSUME Init PROVE \A r \in Request : AdmittedFor(r) = [name |-> None, by |-> None]
    BY <2>1 DEF Init, Idle, AdmittedFor
  <2>2. QED
    BY <2>1 DEF Init, Promised!Init, Promised!Nobody, Promised!Person, Owner, Taken, Holders, LoggedIn
<1>2. Init => VerifiesOwnToken
  BY DEF Init, Idle, VerifiesOwnToken
<1>3. QED
  BY <1>1, <1>2, AccountsStep, VerifiesStep, OwnerInit, OwnerStep, TypeInvHolds, PTL
     DEF Spec, ImplementsAccounts, Promised!Spec
=============================================================================
