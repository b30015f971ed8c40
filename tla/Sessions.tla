------------------------------ MODULE Sessions ------------------------------
(***************************************************************************)
(* Users and their sessions: register, login and refreshToken of           *)
(* auth.service.ts, and the JWT branch of middleware/auth.ts.  Calls       *)
(* interleave at every query and at every bcrypt computation.              *)
(*                                                                         *)
(* A token pair is one token: token[t] is the row of its refresh token and *)
(* t \in fresh tells that its access token has not expired.  Access tokens *)
(* are verified without the database and cannot be revoked.                *)
(***************************************************************************)
EXTENDS Integers, FiniteSets

CONSTANTS
  Call,       \* the calls the server receives, each once
  Address,    \* e-mail addresses as people type them
  User,       \* the lower-case addresses, which identify users
  Lower,      \* Lower[a]: address a in lower case
  Password,
  Hash,       \* Hash[w]: the hash bcrypt makes of w, which is that of its
              \* first 72 bytes; a password that has it stands for it
  Token,      \* the token pairs handed out and those that will be
  Enrolled,   \* the users that exist at the start
  First,      \* First[u]: the password of u \in Enrolled
  Issued,     \* the token pairs handed out before the start
  IssuedTo,   \* IssuedTo[t]: the user t \in Issued was handed to
  Workload,   \* the registrations and logins clients may send
  MaxCrashes  \* bound: how many times the server process may die

(* No user, no token pair, no password yet. *)
CONSTANTS Nobody, NoToken, NoPassword

ASSUME SessionsAssumption ==
  /\ Lower \in [Address -> User] /\ Nobody \notin User /\ NoToken \notin Token
  /\ Enrolled \subseteq User /\ First \in [User -> Password] /\ NoPassword \notin Password
  /\ Hash \in [Password -> Password]
  /\ Issued \subseteq Token /\ IssuedTo \in [Token -> Enrolled]
  /\ Workload \subseteq [kind : {"register", "login"}, address : Address,
                         password : Password, token : {NoToken}]
  /\ MaxCrashes \in Nat

VARIABLES
  op,        \* op[c]: what call c asks
  pc,        \* pc[c]: where its handler is
  code,      \* code[c]: the status of the answer
  granted,   \* granted[c]: the token pair in the answer
  password,  \* password[u]: the hash in the users table, NoPassword without a row
  token,     \* token[t]: "unused", "active", "revoked" or "expired"
  owner,     \* owner[t]: the user t was handed to
  fresh,     \* the token pairs whose access token has not expired
  stale,     \* history: the refreshes sent after an answered refresh of
             \* the same token
  crashes    \* how many times the process has died

answers == <<code, granted>>
tokens == <<token, owner, fresh>>
server == <<op, pc, code, granted, password, token, owner, fresh, stale, crashes>>

Handling == {"findUser", "insertUser", "findToken", "revoke", "issue", "verify"}
NoCall == [kind |-> "none", token |-> NoToken]

SessionsInit ==
  /\ op = [c \in Call |-> NoCall]
  /\ pc = [c \in Call |-> "idle"]
  /\ code = [c \in Call |-> "none"]
  /\ granted = [c \in Call |-> NoToken]
  /\ password = [u \in User |-> IF u \in Enrolled THEN Hash[First[u]] ELSE NoPassword]
  /\ token = [t \in Token |-> IF t \in Issued THEN "active" ELSE "unused"]
  /\ owner = [t \in Token |-> IF t \in Issued THEN IssuedTo[t] ELSE Nobody]
  /\ fresh = Issued
  /\ stale = {}
  /\ crashes = 0

-----------------------------------------------------------------------------
Goto(c, label) == pc' = [pc EXCEPT ![c] = label]
Respond(c, status) ==
  /\ code' = [code EXCEPT ![c] = status]
  /\ Goto(c, "done")

(* The token pairs some client holds, and the refresh tokens whose holder  *)
(* has been handed another in exchange.                                    *)
Held == Issued \union ({granted[c] : c \in Call} \ {NoToken})
KnownRotated ==
  {op[d].token : d \in {d \in Call : op[d].kind = "refresh" /\ code[d] = "ok"}}

(* A refresh or an authenticated request presents a token pair somebody    *)
(* was handed, or none.                                                    *)
Presenting == [kind : {"refresh", "use"}, token : Held \union {NoToken}]

Entry(o) ==
  IF o.kind = "refresh" THEN "findToken" ELSE IF o.kind = "use" THEN "verify" ELSE "findUser"

Receive(c, o) ==
  /\ pc[c] = "idle"
  /\ op' = [op EXCEPT ![c] = o]
  /\ Goto(c, Entry(o))
  /\ stale' = IF o.kind = "refresh" /\ o.token \in KnownRotated THEN stale \union {c} ELSE stale
  /\ UNCHANGED <<answers, password, tokens, crashes>>

-----------------------------------------------------------------------------
(* register and login look the user up; login compares the hashes.         *)
Subject(c) == Lower[op[c].address]

FindUser(c) ==
  LET known == password[Subject(c)] # NoPassword
      right == password[Subject(c)] = Hash[op[c].password] IN
  /\ pc[c] = "findUser"
  /\ \/ op[c].kind = "register" /\ known /\ Respond(c, "409")
     \/ op[c].kind = "register" /\ ~known /\ Goto(c, "insertUser") /\ UNCHANGED code
     \/ op[c].kind = "login" /\ ~right /\ Respond(c, "401")
     \/ op[c].kind = "login" /\ right /\ Goto(c, "issue") /\ UNCHANGED code
  /\ UNCHANGED <<op, granted, password, tokens, stale, crashes>>

(* Slip: no unique index on the address. *)
InsertUserAnyway(c) ==
  /\ pc[c] = "insertUser"
  /\ password' = [password EXCEPT ![Subject(c)] = Hash[op[c].password]]
  /\ Respond(c, "ok")
  /\ UNCHANGED <<op, granted, tokens, stale, crashes>>

(* The INSERT, after the password is hashed; the unique index refuses a    *)
(* second row (P2002).                                                     *)
InsertUser(c) ==
  /\ pc[c] = "insertUser"
  /\ \/ password[Subject(c)] # NoPassword /\ Respond(c, "409") /\ UNCHANGED password
     \/ /\ password[Subject(c)] = NoPassword
        /\ password' = [password EXCEPT ![Subject(c)] = Hash[op[c].password]]
        /\ Respond(c, "ok")
  /\ UNCHANGED <<op, granted, tokens, stale, crashes>>

-----------------------------------------------------------------------------
(* refreshToken: find the row, revoke it, issue another. *)

(* Slip: the row is found whether it is revoked or not. *)
FindTokenRevokedOrNot(c) ==
  /\ pc[c] = "findToken"
  /\ \/ op[c].token \notin Token /\ Respond(c, "401")
     \/ op[c].token \in Token /\ Goto(c, "revoke") /\ UNCHANGED code
  /\ UNCHANGED <<op, granted, password, tokens, stale, crashes>>

(* An empty token is refused by the validator (422), an unknown, revoked   *)
(* or expired one by the query.                                            *)
FindToken(c) ==
  LET t == op[c].token IN
  /\ pc[c] = "findToken"
  /\ \/ t = NoToken /\ Respond(c, "422")
     \/ t \in Token /\ token[t] # "active" /\ Respond(c, "401")
     \/ t \in Token /\ token[t] = "active" /\ Goto(c, "revoke") /\ UNCHANGED code
  /\ UNCHANGED <<op, granted, password, tokens, stale, crashes>>

(* Slip: every session of the user is revoked. *)
RevokeAll(c) ==
  /\ pc[c] = "revoke"
  /\ token' = [t \in Token |-> IF owner[t] = owner[op[c].token] THEN "revoked" ELSE token[t]]
  /\ Goto(c, "issue")
  /\ UNCHANGED <<op, answers, password, owner, fresh, stale, crashes>>

Revoke(c) ==
  /\ pc[c] = "revoke"
  /\ token' = [token EXCEPT ![op[c].token] = "revoked"]
  /\ Goto(c, "issue")
  /\ UNCHANGED <<op, answers, password, owner, fresh, stale, crashes>>

(* Slip: a refresh stores the token it was sent once more. *)
IssueTheSame(c) ==
  /\ pc[c] = "issue"
  /\ \E t \in Token :
       /\ IF op[c].kind = "refresh" THEN t = op[c].token ELSE token[t] = "unused"
       /\ token' = [token EXCEPT ![t] = "active"]
       /\ owner' = [owner EXCEPT ![t] =
                      IF op[c].kind = "login" THEN Subject(c) ELSE owner[op[c].token]]
       /\ fresh' = fresh \union {t}
       /\ granted' = [granted EXCEPT ![c] = t]
  /\ Respond(c, "ok")
  /\ UNCHANGED <<op, password, stale, crashes>>

(* issueTokenPair: a random refresh token, none that was handed out. *)
Issue(c) ==
  /\ pc[c] = "issue"
  /\ \E t \in Token :
       /\ token[t] = "unused"
       /\ token' = [token EXCEPT ![t] = "active"]
       /\ owner' = [owner EXCEPT ![t] =
                      IF op[c].kind = "login" THEN Subject(c) ELSE owner[op[c].token]]
       /\ fresh' = fresh \union {t}
       /\ granted' = [granted EXCEPT ![c] = t]
  /\ Respond(c, "ok")
  /\ UNCHANGED <<op, password, stale, crashes>>

(* The JWT branch of the middleware, in front of any other handler. *)
Verify(c) ==
  /\ pc[c] = "verify"
  /\ Respond(c, IF op[c].token \in fresh THEN "ok" ELSE "401")
  /\ UNCHANGED <<op, granted, password, tokens, stale, crashes>>

-----------------------------------------------------------------------------
(* A failing query is answered 401 by the middleware, 500 by a handler.    *)
QueryFails(c) ==
  /\ pc[c] \in Handling
  /\ Respond(c, IF pc[c] = "verify" THEN "401" ELSE "500")
  /\ UNCHANGED <<op, granted, password, tokens, stale, crashes>>

(* The process dies between two queries of any number of handlers. *)
Crash ==
  /\ crashes < MaxCrashes
  /\ crashes' = crashes + 1
  /\ pc' = [c \in Call |-> IF pc[c] \in Handling THEN "done" ELSE pc[c]]
  /\ code' = [c \in Call |-> IF pc[c] \in Handling THEN "lost" ELSE code[c]]
  /\ UNCHANGED <<op, granted, password, tokens, stale>>

(* Fifteen minutes, and then seven days, after a pair was handed out. *)
AccessExpires(t) ==
  /\ t \in fresh
  /\ fresh' = fresh \ {t}
  /\ UNCHANGED <<op, pc, answers, password, token, owner, stale, crashes>>

RefreshExpires(t) ==
  /\ token[t] = "active" /\ t \notin fresh
  /\ token' = [token EXCEPT ![t] = "expired"]
  /\ UNCHANGED <<op, pc, answers, password, owner, fresh, stale, crashes>>

-----------------------------------------------------------------------------
Handle(c) ==
  FindUser(c) \/ InsertUser(c) \/ FindToken(c) \/ Revoke(c) \/ Issue(c) \/ Verify(c)
Time == \E t \in Token : AccessExpires(t) \/ RefreshExpires(t)

SessionsNext ==
  \/ \E c \in Call :
       \/ \E o \in Workload \union Presenting : Receive(c, o)
       \/ Handle(c) \/ QueryFails(c)
  \/ Time \/ Crash

SessionsSpec == SessionsInit /\ [][SessionsNext]_server

-----------------------------------------------------------------------------
(* The type of the state.                                                  *)
SessionsTypeOK ==
  /\ op \in [Call -> Workload \union [kind : {"refresh", "use"}, token : Token \union {NoToken}]
                     \union {NoCall}]
  /\ pc \in [Call -> Handling \union {"idle", "done"}]
  /\ code \in [Call -> {"none", "ok", "401", "409", "422", "500", "lost"}]
  /\ granted \in [Call -> Token \union {NoToken}]
  /\ password \in [User -> Password \union {NoPassword}]
  /\ token \in [Token -> {"unused", "active", "revoked", "expired"}]
  /\ owner \in [Token -> User \union {Nobody}]
  /\ fresh \subseteq Token /\ stale \subseteq Call
  /\ crashes \in 0..MaxCrashes

(* Of the registrations of an address, in whatever case it is typed, one   *)
(* at most succeeds, and nobody logs in with a password that does not have *)
(* that one's hash (the check and the INSERT of register are two steps,    *)
(* with a bcrypt computation between them, and a login may overlap both).  *)
(* Another password with its hash does log in: registerSchema admits 128   *)
(* characters, of which bcrypt reads the first 72 bytes.                   *)
OneRegistrationWins ==
  \A c \in Call : op[c].kind = "register" /\ code[c] = "ok" =>
    \A d \in Call : op[d].kind \in {"register", "login"} /\ Subject(d) = Subject(c) =>
      /\ op[d].kind = "register" /\ code[d] = "ok" => d = c
      /\ op[d].kind = "login" /\ code[d] = "ok" => Hash[op[d].password] = Hash[op[c].password]

(* "After a successful token refresh, the original refresh token SHALL be  *)
(* invalidated (subsequent use returns 401)": a call sent after the        *)
(* refresh was answered is refused, however the two interleave with        *)
(* others.                                                                 *)
RotatedTokenRefused == \A c \in stale : code[c] \in {"none", "401", "500", "lost"}

(* A session stays with the user who logged in, through any number of      *)
(* refreshes, and no token pair is handed out twice.                       *)
SessionsStayPut ==
  \A c \in Call : granted[c] # NoToken =>
    /\ owner[granted[c]] = IF op[c].kind = "login" THEN Subject(c) ELSE owner[op[c].token]
    /\ granted[c] \notin Issued
    /\ \A d \in Call : granted[d] = granted[c] => d = c

(* A session only ends behind its user's back when an exchange of its      *)
(* refresh token failed half way: a revoked token has been exchanged for   *)
(* another, is being so, or the client was given an error or no answer.    *)
NoSessionLostQuietly ==
  \A t \in Token : token[t] = "revoked" =>
    \E c \in Call : /\ op[c].kind = "refresh" /\ op[c].token = t
                    /\ pc[c] = "issue" \/ granted[c] # NoToken \/ code[c] \in {"500", "lost"}
=============================================================================
