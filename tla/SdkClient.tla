----------------------------- MODULE SdkClient -----------------------------
(***************************************************************************)
(* The SDK's ApiClient (sdk/src/client.ts) against the sessions of the     *)
(* server: the calls an application has in flight on one client object     *)
(* share its token pair and its isRefreshing flag.                         *)
(*                                                                         *)
(* A call goes through up to four HTTP exchanges, each a call of Sessions: *)
(* the login it may begin with, the request, the refresh after a 401, and  *)
(* the retry.  A client step is what runs between two awaits.              *)
(***************************************************************************)
EXTENDS Sessions

CONSTANTS
  Task,           \* the calls the application makes on the client, each once
  Wishes,         \* what they may ask: records [kind, with]
  Credentials,    \* the login request of the client's configuration,
  NoCredentials   \* or none

Legs == {"login", "send", "refresh", "retry"}
Logins == {o \in Workload : o.kind = "login"}

ASSUME SdkAssumption ==
  /\ Task \X Legs \subseteq Call
  /\ Credentials \in Logins \union {NoCredentials}
  /\ \A w \in Wishes : /\ w.kind \in {"call", "raw", "login", "refresh"}
                       /\ w.kind = "login" => w.with \in Logins

VARIABLES
  asked,       \* asked[t]: what call t asks, NoWish before
  step,        \* step[t]: the exchange whose answer it waits for
  pair,        \* accessToken and refreshToken
  refreshing,  \* isRefreshing
  result       \* result[t]: what the call resolved to or threw

client == <<asked, step, pair, refreshing, result>>
vars == <<server, client>>

NoWish == [kind |-> "none"]

(* The client starts without tokens, or with those of an earlier call.     *)
Init ==
  /\ SessionsInit
  /\ asked = [t \in Task |-> NoWish]
  /\ step = [t \in Task |-> "idle"]
  /\ pair \in Issued \union {NoToken}
  /\ refreshing = FALSE
  /\ result = [t \in Task |-> "none"]

-----------------------------------------------------------------------------
(* makeHttpRequest: the headers are read when the request is sent.         *)
Exchange(t, leg, o) ==
  /\ Receive(<<t, leg>>, o)
  /\ step' = [step EXCEPT ![t] = leg]
  /\ UNCHANGED result

Settle(t, status) ==
  /\ result' = [result EXCEPT ![t] = status]
  /\ step' = [step EXCEPT ![t] = "done"]
  /\ UNCHANGED server

Request(p) == [kind |-> "use", token |-> p]
Refresh(p) == [kind |-> "refresh", token |-> p]

(* request and requestRaw begin with ensureAuthenticated; login and        *)
(* refresh can also be called by the application.                          *)
Begin(t) ==
  /\ step[t] = "idle"
  /\ \E w \in Wishes :
       /\ asked' = [asked EXCEPT ![t] = w]
       /\ \/ w.kind = "login" /\ Exchange(t, "login", w.with)
          \/ w.kind = "refresh" /\ Exchange(t, "refresh", Refresh(pair))
          \/ /\ w.kind \in {"call", "raw"}
             /\ IF pair = NoToken /\ Credentials # NoCredentials
                THEN Exchange(t, "login", Credentials)
                ELSE Exchange(t, "send", Request(pair))
  /\ UNCHANGED <<pair, refreshing>>

Status(t) == code[<<t, step[t]>>]
Arrived(t, leg) == step[t] = leg /\ Status(t) \notin {"none", "lost"}
Granted(t) == granted[<<t, step[t]>>]

OnLogin(t) ==
  /\ Arrived(t, "login")
  /\ \/ Status(t) # "ok" /\ Settle(t, Status(t)) /\ UNCHANGED pair
     \/ /\ Status(t) = "ok" /\ pair' = Granted(t)
        /\ IF asked[t].kind = "login" THEN Settle(t, "ok")
                                      ELSE Exchange(t, "send", Request(Granted(t)))
  /\ UNCHANGED <<asked, refreshing>>

(* A 401 is followed by a refresh, unless one is under way, for request;   *)
(* requestRaw and requestMultipart pass it on.                             *)
Refreshes(t) ==
  Status(t) = "401" /\ asked[t].kind = "call" /\ ~refreshing /\ pair # NoToken

OnAnswer(t) ==
  /\ Arrived(t, "send")
  /\ \/ Refreshes(t) /\ refreshing' = TRUE /\ Exchange(t, "refresh", Refresh(pair))
     \/ ~Refreshes(t) /\ Settle(t, Status(t)) /\ UNCHANGED refreshing
  /\ UNCHANGED <<asked, pair>>

(* The refreshes made by handleTokenRefresh, which retries.                *)
Renewing(t) == asked[t].kind = "call" /\ step[t] \in {"refresh", "retry"}

(* Slip: the new pair is used for the retry and not kept. *)
OnRefreshForgetting(t) ==
  /\ Arrived(t, "refresh")
  /\ \/ /\ Status(t) = "ok" /\ Renewing(t) /\ UNCHANGED <<pair, refreshing>>
        /\ Exchange(t, "retry", Request(Granted(t)))
     \/ /\ Status(t) = "ok" /\ ~Renewing(t) /\ pair' = Granted(t)
        /\ Settle(t, "ok") /\ UNCHANGED refreshing
     \/ /\ Status(t) # "ok" /\ Settle(t, Status(t)) /\ UNCHANGED pair
        /\ refreshing' = (refreshing /\ ~Renewing(t))
  /\ UNCHANGED asked

(* Slip: a refresh that is refused leaves the flag set. *)
OnRefreshStuck(t) ==
  /\ Arrived(t, "refresh") /\ UNCHANGED refreshing
  /\ \/ /\ Status(t) = "ok" /\ pair' = Granted(t)
        /\ IF Renewing(t) THEN Exchange(t, "retry", Request(Granted(t))) ELSE Settle(t, "ok")
     \/ Status(t) # "ok" /\ Settle(t, Status(t)) /\ UNCHANGED pair
  /\ UNCHANGED asked

OnRefresh(t) ==
  /\ Arrived(t, "refresh")
  /\ \/ /\ Status(t) = "ok" /\ pair' = Granted(t) /\ UNCHANGED refreshing
        /\ IF Renewing(t) THEN Exchange(t, "retry", Request(Granted(t))) ELSE Settle(t, "ok")
     \/ /\ Status(t) # "ok" /\ Settle(t, Status(t)) /\ UNCHANGED pair
        /\ refreshing' = (refreshing /\ ~Renewing(t))
  /\ UNCHANGED asked

OnRetry(t) ==
  /\ Arrived(t, "retry")
  /\ Settle(t, Status(t))
  /\ refreshing' = FALSE
  /\ UNCHANGED <<asked, pair>>

(* Slip: a request that timed out is sent once more. *)
GiveUpRetrying(t) ==
  /\ step[t] \in Legs
  /\ IF step[t] = "send" THEN Exchange(t, "retry", Request(pair)) ELSE Settle(t, "timeout")
  /\ refreshing' = (refreshing /\ ~Renewing(t))
  /\ UNCHANGED <<asked, pair>>

(* Slip: the timeout is thought to undo the request at the server. *)
GiveUpCancelling(t) ==
  /\ step[t] \in Legs
  /\ result' = [result EXCEPT ![t] = "timeout"]
  /\ step' = [step EXCEPT ![t] = "done"]
  /\ pc' = [pc EXCEPT ![<<t, step[t]>>] = "done"]
  /\ refreshing' = (refreshing /\ ~Renewing(t))
  /\ UNCHANGED <<asked, pair, op, code, granted, password, token, owner, fresh, stale, crashes>>

(* The timer of the exchange goes off, or its connection breaks: the       *)
(* server, if it lives, carries on.                                        *)
GiveUp(t) ==
  /\ step[t] \in Legs
  /\ Settle(t, "timeout")
  /\ refreshing' = (refreshing /\ ~Renewing(t))
  /\ UNCHANGED <<asked, pair>>

-----------------------------------------------------------------------------
React(t) == OnLogin(t) \/ OnAnswer(t) \/ OnRefresh(t) \/ OnRetry(t) \/ GiveUp(t)

Serve ==
  /\ \/ \E c \in Call : Handle(c) \/ QueryFails(c)
     \/ Time \/ Crash
  /\ UNCHANGED client

Next == Serve \/ \E t \in Task : Begin(t) \/ React(t)

Spec == Init /\ [][Next]_vars

-----------------------------------------------------------------------------
(* The type of the client's state, and of the server's under it.           *)
TypeOK ==
  /\ asked \in [Task -> Wishes \union {NoWish}]
  /\ step \in [Task -> Legs \union {"idle", "done"}]
  /\ pair \in Token \union {NoToken}
  /\ refreshing \in BOOLEAN
  /\ result \in [Task -> {"none", "ok", "401", "422", "500", "timeout"}]
  /\ SessionsTypeOK

(* isRefreshing is set exactly while a call is between its 401 and the end *)
(* of its retry, and only one call ever is: the flag is tested and set in  *)
(* different functions, and reset on every way out.                        *)
OneRefreshAtATime ==
  /\ refreshing <=> \E t \in Task : Renewing(t)
  /\ \A t, u \in Task : Renewing(t) /\ Renewing(u) => t = u

(* A call is carried out by the server once at most, and once if it        *)
(* succeeds, whatever was refreshed, lost or late: no deposit made through *)
(* the client is made twice.                                               *)
CarriedOut(t) == {leg \in {"send", "retry"} : code[<<t, leg>>] = "ok"}
CarriedOutOnce ==
  \A t \in Task :
    /\ Cardinality(CarriedOut(t)) <= 1
    /\ result[t] = "ok" /\ asked[t].kind \in {"call", "raw"} => CarriedOut(t) # {}

(* The client does not lose its session by its own doing: if the refresh   *)
(* token it holds has been rotated, the answer with the next one is under  *)
(* way, or an exchange of it failed or was given up.                       *)
Exchanges(c) == op[c].kind = "refresh" /\ op[c].token = pair
NotStranded ==
  pair # NoToken /\ token[pair] = "revoked" =>
    \E c \in Task \X Legs :
                    /\ Exchanges(c)
                    /\ \/ step[c[1]] = c[2]
                       \/ code[c] \in {"500", "lost"} \/ result[c[1]] = "timeout"
=============================================================================
