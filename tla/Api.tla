-------------------------------- MODULE Api ---------------------------------
(***************************************************************************)
(* A request on its way through app.ts: body parser, limiter, delay,       *)
(* router, guards, handler.  The order of these is what the properties     *)
(* are about; what handlers do to their tables is in the other modules.    *)
(* A step is what runs between two awaits, or one guard.  Credentials      *)
(* lapse (keys are revoked, tokens expire) while requests are held.        *)
(*                                                                         *)
(* Windows are counted, not timed: a delay (30 s at most) is shorter than  *)
(* a window (60 s), so that a window does not end while a request is held  *)
(* that arrived before it began.                                           *)
(***************************************************************************)
EXTENDS Routes, FiniteSets

CONSTANTS
  Request,     \* the requests that may arrive
  Workload,    \* Workload[r]: what request r may be
  Address,
  Credential,  \* tokens and keys
  Admin,       \* those that belong to an administrator
  Nobody,      \* no credential
  MaxRequests, \* the limit of an address per window
  MaxAuth      \* its limit of logins and registrations

ASSUME ApiAssumption ==
  /\ IsFiniteSet(Request)
  /\ Admin \subseteq Credential /\ Nobody \notin Credential
  /\ MaxRequests \in Nat /\ MaxAuth \in Nat
  /\ \A r \in Request : \A q \in Workload[r] :
       /\ q.from \in Address /\ q.cred \in Credential \union {Nobody}
       /\ q.path \notin {<<>>, <<"">>} /\ q.hold \in BOOLEAN

NoRequest == [path |-> <<"">>]
None == "none"

(* What bears the name of a method of the SDK is its request.  Asked well, *)
(* it has an accountId where its parameters can carry one: one method has  *)
(* none that can.                                                          *)
ASSUME SdkAssumption ==
  \A r \in Request : \A q \in Workload[r] : q.name # None =>
    /\ \E m \in SdkMethods : /\ q.name = m.name /\ q.handler = m.handler
                              /\ q.verb = m.verb /\ q.path = m.path
    /\ q.account <=> q.name # "getTransactionByReference"

Bucket == {"ip", "auth"} \X Address

VARIABLES
  pc,      \* idle, held, guards, done
  req,     \* the request
  left,    \* the guards it has not passed yet
  user,    \* req.user: the credential it was authenticated by
  status,  \* the status of its answer, 0 before
  served,  \* the handler that ran for it
  active,  \* the credentials that are valid now
  count,   \* the requests of a bucket in its window
  old,     \* old[r]: r is held and arrived in the window before this one
  lapsed   \* history: r's credential was invalid when r was routed

vars == <<pc, req, left, user, status, served, active, count, old, lapsed>>

Init ==
  /\ pc = [r \in Request |-> "idle"]
  /\ req = [r \in Request |-> NoRequest]
  /\ left = [r \in Request |-> <<>>]
  /\ user = [r \in Request |-> Nobody]
  /\ status = [r \in Request |-> 0]
  /\ served = [r \in Request |-> None]
  /\ active = Credential
  /\ count = [b \in Bucket |-> 0]
  /\ old = [r \in Request |-> FALSE]
  /\ lapsed = [r \in Request |-> FALSE]

(* What errorHandler makes of each objection: an error of the JSON parser  *)
(* is none of the kinds it knows, an upload is too large or not a file.    *)
StatusOf == [huge |-> {413}, garbled |-> {500}, limit |-> {429}, delay |-> {400},
             query |-> {400}, body |-> {422}, file |-> {400, 422}, auth |-> {401},
             admin |-> {403}, path |-> {404}]

IsApi(path) == path[1] \in {"v1", "v2"}
IsLogin(path) == path \in {<<"v1", "auth", "login">>, <<"v1", "auth", "register">>}
Limit(b) == IF b[1] = "ip" THEN MaxRequests ELSE MaxAuth
Full(b) == count[b] >= Limit(b)

(* The buckets a request is counted in: the one that refuses it keeps it   *)
(* from the next.                                                          *)
Meets(q) ==
  LET ip == <<"ip", q.from>>
      auth == <<"auth", q.from>> IN
  IF ~IsApi(q.path) THEN {}
  ELSE IF ~IsLogin(q.path) THEN {ip} ELSE IF Full(auth) THEN {auth} ELSE {auth, ip}

Finish(r, codes) ==
  /\ pc' = [pc EXCEPT ![r] = "done"]
  /\ \E code \in codes : status' = [status EXCEPT ![r] = code]

Refuse(r, objection) == Finish(r, StatusOf[objection])

(* next() out of the delay: the routers take over. *)
Enter(r, q) ==
  /\ pc' = [pc EXCEPT ![r] = "guards"]
  /\ left' = [left EXCEPT ![r] = Resolve(q.verb, q.path).guards]
  /\ lapsed' = [lapsed EXCEPT ![r] = q.cred \notin active]

Unparsed(q) == q.flaw \in {"huge", "garbled"}

(* delayMiddleware: not a number of milliseconds up to 30000. *)
BadDelay(q) == q.flaw = "delay"

(* It calls next(), at once or when its timer fires. *)
Proceed(r, q) ==
  IF q.hold THEN pc' = [pc EXCEPT ![r] = "held"] /\ UNCHANGED <<left, lapsed>>
  ELSE Enter(r, q)

-----------------------------------------------------------------------------
(* Slip: the delay comes before the limiter. *)
ArriveUncounted(r) == \E q \in Workload[r] :
  /\ pc[r] = "idle"
  /\ req' = [req EXCEPT ![r] = q]
  /\ ~Unparsed(q) /\ ~BadDelay(q) /\ Proceed(r, q)
  /\ UNCHANGED <<user, status, served, active, count, old>>

(* From the socket to the first await: parser, limiters, delay header. *)
Arrive(r) == \E q \in Workload[r] :
  LET met == IF Unparsed(q) THEN {} ELSE Meets(q)
      objection == CASE Unparsed(q) -> q.flaw
                     [] \E b \in met : Full(b) -> "limit"
                     [] BadDelay(q) -> "delay"
                     [] OTHER -> None IN
  /\ pc[r] = "idle"
  /\ req' = [req EXCEPT ![r] = q]
  /\ count' = [b \in Bucket |-> IF b \in met THEN count[b] + 1 ELSE count[b]]
  /\ IF objection = None THEN Proceed(r, q) /\ UNCHANGED status
     ELSE Refuse(r, objection) /\ UNCHANGED <<left, lapsed>>
  /\ UNCHANGED <<user, served, active, old>>

(* Slip: the delay comes behind the authentication. *)
ReleaseAuthenticated(r) ==
  /\ pc[r] = "held"
  /\ pc' = [pc EXCEPT ![r] = "guards"]
  /\ left' = [left EXCEPT ![r] = SelectSeq(Resolve(req[r].verb, req[r].path).guards, LAMBDA g : g # "auth")]
  /\ lapsed' = [lapsed EXCEPT ![r] = req[r].cred \notin active]
  /\ user' = [user EXCEPT ![r] = req[r].cred]
  /\ old' = [old EXCEPT ![r] = FALSE]
  /\ UNCHANGED <<req, status, served, active, count>>

(* The timer of the delay fires. *)
Release(r) ==
  /\ pc[r] = "held"
  /\ Enter(r, req[r])
  /\ old' = [old EXCEPT ![r] = FALSE]
  /\ UNCHANGED <<req, user, status, served, active, count>>

AtGuard(r, guards) == pc[r] = "guards" /\ left[r] # <<>> /\ Head(left[r]) \in guards

Pass(r) ==
  /\ left' = [left EXCEPT ![r] = Tail(@)]
  /\ UNCHANGED <<pc, status>>

(* authMiddleware: a failing query refuses as well. *)
Authenticate(r) ==
  /\ AtGuard(r, {"auth"})
  /\ \/ /\ req[r].cred \in active
        /\ user' = [user EXCEPT ![r] = req[r].cred]
        /\ Pass(r)
     \/ /\ Refuse(r, "auth")
        /\ UNCHANGED <<left, user>>
  /\ UNCHANGED <<req, served, active, count, old, lapsed>>

(* roleGuard('admin'). *)
CheckRole(r) ==
  /\ AtGuard(r, {"admin"})
  /\ IF user[r] \in Admin THEN Pass(r) ELSE Refuse(r, "admin") /\ UNCHANGED left
  /\ UNCHANGED <<req, user, served, active, count, old, lapsed>>

Check(r, guard) ==
  /\ AtGuard(r, {guard})
  /\ IF req[r].flaw # guard THEN Pass(r) ELSE Refuse(r, guard) /\ UNCHANGED left
  /\ UNCHANGED <<req, user, served, active, count, old, lapsed>>

(* validate(schema), paginationMiddleware(config), and multer in front of  *)
(* uploadFile.                                                             *)
ValidateBody(r) == Check(r, "body")
Paginate(r) == Check(r, "query")
Upload(r) == Check(r, "file")

(* What a handler answers by itself, before it asks its service; 200       *)
(* stands for whatever the service makes of the request.                   *)
Outcome(q, handler) ==
  CASE handler \in {"listTransactions", "getTransactionByReference"} /\ ~q.account -> {400}
    [] handler \in {"bulkCreate", "bulkUpdate", "bulkDelete"} /\ q.flaw = "body" -> {400, 422}
    [] handler = "getStatement" /\ q.flaw = "query" -> {400}
    [] handler = "errorByCode" -> {400, 401, 403, 404, 409, 422, 500}
    [] OTHER -> {200}

Handle(r) ==
  LET handler == Resolve(req[r].verb, req[r].path).handler IN
  /\ pc[r] = "guards" /\ left[r] = <<>>
  /\ IF handler = NotFound THEN Refuse(r, "path") /\ UNCHANGED served
     ELSE /\ served' = [served EXCEPT ![r] = handler]
          /\ Finish(r, Outcome(req[r], handler))
  /\ UNCHANGED <<req, left, user, active, count, old, lapsed>>

(* A key is revoked, a token expires. *)
Lapse(c) ==
  /\ c \in active
  /\ active' = active \ {c}
  /\ UNCHANGED <<pc, req, left, user, status, served, count, old, lapsed>>

From(a) == {r \in Request : pc[r] = "held" /\ req[r].from = a /\ IsApi(req[r].path)}

NewWindow(b) ==
  /\ count[b] > 0
  /\ b[1] = "ip" => \A r \in From(b[2]) : ~old[r]
  /\ count' = [count EXCEPT ![b] = 0]
  /\ old' = [r \in Request |-> old[r] \/ (b[1] = "ip" /\ r \in From(b[2]))]
  /\ UNCHANGED <<pc, req, left, user, status, served, active, lapsed>>

Next ==
  \/ \E r \in Request : Arrive(r) \/ Release(r) \/ Authenticate(r) \/ CheckRole(r)
                        \/ ValidateBody(r) \/ Paginate(r) \/ Upload(r) \/ Handle(r)
  \/ \E c \in Credential : Lapse(c)
  \/ \E b \in Bucket : NewWindow(b)

Spec == Init /\ [][Next]_vars

-----------------------------------------------------------------------------
(* The type invariant. *)
TypeOK ==
  /\ pc \in [Request -> {"idle", "held", "guards", "done"}]
  /\ \A r \in Request : req[r] \in Workload[r] \union {NoRequest}
  /\ user \in [Request -> Credential \union {Nobody}]
  /\ \A r \in Request : pc[r] # "idle" <=> req[r] # NoRequest
  /\ \A r \in Request : pc[r] = "done" <=> status[r] # 0
  /\ active \subseteq Credential
  /\ count \in [Bucket -> Nat]
  /\ old \in [Request -> BOOLEAN] /\ lapsed \in [Request -> BOOLEAN]

(* The guards, registered router by router and route by route, leave no    *)
(* handler open: bulk deletion, the list of users and the reset run for    *)
(* administrators only, and but for a public handler none runs for a       *)
(* request that was not authenticated.                                     *)
Public == {"register", "login", "refreshToken", "slow", "errorByCode", "health"}
ForAdmins == {"bulkDelete", "listUsers", "reset"}

AccessFollowsRole ==
  \A r \in Request : served[r] # None =>
    /\ served[r] \in ForAdmins => user[r] \in Admin
    /\ served[r] \notin Public => user[r] = req[r].cred /\ user[r] # Nobody

(* Every method of the SDK ends, if its arguments are good, in the handler *)
(* it is meant for, on its verb and path, and is turned away only by the   *)
(* limiter or for its credential.  One cannot: the handler behind          *)
(* getTransactionByReference wants an accountId the method has no          *)
(* parameter for.                                                          *)
SdkReachesItsHandler ==
  \A r \in Request : pc[r] = "done" /\ req[r].name # None /\ req[r].flaw = "none" =>
    IF served[r] # None
    THEN /\ served[r] = req[r].handler
         /\ req[r].name # "testError" =>
              (status[r] = 400 <=> req[r].name = "getTransactionByReference")
    ELSE \/ status[r] \in {401, 429}
         \/ status[r] = 403 /\ req[r].cred \notin Admin

(* A request held by the delay is judged by its credentials when it is     *)
(* let go, not as they were when it came: no handler behind authMiddleware *)
(* runs for a key revoked, or a token expired, in the meantime.            *)
CheckedWhenServed ==
  \A r \in Request : served[r] \notin Public \union {None} => ~lapsed[r]

(* The limiter bounds the requests an address can have waiting in the      *)
(* delay: those of two windows.  (Paths outside /api/v1 and /api/v2 are    *)
(* delayed too and have no such bound.)                                    *)
HeldIsBounded == \A a \in Address : Cardinality(From(a)) <= 2 * MaxRequests
=============================================================================
