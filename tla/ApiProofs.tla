----------------------------- MODULE ApiProofs ------------------------------
(***************************************************************************)
(* Theorems about Api, for every set of requests, workload, address and    *)
(* credential and all limits: who gets through the guards, and where the   *)
(* methods of the SDK end.                                                 *)
(***************************************************************************)
EXTENDS Api, TLAPS, WellFoundedInduction, FiniteSetTheorems, SequenceTheorems

Has(guards, g) == \E i \in 1..Len(guards) : guards[i] = g

(* What every registered route owes: a handler that is not public stands   *)
(* behind authMiddleware, one for administrators behind the role guard.    *)
Guarded(guards, handler) ==
  /\ handler \in Public \union {NotFound} \/ Has(guards, "auth")
  /\ handler \in ForAdmins => Has(guards, "admin")

LEMMA NatMinimum ==
  ASSUME NEW S, S \subseteq Nat, S # {}
  PROVE  \E m \in S : \A n \in S : m <= n
  <1>1. PICK m \in S : \A n \in S : ~(<<n, m>> \in OpToRel(<, Nat))
    BY NatLessThanWellFounded, WFMin
  <1>2. \A n \in S : ~(n < m)
    BY <1>1 DEF OpToRel
  <1> QED BY <1>2

LEMMA FirstFacts ==
  ASSUME NEW S, S \subseteq Nat
  PROVE  First(S) = 0 \/ First(S) \in S
  BY NatMinimum DEF First

(* What the tables of routes/ put in front of a handler.                   *)
Guard == {"auth", "admin", "body", "query", "file"}
Guards == {<<>>, <<"auth">>, <<"admin">>, <<"auth", "admin">>, <<"body">>, <<"query">>,
           <<"file">>, <<"auth", "query">>}

LEMMA GuardsFacts ==
  /\ Guards \subseteq Seq(Guard)
  /\ Has(<<"auth">>, "auth") /\ Has(<<"admin">>, "admin")
  /\ Has(<<"auth", "admin">>, "auth") /\ Has(<<"auth", "admin">>, "admin")
  /\ Has(<<"auth", "query">>, "auth")
  <1>1. Guards \subseteq Seq(Guard)
    BY DEF Guards, Guard
  <1>2. /\ 1 \in 1..Len(<<"auth">>) /\ <<"auth">>[1] = "auth"
        /\ 1 \in 1..Len(<<"admin">>) /\ <<"admin">>[1] = "admin"
        /\ 1 \in 1..Len(<<"auth", "admin">>) /\ <<"auth", "admin">>[1] = "auth"
        /\ 2 \in 1..Len(<<"auth", "admin">>) /\ <<"auth", "admin">>[2] = "admin"
        /\ 1 \in 1..Len(<<"auth", "query">>) /\ <<"auth", "query">>[1] = "auth"
    OBVIOUS
  <1> QED BY <1>1, <1>2 DEF Has

LEMMA ConcatHas ==
  ASSUME NEW s \in Seq(Guard), NEW t \in Seq(Guard), NEW g, Has(s, g) \/ Has(t, g)
  PROVE  Has(s \o t, g)
  <1>1. CASE Has(s, g)
    BY <1>1 DEF Has
  <1>2. CASE Has(t, g)
    <2>1. PICK i \in 1..Len(t) : t[i] = g
      BY <1>2 DEF Has
    <2>2. Len(s) + i \in 1..Len(s \o t) /\ (s \o t)[Len(s) + i] = g
      BY <2>1
    <2> QED BY <2>2 DEF Has
  <1> QED BY <1>1, <1>2

(* A router whose routes, together with the guards in front of them all,   *)
(* owe their handlers nothing.                                             *)
SafeRouter(router) ==
  /\ router.use \in Seq(Guard)
  /\ \A i \in 1..Len(router.routes) :
       /\ router.routes[i].guards \in Seq(Guard)
       /\ Guarded(router.use \o router.routes[i].guards, router.routes[i].handler)

(* Behind authMiddleware what is left to a route is the role.              *)
LEMMA BehindAuth ==
  ASSUME NEW mount, NEW routes,
         \A i \in 1..Len(routes) :
           /\ routes[i].guards \in Guards
           /\ routes[i].handler \in ForAdmins => routes[i].guards = <<"admin">>
  PROVE  SafeRouter(Router(mount, <<"auth">>, routes))
  <1>1. <<"auth">> \in Seq(Guard)
    BY DEF Guard
  <1>2. ASSUME NEW i \in 1..Len(routes)
        PROVE  Guarded(<<"auth">> \o routes[i].guards, routes[i].handler)
    <2>1. routes[i].guards \in Seq(Guard)
      BY GuardsFacts
    <2>2. Has(<<"auth">> \o routes[i].guards, "auth")
      BY <1>1, <2>1, ConcatHas, GuardsFacts
    <2>3. routes[i].handler \in ForAdmins => Has(<<"auth">> \o routes[i].guards, "admin")
      BY <1>1, <2>1, ConcatHas, GuardsFacts
    <2> QED BY <2>2, <2>3 DEF Guarded
  <1> QED BY <1>1, <1>2, GuardsFacts DEF SafeRouter, Router

(* Elsewhere each route brings its own guards.                             *)
LEMMA BehindNothing ==
  ASSUME NEW mount, NEW routes,
         \A i \in 1..Len(routes) :
           /\ routes[i].guards \in Guards
           /\ \/ routes[i].handler \in Public
              \/ routes[i].handler \notin ForAdmins /\ routes[i].guards \in {<<"auth">>, <<"auth", "query">>}
              \/ routes[i].guards = <<"auth", "admin">>
  PROVE  SafeRouter(Router(mount, <<>>, routes))
  <1>1. ASSUME NEW i \in 1..Len(routes)
        PROVE  Guarded(<<>> \o routes[i].guards, routes[i].handler)
    <2>1. <<>> \o routes[i].guards = routes[i].guards
      BY GuardsFacts
    <2>2. Public \intersect ForAdmins = {}
      BY DEF Public, ForAdmins
    <2> QED BY <2>1, <2>2, GuardsFacts DEF Guarded
  <1> QED BY <1>1, GuardsFacts DEF SafeRouter, Router

LEMMA V1IsSafe == \A i \in 1..Len(V1) : SafeRouter(V1[i])
  <1>1. SafeRouter(Router(<<"auth">>, <<>>, AuthRoutes))
    <2>1. \A i \in 1..Len(AuthRoutes) : AuthRoutes[i].guards \in Guards
      BY DEF AuthRoutes, On, Guards
    <2>2. \A i \in 1..Len(AuthRoutes) :
            \/ AuthRoutes[i].handler \in Public
            \/ AuthRoutes[i].handler \notin ForAdmins /\ AuthRoutes[i].guards = <<"auth">>
            \/ AuthRoutes[i].guards = <<"auth", "admin">>
      BY DEF AuthRoutes, On, Public, ForAdmins
    <2> QED BY <2>1, <2>2, BehindNothing
  <1>2. SafeRouter(Router(<<"accounts">>, <<"auth">>, AccountsRoutes))
    <2>1. \A i \in 1..Len(AccountsRoutes) : AccountsRoutes[i].guards \in Guards
      BY DEF AccountsRoutes, On, Guards
    <2>2. \A i \in 1..Len(AccountsRoutes) : AccountsRoutes[i].handler \in ForAdmins => AccountsRoutes[i].guards = <<"admin">>
      BY DEF AccountsRoutes, On, ForAdmins
    <2> QED BY <2>1, <2>2, BehindAuth
  <1>3. SafeRouter(Router(<<"transactions">>, <<"auth">>, TransactionsRoutes))
    <2>1. \A i \in 1..Len(TransactionsRoutes) : TransactionsRoutes[i].guards \in Guards
      BY DEF TransactionsRoutes, On, Guards
    <2>2. \A i \in 1..Len(TransactionsRoutes) : TransactionsRoutes[i].handler \in ForAdmins => TransactionsRoutes[i].guards = <<"admin">>
      BY DEF TransactionsRoutes, On, ForAdmins
    <2> QED BY <2>1, <2>2, BehindAuth
  <1>4. SafeRouter(Router(<<"wallets">>, <<"auth">>, WalletsRoutes))
    <2>1. \A i \in 1..Len(WalletsRoutes) : WalletsRoutes[i].guards \in Guards
      BY DEF WalletsRoutes, On, Guards
    <2>2. \A i \in 1..Len(WalletsRoutes) : WalletsRoutes[i].handler \in ForAdmins => WalletsRoutes[i].guards = <<"admin">>
      BY DEF WalletsRoutes, On, ForAdmins
    <2> QED BY <2>1, <2>2, BehindAuth
  <1>5. SafeRouter(Router(<<"payment-methods">>, <<"auth">>, PaymentMethodsRoutes))
    <2>1. \A i \in 1..Len(PaymentMethodsRoutes) : PaymentMethodsRoutes[i].guards \in Guards
      BY DEF PaymentMethodsRoutes, On, Guards
    <2>2. \A i \in 1..Len(PaymentMethodsRoutes) : PaymentMethodsRoutes[i].handler \in ForAdmins => PaymentMethodsRoutes[i].guards = <<"admin">>
      BY DEF PaymentMethodsRoutes, On, ForAdmins
    <2> QED BY <2>1, <2>2, BehindAuth
  <1>6. SafeRouter(Router(<<"beneficiaries">>, <<"auth">>, BeneficiariesRoutes))
    <2>1. \A i \in 1..Len(BeneficiariesRoutes) : BeneficiariesRoutes[i].guards \in Guards
      BY DEF BeneficiariesRoutes, On, Guards
    <2>2. \A i \in 1..Len(BeneficiariesRoutes) : BeneficiariesRoutes[i].handler \in ForAdmins => BeneficiariesRoutes[i].guards = <<"admin">>
      BY DEF BeneficiariesRoutes, On, ForAdmins
    <2> QED BY <2>1, <2>2, BehindAuth
  <1>7. SafeRouter(Router(<<"statements">>, <<"auth">>, StatementsRoutes))
    <2>1. \A i \in 1..Len(StatementsRoutes) : StatementsRoutes[i].guards \in Guards
      BY DEF StatementsRoutes, On, Guards
    <2>2. \A i \in 1..Len(StatementsRoutes) : StatementsRoutes[i].handler \in ForAdmins => StatementsRoutes[i].guards = <<"admin">>
      BY DEF StatementsRoutes, On, ForAdmins
    <2> QED BY <2>1, <2>2, BehindAuth
  <1>8. SafeRouter(Router(<<"notifications">>, <<"auth">>, NotificationsRoutes))
    <2>1. \A i \in 1..Len(NotificationsRoutes) : NotificationsRoutes[i].guards \in Guards
      BY DEF NotificationsRoutes, On, Guards
    <2>2. \A i \in 1..Len(NotificationsRoutes) : NotificationsRoutes[i].handler \in ForAdmins => NotificationsRoutes[i].guards = <<"admin">>
      BY DEF NotificationsRoutes, On, ForAdmins
    <2> QED BY <2>1, <2>2, BehindAuth
  <1>9. SafeRouter(Router(<<"files">>, <<"auth">>, FilesRoutes))
    <2>1. \A i \in 1..Len(FilesRoutes) : FilesRoutes[i].guards \in Guards
      BY DEF FilesRoutes, On, Guards
    <2>2. \A i \in 1..Len(FilesRoutes) : FilesRoutes[i].handler \in ForAdmins => FilesRoutes[i].guards = <<"admin">>
      BY DEF FilesRoutes, On, ForAdmins
    <2> QED BY <2>1, <2>2, BehindAuth
  <1>10. SafeRouter(Router(<<"webhooks">>, <<"auth">>, WebhooksRoutes))
    <2>1. \A i \in 1..Len(WebhooksRoutes) : WebhooksRoutes[i].guards \in Guards
      BY DEF WebhooksRoutes, On, Guards
    <2>2. \A i \in 1..Len(WebhooksRoutes) : WebhooksRoutes[i].handler \in ForAdmins => WebhooksRoutes[i].guards = <<"admin">>
      BY DEF WebhooksRoutes, On, ForAdmins
    <2> QED BY <2>1, <2>2, BehindAuth
  <1>11. SafeRouter(Router(<<"test">>, <<>>, TestRoutes))
    <2>1. \A i \in 1..Len(TestRoutes) : TestRoutes[i].guards \in Guards
      BY DEF TestRoutes, On, Guards
    <2>2. \A i \in 1..Len(TestRoutes) :
            \/ TestRoutes[i].handler \in Public
            \/ TestRoutes[i].handler \notin ForAdmins /\ TestRoutes[i].guards = <<"auth">>
            \/ TestRoutes[i].guards = <<"auth", "admin">>
      BY DEF TestRoutes, On, Public, ForAdmins
    <2> QED BY <2>1, <2>2, BehindNothing
  <1>12. SafeRouter(Router(<<"bulk">>, <<"auth">>, BulkRoutes))
    <2>1. \A i \in 1..Len(BulkRoutes) : BulkRoutes[i].guards \in Guards
      BY DEF BulkRoutes, On, Guards
    <2>2. \A i \in 1..Len(BulkRoutes) : BulkRoutes[i].handler \in ForAdmins => BulkRoutes[i].guards = <<"admin">>
      BY DEF BulkRoutes, On, ForAdmins
    <2> QED BY <2>1, <2>2, BehindAuth
  <1>13. SafeRouter(Router(<<"users">>, <<>>, UsersRoutes))
    <2>1. \A i \in 1..Len(UsersRoutes) : UsersRoutes[i].guards \in Guards
      BY DEF UsersRoutes, On, Guards
    <2>2. \A i \in 1..Len(UsersRoutes) :
            \/ UsersRoutes[i].handler \in Public
            \/ UsersRoutes[i].handler \notin ForAdmins /\ UsersRoutes[i].guards = <<"auth">>
            \/ UsersRoutes[i].guards = <<"auth", "admin">>
      BY DEF UsersRoutes, On, Public, ForAdmins
    <2> QED BY <2>1, <2>2, BehindNothing
  <1> QED BY <1>1, <1>2, <1>3, <1>4, <1>5, <1>6, <1>7, <1>8, <1>9, <1>10, <1>11, <1>12, <1>13 DEF V1

LEMMA V2IsSafe == \A i \in 1..Len(V2) : SafeRouter(V2[i])
  <1> DEFINE routes == <<
        On("GET", <<"health">>, <<>>, "health"),
        On("GET", <<"accounts">>, <<"auth", "query">>, "listAccounts"),
        On("GET", <<"accounts", Arg>>, <<"auth">>, "getAccount")>>
  <1>1. \A i \in 1..Len(routes) : routes[i].guards \in Guards
    BY DEF On, Guards
  <1>2. \A i \in 1..Len(routes) :
          \/ routes[i].handler \in Public
          \/ routes[i].handler \notin ForAdmins /\ routes[i].guards \in {<<"auth">>, <<"auth", "query">>}
    BY DEF On, Public, ForAdmins
  <1>3. SafeRouter(Router(<<>>, <<>>, routes))
    BY <1>1, <1>2, BehindNothing
  <1> QED BY <1>3 DEF V2

(* No verb and no path leads to a handler past the guards it needs.        *)
LEMMA ResolveFacts ==
  ASSUME NEW verb, NEW path
  PROVE  LET found == Resolve(verb, path) IN
         found.guards \in Seq(Guard) /\ Guarded(found.guards, found.handler)
  <1>1. \A i \in 1..Len(Routers(path)) : SafeRouter(Routers(path)[i])
    BY V1IsSafe, V2IsSafe DEF Routers
  <1>2. CASE RouterOf(path) = 0
    BY <1>2 DEF Resolve, Guarded, NotFound, ForAdmins
  <1>3. CASE RouterOf(path) # 0
    <2> DEFINE entered == Routers(path)[RouterOf(path)]
               route == RouteOf(entered, verb, path)
    <2>1. RouterOf(path) \in 1..Len(Routers(path))
      BY <1>3, FirstFacts DEF RouterOf
    <2>2. SafeRouter(entered)
      BY <1>1, <2>1
    <2>3. route = 0 \/ route \in 1..Len(entered.routes)
      BY FirstFacts DEF RouteOf
    <2>4. CASE route = 0
      BY <1>3, <2>2, <2>4 DEF Resolve, Guarded, NotFound, ForAdmins, SafeRouter
    <2>5. CASE route # 0
      BY <1>3, <2>2, <2>3, <2>5 DEF Resolve, SafeRouter
    <2> QED BY <2>4, <2>5
  <1> QED BY <1>2, <1>3

-----------------------------------------------------------------------------
(* The invariant: TypeOK, with what it leaves unsaid. *)
Shape ==
  /\ TypeOK
  /\ req = [r \in Request |-> req[r]] /\ left = [r \in Request |-> left[r]]
  /\ status = [r \in Request |-> status[r]] /\ served = [r \in Request |-> served[r]]
  /\ \A r \in Request : pc[r] # "done" => served[r] = None
  /\ \A r \in Request : pc[r] \in {"idle", "held"} => user[r] = Nobody

Found(r) == Resolve(req[r].verb, req[r].path)

(* What a request among the guards still has to pass, or has passed.       *)
OnTheWay(r) ==
  /\ left[r] \in Seq(Guard)
  /\ user[r] \in {Nobody, req[r].cred}
  /\ Has(Found(r).guards, "auth") =>
       \/ Has(left[r], "auth")
       \/ user[r] = req[r].cred /\ user[r] # Nobody /\ ~lapsed[r]
  /\ Has(Found(r).guards, "admin") => Has(left[r], "admin") \/ user[r] \in Admin
  /\ lapsed[r] => req[r].cred \notin active

Passage == \A r \in Request : pc[r] = "guards" => OnTheWay(r)

ApiInv == Shape /\ Passage /\ AccessFollowsRole /\ CheckedWhenServed

LEMMA HasTail ==
  ASSUME NEW s \in Seq(Guard), s # <<>>, NEW g, Has(s, g), Head(s) # g
  PROVE  Has(Tail(s), g)
  <1>1. PICK i \in 1..Len(s) : s[i] = g
    BY DEF Has
  <1>2. i # 1 /\ i - 1 \in 1..Len(Tail(s)) /\ Tail(s)[i - 1] = g
    BY <1>1
  <1> QED BY <1>2 DEF Has

LEMMA WorkloadFacts ==
  ASSUME NEW r \in Request, NEW q \in Workload[r]
  PROVE  q # NoRequest /\ q.from \in Address /\ q.hold \in BOOLEAN
         /\ q.cred \in Credential \union {Nobody}
  <1>1. q.path # <<"">> /\ q.from \in Address /\ q.hold \in BOOLEAN
        /\ q.cred \in Credential \union {Nobody}
    BY ApiAssumption
  <1>2. NoRequest.path = <<"">>
    BY DEF NoRequest
  <1> QED BY <1>1, <1>2

LEMMA StatusFacts ==
  /\ \A o \in {"huge", "garbled", "limit", "delay", "query", "body", "file", "auth", "admin", "path"} :
       0 \notin StatusOf[o]
  /\ \A q, handler : 0 \notin Outcome(q, handler)
  BY DEF StatusOf, Outcome

LEMMA ApiInit == Init => ApiInv
  BY DEF Init, ApiInv, Shape, TypeOK, Passage, AccessFollowsRole, CheckedWhenServed, Bucket, None

(* A request that enters the routers has all of its guards before it.      *)
LEMMA EnterFacts ==
  ASSUME Shape, NEW r \in Request, NEW q \in Workload[r], Enter(r, q),
         req' = [req EXCEPT ![r] = q], UNCHANGED <<user, active>>, pc[r] \in {"idle", "held"}
  PROVE  OnTheWay(r)'
  <1>1. req'[r] = q /\ left'[r] = Resolve(q.verb, q.path).guards
        /\ (lapsed'[r] => q.cred \notin active)
    BY DEF Shape, TypeOK, Enter
  <1>2. Found(r)' = Resolve(q.verb, q.path)
    BY <1>1 DEF Found
  <1>3. /\ left'[r] \in Seq(Guard)
        /\ Has(Found(r)'.guards, "auth") => Has(left'[r], "auth")
        /\ Has(Found(r)'.guards, "admin") => Has(left'[r], "admin")
    BY <1>1, <1>2, ResolveFacts
  <1>4. lapsed'[r] => req'[r].cred \notin active'
    BY <1>1
  <1>5. user'[r] = Nobody
    BY DEF Shape
  <1> QED BY <1>3, <1>4, <1>5 DEF OnTheWay

(* The requests a step does not touch stay where they are.                 *)
LEMMA PassageKept ==
  ASSUME Passage, NEW r \in Request, active' \subseteq active,
         \A s \in Request \ {r} :
           /\ pc'[s] = pc[s] /\ req'[s] = req[s] /\ left'[s] = left[s]
           /\ user'[s] = user[s] /\ lapsed'[s] = lapsed[s],
         pc'[r] # "guards" \/ OnTheWay(r)'
  PROVE  Passage'
  <1> SUFFICES ASSUME NEW s \in Request \ {r}, pc'[s] = "guards"
               PROVE  OnTheWay(s)'
    BY DEF Passage
  <1>1. Found(s)' = Found(s)
    BY DEF Found
  <1>2. OnTheWay(s)
    BY DEF Passage
  <1> QED BY <1>1, <1>2 DEF OnTheWay

(* What entering the routers does to the request and to nothing else.      *)
LEMMA EnterKeeps ==
  ASSUME Shape, NEW r \in Request, NEW q, Enter(r, q)
  PROVE  /\ pc' = [pc EXCEPT ![r] = "guards"]
         /\ left' = [s \in Request |-> left'[s]]
         /\ lapsed' \in [Request -> BOOLEAN]
         /\ \A s \in Request \ {r} : pc'[s] = pc[s] /\ left'[s] = left[s] /\ lapsed'[s] = lapsed[s]
  <1>1. (q.cred \notin active) \in BOOLEAN
    OBVIOUS
  <1>2. lapsed \in [Request -> BOOLEAN]
    BY DEF Shape, TypeOK
  <1>3. lapsed' \in [Request -> BOOLEAN]
    BY <1>1, <1>2, Zenon DEF Enter
  <1>4. \A s \in Request \ {r} : lapsed'[s] = lapsed[s]
    BY <1>2 DEF Enter
  <1>5. left' = [s \in Request |-> left'[s]]
    BY DEF Enter, Shape
  <1>6. \A s \in Request \ {r} : pc'[s] = pc[s] /\ left'[s] = left[s]
    BY DEF Enter, Shape, TypeOK
  <1> QED BY <1>3, <1>4, <1>5, <1>6 DEF Enter

(* A request that is answered, by its handler or before it.                *)
LEMMA FinishKeeps ==
  ASSUME Shape, NEW r \in Request, NEW codes, Finish(r, codes), 0 \notin codes, pc[r] # "done"
  PROVE  /\ pc' = [pc EXCEPT ![r] = "done"]
         /\ pc' \in [Request -> {"idle", "held", "guards", "done"}]
         /\ status' = [s \in Request |-> status'[s]]
         /\ \A s \in Request : pc'[s] = "done" <=> status'[s] # 0
         /\ \A s \in Request \ {r} : pc'[s] = pc[s]
  BY DEF Finish, Shape, TypeOK

LEMMA ArriveKeeps ==
  ASSUME ApiInv, NEW r \in Request, Arrive(r)
  PROVE  ApiInv'
  <1> USE DEF ApiInv
  <1>1. PICK q \in Workload[r] :
          LET met == IF Unparsed(q) THEN {} ELSE Meets(q)
              objection == CASE Unparsed(q) -> q.flaw
                             [] \E b \in met : Full(b) -> "limit"
                             [] BadDelay(q) -> "delay"
                             [] OTHER -> None IN
          /\ pc[r] = "idle"
          /\ req' = [req EXCEPT ![r] = q]
          /\ count' = [b \in Bucket |-> IF b \in met THEN count[b] + 1 ELSE count[b]]
          /\ IF objection = None THEN Proceed(r, q) /\ UNCHANGED status
             ELSE Refuse(r, objection) /\ UNCHANGED <<left, lapsed>>
          /\ UNCHANGED <<user, served, active, old>>
    BY Zenon DEF Arrive
  <1>2. \/ Proceed(r, q) /\ UNCHANGED status
        \/ \E o \in {"huge", "garbled", "limit", "delay"} : Refuse(r, o) /\ UNCHANGED <<left, lapsed>>
    <2>1. CASE Unparsed(q)
      BY <1>1, <2>1 DEF Unparsed, None
    <2>2. CASE ~Unparsed(q)
      BY <1>1, <2>2 DEF None
    <2> QED BY <2>1, <2>2
  <1>3. count' \in [Bucket -> Nat]
    BY <1>1 DEF Shape, TypeOK
  <1>4. q # NoRequest
    BY WorkloadFacts
  <1>5. /\ req' = [s \in Request |-> req'[s]] /\ req'[r] = q
        /\ \A s \in Request \ {r} : req'[s] = req[s]
    BY <1>1 DEF Shape
  <1>6. CASE Proceed(r, q) /\ UNCHANGED status
    <2>1. CASE q.hold
      <3>1. pc' = [pc EXCEPT ![r] = "held"] /\ UNCHANGED <<left, lapsed>>
        BY <1>6, <2>1 DEF Proceed
      <3>2. Shape'
        BY <1>1, <1>3, <1>4, <1>5, <1>6, <3>1 DEF Shape, TypeOK
      <3>3. Passage'
        BY <1>1, <1>5, <3>1, PassageKept DEF Shape, TypeOK
      <3>4. AccessFollowsRole' /\ CheckedWhenServed'
        BY <1>1, <1>5, <3>1 DEF AccessFollowsRole, CheckedWhenServed, Shape, TypeOK
      <3> QED BY <3>2, <3>3, <3>4
    <2>2. CASE ~q.hold
      <3>1. Enter(r, q)
        BY <1>6, <2>2 DEF Proceed
      <3>2. Shape'
        BY <1>1, <1>3, <1>4, <1>5, <1>6, <3>1, EnterKeeps DEF Shape, TypeOK
      <3>3. OnTheWay(r)'
        BY <1>1, <3>1, EnterFacts
      <3>4. Passage'
        BY <1>1, <1>5, <3>1, <3>3, PassageKept, EnterKeeps
      <3>5. AccessFollowsRole' /\ CheckedWhenServed'
        BY <1>1, <1>5, <3>1, EnterKeeps DEF AccessFollowsRole, CheckedWhenServed, Shape
      <3> QED BY <3>2, <3>4, <3>5
    <2> QED BY <2>1, <2>2
  <1>7. ASSUME NEW o \in {"huge", "garbled", "limit", "delay"}, Refuse(r, o), UNCHANGED <<left, lapsed>>
        PROVE  ApiInv'
    <2>1. Finish(r, StatusOf[o]) /\ 0 \notin StatusOf[o] /\ pc[r] # "done"
      BY <1>1, <1>7, StatusFacts DEF Refuse
    <2>2. Shape'
      BY <1>1, <1>3, <1>4, <1>5, <1>7, <2>1, FinishKeeps DEF Shape, TypeOK
    <2>3. Passage'
      BY <1>1, <1>5, <1>7, <2>1, FinishKeeps, PassageKept DEF Shape, TypeOK
    <2>4. AccessFollowsRole' /\ CheckedWhenServed'
      BY <1>1, <1>5, <1>7 DEF AccessFollowsRole, CheckedWhenServed, Shape
    <2> QED BY <2>2, <2>3, <2>4
  <1> QED BY <1>2, <1>6, <1>7

LEMMA ReleaseKeeps ==
  ASSUME ApiInv, NEW r \in Request, Release(r)
  PROVE  ApiInv'
  <1> USE DEF ApiInv
  <1>1. req[r] \in Workload[r] /\ Enter(r, req[r])
    BY DEF Release, Shape, TypeOK
  <1>2. req' = [req EXCEPT ![r] = req[r]]
    BY DEF Release, Shape
  <1>3. OnTheWay(r)'
    BY <1>1, <1>2, EnterFacts DEF Release
  <1>4. Shape'
    BY <1>1, EnterKeeps DEF Release, Shape, TypeOK
  <1>5. Passage'
    BY <1>1, <1>3, PassageKept, EnterKeeps DEF Release
  <1>6. AccessFollowsRole' /\ CheckedWhenServed'
    BY <1>1, EnterKeeps DEF AccessFollowsRole, CheckedWhenServed, Release, Shape
  <1> QED BY <1>4, <1>5, <1>6

(* A guard is passed: the rest of them is still before the request.        *)
LEMMA PassKeeps ==
  ASSUME Shape, Passage, NEW r \in Request, NEW guards, AtGuard(r, guards), Pass(r),
         UNCHANGED <<req, served, active, count, old, lapsed>>,
         user' \in [Request -> Credential \union {Nobody}],
         \A s \in Request \ {r} : user'[s] = user[s],
         OnTheWay(r)'
  PROVE  Shape' /\ Passage'
  <1>1. /\ left' = [s \in Request |-> left'[s]]
        /\ \A s \in Request \ {r} : left'[s] = left[s]
    BY DEF Shape, Pass
  <1>2. Shape'
    BY <1>1 DEF AtGuard, Pass, Shape, TypeOK
  <1>3. Passage'
    BY <1>1, PassageKept DEF Pass
  <1> QED BY <1>2, <1>3

(* A guard refuses: the request is answered.                               *)
LEMMA RefuseKeeps ==
  ASSUME Shape, Passage, NEW r \in Request, pc[r] = "guards",
         NEW o \in {"query", "body", "file", "auth", "admin", "path"}, Refuse(r, o),
         UNCHANGED <<req, left, user, served, active, count, old, lapsed>>
  PROVE  Shape' /\ Passage'
  <1>1. Finish(r, StatusOf[o]) /\ 0 \notin StatusOf[o] /\ pc[r] # "done"
    BY StatusFacts DEF Refuse
  <1>2. Shape'
    BY <1>1, FinishKeeps DEF Shape, TypeOK
  <1>3. Passage'
    BY <1>1, FinishKeeps, PassageKept DEF Shape, TypeOK
  <1> QED BY <1>2, <1>3

LEMMA AtGuardFacts ==
  ASSUME ApiInv, NEW r \in Request, NEW guards, AtGuard(r, guards)
  PROVE  /\ pc[r] = "guards" /\ OnTheWay(r) /\ left[r] # <<>> /\ Head(left[r]) \in guards
         /\ served[r] = None
  BY DEF ApiInv, Shape, Passage, AtGuard

LEMMA AuthenticateKeeps ==
  ASSUME ApiInv, NEW r \in Request, Authenticate(r)
  PROVE  ApiInv'
  <1> USE DEF ApiInv
  <1>1. AtGuard(r, {"auth"}) /\ UNCHANGED <<req, served, active, count, old, lapsed>>
    BY DEF Authenticate
  <1>2. OnTheWay(r) /\ left[r] # <<>> /\ Head(left[r]) = "auth" /\ served[r] = None /\ pc[r] = "guards"
    BY <1>1, AtGuardFacts
  <1>3. CASE req[r].cred \in active /\ user' = [user EXCEPT ![r] = req[r].cred] /\ Pass(r)
    <2>1. /\ left'[r] = Tail(left[r]) /\ user'[r] = req[r].cred /\ req'[r] = req[r]
          /\ user' \in [Request -> Credential \union {Nobody}]
          /\ \A s \in Request \ {r} : user'[s] = user[s]
      BY <1>1, <1>3 DEF Shape, TypeOK, Pass
    <2>2. req[r].cred # Nobody /\ ~lapsed[r]
      BY <1>2, <1>3, ApiAssumption DEF OnTheWay, Shape, TypeOK
    <2>3. Tail(left[r]) \in Seq(Guard) /\ (Has(left[r], "admin") => Has(Tail(left[r]), "admin"))
      BY <1>2, HasTail DEF OnTheWay
    <2>4. Found(r)' = Found(r) /\ lapsed'[r] = lapsed[r] /\ active' = active
      BY <1>1 DEF Found
    <2>5. user[r] \in Admin => user'[r] \in Admin
      BY <1>2, <2>1, ApiAssumption DEF OnTheWay
    <2>6. OnTheWay(r)'
      BY <1>2, <1>3, <2>1, <2>2, <2>3, <2>4, <2>5 DEF OnTheWay
    <2>7. Shape' /\ Passage'
      BY <1>1, <1>3, <2>1, <2>6, PassKeeps
    <2>8. AccessFollowsRole' /\ CheckedWhenServed'
      BY <1>1, <1>2, <2>1 DEF AccessFollowsRole, CheckedWhenServed
    <2> QED BY <2>7, <2>8
  <1>4. CASE Refuse(r, "auth") /\ UNCHANGED <<left, user>>
    <2>1. Shape' /\ Passage'
      BY <1>1, <1>2, <1>4, RefuseKeeps
    <2>2. AccessFollowsRole' /\ CheckedWhenServed'
      BY <1>1, <1>4 DEF AccessFollowsRole, CheckedWhenServed
    <2> QED BY <2>1, <2>2
  <1> QED BY <1>3, <1>4 DEF Authenticate

LEMMA CheckRoleKeeps ==
  ASSUME ApiInv, NEW r \in Request, CheckRole(r)
  PROVE  ApiInv'
  <1> USE DEF ApiInv
  <1>1. AtGuard(r, {"admin"}) /\ UNCHANGED <<req, user, served, active, count, old, lapsed>>
    BY DEF CheckRole
  <1>2. OnTheWay(r) /\ left[r] # <<>> /\ Head(left[r]) = "admin" /\ pc[r] = "guards"
    BY <1>1, AtGuardFacts
  <1>3. AccessFollowsRole' /\ CheckedWhenServed'
    BY <1>1 DEF AccessFollowsRole, CheckedWhenServed
  <1>4. CASE user[r] \in Admin /\ Pass(r)
    <2>1. left'[r] = Tail(left[r])
      BY <1>4 DEF Shape, Pass
    <2>2. Tail(left[r]) \in Seq(Guard) /\ (Has(left[r], "auth") => Has(Tail(left[r]), "auth"))
      BY <1>2, HasTail DEF OnTheWay
    <2>3. Found(r)' = Found(r)
      BY <1>1 DEF Found
    <2>4. OnTheWay(r)'
      BY <1>1, <1>2, <1>4, <2>1, <2>2, <2>3 DEF OnTheWay
    <2>5. user' \in [Request -> Credential \union {Nobody}]
      BY <1>1 DEF Shape, TypeOK
    <2> QED BY <1>1, <1>3, <1>4, <2>4, <2>5, PassKeeps
  <1>5. CASE Refuse(r, "admin") /\ UNCHANGED left
    BY <1>1, <1>2, <1>3, <1>5, RefuseKeeps
  <1> QED BY <1>4, <1>5 DEF CheckRole

LEMMA CheckKeeps ==
  ASSUME ApiInv, NEW r \in Request, NEW guard \in {"query", "body", "file"}, Check(r, guard)
  PROVE  ApiInv'
  <1> USE DEF ApiInv
  <1>1. AtGuard(r, {guard}) /\ UNCHANGED <<req, user, served, active, count, old, lapsed>>
    BY DEF Check
  <1>2. OnTheWay(r) /\ left[r] # <<>> /\ Head(left[r]) = guard /\ pc[r] = "guards"
    BY <1>1, AtGuardFacts
  <1>3. AccessFollowsRole' /\ CheckedWhenServed'
    BY <1>1 DEF AccessFollowsRole, CheckedWhenServed
  <1>4. CASE Pass(r)
    <2>1. left'[r] = Tail(left[r])
      BY <1>4 DEF Shape, Pass
    <2>2. /\ Tail(left[r]) \in Seq(Guard)
          /\ (Has(left[r], "auth") => Has(Tail(left[r]), "auth"))
          /\ (Has(left[r], "admin") => Has(Tail(left[r]), "admin"))
      BY <1>2, HasTail DEF OnTheWay
    <2>3. Found(r)' = Found(r)
      BY <1>1 DEF Found
    <2>4. OnTheWay(r)'
      BY <1>1, <1>2, <2>1, <2>2, <2>3 DEF OnTheWay
    <2>5. user' \in [Request -> Credential \union {Nobody}]
      BY <1>1 DEF Shape, TypeOK
    <2> QED BY <1>1, <1>3, <1>4, <2>4, <2>5, PassKeeps
  <1>5. CASE Refuse(r, guard) /\ UNCHANGED left
    BY <1>1, <1>2, <1>3, <1>5, RefuseKeeps
  <1> QED BY <1>4, <1>5 DEF Check

LEMMA HandleKeeps ==
  ASSUME ApiInv, NEW r \in Request, Handle(r)
  PROVE  ApiInv'
  <1> USE DEF ApiInv
  <1> DEFINE handler == Found(r).handler
  <1>1. /\ pc[r] = "guards" /\ left[r] = <<>> /\ OnTheWay(r)
        /\ UNCHANGED <<req, left, user, active, count, old, lapsed>>
    BY DEF Handle, Passage
  <1>2. CASE Refuse(r, "path") /\ UNCHANGED served
    BY <1>1, <1>2, RefuseKeeps DEF AccessFollowsRole, CheckedWhenServed
  <1>3. CASE /\ handler # NotFound
             /\ served' = [served EXCEPT ![r] = handler]
             /\ Finish(r, Outcome(req[r], handler))
    <2>1. ~Has(left[r], "auth") /\ ~Has(left[r], "admin")
      BY <1>1 DEF Has
    <2>2. Guarded(Found(r).guards, handler)
      BY ResolveFacts DEF Found
    <2>3. handler \notin Public => user[r] = req[r].cred /\ user[r] # Nobody /\ ~lapsed[r]
      BY <1>1, <1>3, <2>1, <2>2 DEF Guarded, OnTheWay
    <2>4. handler \in ForAdmins => user[r] \in Admin
      BY <1>1, <2>1, <2>2 DEF Guarded, OnTheWay
    <2>5. /\ served'[r] = handler /\ served' = [s \in Request |-> served'[s]]
          /\ \A s \in Request \ {r} : served'[s] = served[s]
      BY <1>3 DEF Shape
    <2>6. 0 \notin Outcome(req[r], handler) /\ pc[r] # "done"
      BY <1>1, StatusFacts
    <2>7. Shape'
      BY <1>1, <1>3, <2>5, <2>6, FinishKeeps DEF Shape, TypeOK
    <2>8. Passage'
      BY <1>1, <1>3, <2>6, FinishKeeps, PassageKept DEF Shape, TypeOK
    <2>9. AccessFollowsRole'
      BY <1>1, <2>3, <2>4, <2>5 DEF AccessFollowsRole
    <2>10. CheckedWhenServed'
      BY <1>1, <2>3, <2>5 DEF CheckedWhenServed
    <2> QED BY <2>7, <2>8, <2>9, <2>10
  <1> QED BY <1>2, <1>3 DEF Handle, Found

LEMMA LapseKeeps ==
  ASSUME ApiInv, NEW c \in Credential, Lapse(c)
  PROVE  ApiInv'
  <1> USE DEF ApiInv
  <1>1. Shape' /\ AccessFollowsRole' /\ CheckedWhenServed'
    BY DEF Lapse, Shape, TypeOK, AccessFollowsRole, CheckedWhenServed
  <1>2. ASSUME NEW r \in Request, pc'[r] = "guards"
        PROVE  OnTheWay(r)'
    BY <1>2 DEF Lapse, Passage, OnTheWay, Found
  <1> QED BY <1>1, <1>2 DEF Passage

LEMMA NewWindowKeeps ==
  ASSUME ApiInv, NEW b \in Bucket, NewWindow(b)
  PROVE  ApiInv'
  <1> USE DEF ApiInv
  <1>1. count' \in [Bucket -> Nat]
    BY DEF NewWindow, Shape, TypeOK
  <1>2. old' \in [Request -> BOOLEAN]
    BY Zenon DEF NewWindow
  <1>3. Shape' /\ AccessFollowsRole' /\ CheckedWhenServed'
    BY <1>1, <1>2 DEF NewWindow, Shape, TypeOK, AccessFollowsRole, CheckedWhenServed
  <1>4. Passage'
    BY DEF NewWindow, Passage, OnTheWay, Found
  <1> QED BY <1>3, <1>4

LEMMA ApiStep == ApiInv /\ [Next]_vars => ApiInv'
  <1> SUFFICES ASSUME ApiInv, [Next]_vars
               PROVE  ApiInv'
    OBVIOUS
  <1>1. ASSUME NEW r \in Request, Arrive(r) PROVE ApiInv'
    BY <1>1, ArriveKeeps
  <1>2. ASSUME NEW r \in Request, Release(r) PROVE ApiInv'
    BY <1>2, ReleaseKeeps
  <1>3. ASSUME NEW r \in Request, Authenticate(r) PROVE ApiInv'
    BY <1>3, AuthenticateKeeps
  <1>4. ASSUME NEW r \in Request, CheckRole(r) PROVE ApiInv'
    BY <1>4, CheckRoleKeeps
  <1>5. ASSUME NEW r \in Request, ValidateBody(r) \/ Paginate(r) \/ Upload(r) PROVE ApiInv'
    BY <1>5, CheckKeeps DEF ValidateBody, Paginate, Upload
  <1>6. ASSUME NEW r \in Request, Handle(r) PROVE ApiInv'
    BY <1>6, HandleKeeps
  <1>7. ASSUME NEW c \in Credential, Lapse(c) PROVE ApiInv'
    BY <1>7, LapseKeeps
  <1>8. ASSUME NEW b \in Bucket, NewWindow(b) PROVE ApiInv'
    BY <1>8, NewWindowKeeps
  <1>9. CASE UNCHANGED vars
    BY <1>9 DEF vars, ApiInv, Shape, TypeOK, Passage, OnTheWay, Found, AccessFollowsRole, CheckedWhenServed
  <1> QED BY <1>1, <1>2, <1>3, <1>4, <1>5, <1>6, <1>7, <1>8, <1>9 DEF Next

LEMMA ApiInvariant == Spec => []ApiInv
  BY ApiInit, ApiStep, PTL DEF Spec

(* Requests, their answers and the limiter's counters stay what they are.  *)
THEOREM ApiTypes == Spec => []TypeOK
  <1>1. ApiInv => TypeOK
    BY DEF ApiInv, Shape
  <1> QED BY <1>1, ApiInvariant, PTL

(* Whatever is asked by whomever, no handler for administrators runs for   *)
(* another, and none but the public ones without a credential: the guards  *)
(* of the routing tables are complete.                                     *)
THEOREM AccessHolds == Spec => []AccessFollowsRole
  <1>1. ApiInv => AccessFollowsRole
    BY DEF ApiInv
  <1> QED BY <1>1, ApiInvariant, PTL

(* However long a request was held and whatever lapsed meanwhile, its      *)
(* credential was valid when it left the delay.                            *)
THEOREM CheckedAfterTheDelay == Spec => []CheckedWhenServed
  <1>1. ApiInv => CheckedWhenServed
    BY DEF ApiInv
  <1> QED BY <1>1, ApiInvariant, PTL

-----------------------------------------------------------------------------
(* The requests in the delay.  Those that came in this window were counted *)
(* in it before the counter reached the limit, and those of the window     *)
(* before it were all that were waiting when it ended.                     *)
Recent(a) == {r \in From(a) : ~old[r]}
Ancient(a) == {r \in From(a) : old[r]}

Waiting(a) ==
  /\ Cardinality(Recent(a)) <= count[<<"ip", a>>]
  /\ Cardinality(Recent(a)) <= MaxRequests
  /\ Cardinality(Ancient(a)) <= MaxRequests

Queue ==
  /\ \A r \in Request : old[r] => pc[r] = "held"
  /\ \A a \in Address : Waiting(a)

LEMMA FromFacts ==
  ASSUME NEW a
  PROVE  /\ IsFiniteSet(From(a)) /\ IsFiniteSet(Recent(a)) /\ IsFiniteSet(Ancient(a))
         /\ Cardinality(Recent(a)) \in Nat /\ Cardinality(Ancient(a)) \in Nat
         /\ Cardinality(From(a)) <= Cardinality(Recent(a)) + Cardinality(Ancient(a))
  <1>1. IsFiniteSet(Request)
    BY ApiAssumption
  <1>2. From(a) \subseteq Request /\ Recent(a) \subseteq Request /\ Ancient(a) \subseteq Request
    BY DEF From, Recent, Ancient
  <1>3. IsFiniteSet(From(a)) /\ IsFiniteSet(Recent(a)) /\ IsFiniteSet(Ancient(a))
    BY <1>1, <1>2, FS_Subset
  <1>4. From(a) = Recent(a) \union Ancient(a) /\ Recent(a) \intersect Ancient(a) = {}
    BY DEF Recent, Ancient
  <1>5. Cardinality(From(a)) = Cardinality(Recent(a)) + Cardinality(Ancient(a)) - Cardinality(Recent(a) \intersect Ancient(a))
    BY <1>3, <1>4, FS_Union
  <1>6. Cardinality(Recent(a) \intersect Ancient(a)) = 0
    BY <1>4, FS_EmptySet
  <1> QED BY <1>3, <1>5, <1>6, FS_CardinalityType

(* Fewer wait than before: nothing came in, the counter did not fall.      *)
LEMMA FewerWait ==
  ASSUME NEW a, Waiting(a), count[<<"ip", a>>] \in Nat,
         Recent(a)' \subseteq Recent(a), Ancient(a)' \subseteq Ancient(a),
         count'[<<"ip", a>>] \in Nat, count[<<"ip", a>>] <= count'[<<"ip", a>>]
  PROVE  Waiting(a)'
  <1>1. Cardinality(Recent(a)') <= Cardinality(Recent(a)) /\ Cardinality(Recent(a)') \in Nat
    BY FromFacts, FS_Subset, FS_CardinalityType
  <1>2. Cardinality(Ancient(a)') <= Cardinality(Ancient(a)) /\ Cardinality(Ancient(a)') \in Nat
    BY FromFacts, FS_Subset, FS_CardinalityType
  <1>3. Cardinality(Recent(a)) \in Nat /\ Cardinality(Ancient(a)) \in Nat /\ MaxRequests \in Nat
    BY FromFacts, ApiAssumption
  <1> QED BY <1>1, <1>2, <1>3 DEF Waiting

(* The request of a step leaves the delay, or was not in it.               *)
LEMMA OutOfTheDelay ==
  ASSUME ApiInv, ApiInv', Queue, NEW r \in Request,
         pc'[r] # "held", ~old'[r],
         \A s \in Request \ {r} : pc'[s] = pc[s] /\ req'[s] = req[s] /\ old'[s] = old[s],
         \A a \in Address : count[<<"ip", a>>] <= count'[<<"ip", a>>]
  PROVE  Queue'
  <1>1. \A s \in Request : old'[s] => pc'[s] = "held"
    BY DEF Queue
  <1>2. ASSUME NEW a \in Address
        PROVE  Waiting(a)'
    <2>1. Recent(a)' \subseteq Recent(a) /\ Ancient(a)' \subseteq Ancient(a)
      BY DEF Recent, Ancient, From
    <2>2. <<"ip", a>> \in Bucket
      BY DEF Bucket
    <2>3. count[<<"ip", a>>] \in Nat /\ count'[<<"ip", a>>] \in Nat
      BY <2>2 DEF ApiInv, Shape, TypeOK
    <2> QED BY <2>1, <2>3, FewerWait DEF Queue
  <1> QED BY <1>1, <1>2 DEF Queue

LEMMA ArriveQueues ==
  ASSUME ApiInv, ApiInv', Queue, NEW r \in Request, Arrive(r)
  PROVE  Queue'
  <1>1. PICK q \in Workload[r] :
          LET met == IF Unparsed(q) THEN {} ELSE Meets(q)
              objection == CASE Unparsed(q) -> q.flaw
                             [] \E b \in met : Full(b) -> "limit"
                             [] BadDelay(q) -> "delay"
                             [] OTHER -> None IN
          /\ pc[r] = "idle"
          /\ req' = [req EXCEPT ![r] = q]
          /\ count' = [b \in Bucket |-> IF b \in met THEN count[b] + 1 ELSE count[b]]
          /\ IF objection = None THEN Proceed(r, q) /\ UNCHANGED status
             ELSE Refuse(r, objection) /\ UNCHANGED <<left, lapsed>>
          /\ UNCHANGED <<user, served, active, old>>
    BY Zenon DEF Arrive
  <1>2. /\ \A s \in Request \ {r} : pc'[s] = pc[s] /\ req'[s] = req[s] /\ old'[s] = old[s]
        /\ req'[r] = q /\ ~old'[r]
    <2>1. ~old[r]
      BY <1>1 DEF Queue
    <2>2. \A s \in Request \ {r} : pc'[s] = pc[s]
      BY <1>1 DEF Proceed, Enter, Refuse, Finish, ApiInv, Shape, TypeOK
    <2> QED BY <1>1, <2>1, <2>2 DEF ApiInv, Shape
  <1>3. \A a \in Address : /\ count[<<"ip", a>>] \in Nat /\ count'[<<"ip", a>>] \in Nat
                            /\ count[<<"ip", a>>] <= count'[<<"ip", a>>]
    BY <1>1 DEF ApiInv, Shape, TypeOK, Bucket
  <1>4. CASE pc'[r] # "held"
    BY <1>2, <1>3, <1>4, OutOfTheDelay
  <1>5. CASE pc'[r] = "held"
    <2>1. /\ ~Unparsed(q) /\ \A b \in Meets(q) : ~Full(b)
      BY <1>1, <1>5 DEF Refuse, Finish, None, Unparsed, ApiInv, Shape, TypeOK
    <2>2. ASSUME NEW a \in Address, q.from # a \/ ~IsApi(q.path)
          PROVE  Waiting(a)'
      <3>1. Recent(a)' \subseteq Recent(a) /\ Ancient(a)' \subseteq Ancient(a)
        BY <1>2, <2>2 DEF Recent, Ancient, From
      <3> QED BY <1>3, <3>1, FewerWait DEF Queue
    <2>3. ASSUME NEW a \in Address, q.from = a, IsApi(q.path)
          PROVE  Waiting(a)'
      <3>1. <<"ip", a>> \in Meets(q)
        BY <2>1, <2>3 DEF Meets
      <3>2. count[<<"ip", a>>] < MaxRequests /\ count'[<<"ip", a>>] = count[<<"ip", a>>] + 1
        <4>1. <<"ip", a>> \in Bucket
          BY DEF Bucket
        <4>2. count'[<<"ip", a>>] = count[<<"ip", a>>] + 1
          BY <1>1, <2>1, <3>1, <4>1
        <4>3. ~Full(<<"ip", a>>) /\ <<"ip", a>>[1] = "ip"
          BY <2>1, <3>1
        <4>4. ~(count[<<"ip", a>>] >= MaxRequests)
          BY <4>3, Zenon DEF Full, Limit
        <4>5. MaxRequests \in Nat
          BY ApiAssumption
        <4> QED BY <1>3, <4>2, <4>4, <4>5
      <3>3. Recent(a)' \subseteq Recent(a) \union {r} /\ Ancient(a)' \subseteq Ancient(a)
        BY <1>2, <1>5, <2>3 DEF Recent, Ancient, From
      <3>4. /\ IsFiniteSet(Recent(a) \union {r})
            /\ Cardinality(Recent(a) \union {r}) <= Cardinality(Recent(a)) + 1
            /\ Cardinality(Recent(a) \union {r}) \in Nat
        <4>1. IsFiniteSet(Recent(a)) /\ Cardinality(Recent(a)) \in Nat
          BY FromFacts
        <4>2. /\ IsFiniteSet(Recent(a) \union {r})
              /\ Cardinality(Recent(a) \union {r}) =
                   IF r \in Recent(a) THEN Cardinality(Recent(a)) ELSE Cardinality(Recent(a)) + 1
          BY <4>1, FS_AddElement
        <4> QED BY <4>1, <4>2
      <3>5. /\ Cardinality(Recent(a)') <= Cardinality(Recent(a)) + 1 /\ Cardinality(Recent(a)') \in Nat
        BY <3>3, <3>4, FromFacts, FS_Subset, FS_CardinalityType
      <3>6. Cardinality(Ancient(a)') <= Cardinality(Ancient(a)) /\ Cardinality(Ancient(a)') \in Nat
        BY <3>3, FromFacts, FS_Subset, FS_CardinalityType
      <3>7. Waiting(a)
        BY DEF Queue
      <3>8. Cardinality(Recent(a)) \in Nat /\ Cardinality(Ancient(a)) \in Nat /\ MaxRequests \in Nat
        BY FromFacts, ApiAssumption
      <3>9. Cardinality(Recent(a)') <= count'[<<"ip", a>>] /\ Cardinality(Recent(a)') <= MaxRequests
        BY <1>3, <3>2, <3>5, <3>7, <3>8 DEF Waiting
      <3>10. Cardinality(Ancient(a)') <= MaxRequests
        BY <3>6, <3>7, <3>8 DEF Waiting
      <3> QED BY <3>9, <3>10 DEF Waiting
    <2>4. \A s \in Request : old'[s] => pc'[s] = "held"
      BY <1>2 DEF Queue
    <2> QED BY <2>2, <2>3, <2>4 DEF Queue
  <1> QED BY <1>4, <1>5

LEMMA NewWindowQueues ==
  ASSUME ApiInv, ApiInv', Queue, NEW b \in Bucket, NewWindow(b)
  PROVE  Queue'
  <1>1. /\ \A s \in Request : pc'[s] = pc[s] /\ req'[s] = req[s]
        /\ \A a : From(a)' = From(a)
    BY DEF NewWindow, From
  <1>2. \A s \in Request : old'[s] <=> old[s] \/ (b[1] = "ip" /\ s \in From(b[2]))
    BY Zenon DEF NewWindow
  <1>3. \A s \in Request : old'[s] => pc'[s] = "held"
    BY <1>1, <1>2 DEF Queue, From
  <1>4. \A a \in Address : count[<<"ip", a>>] \in Nat /\ count'[<<"ip", a>>] \in Nat
    BY DEF ApiInv, Shape, TypeOK, Bucket
  <1>5. ASSUME NEW a \in Address, b = <<"ip", a>>
        PROVE  Waiting(a)'
    <2>1. Recent(a)' = {} /\ Ancient(a)' \subseteq Recent(a)
      BY <1>1, <1>2, <1>5 DEF Recent, Ancient, From, NewWindow
    <2>2. Cardinality(Recent(a)') = 0
      BY <2>1, FS_EmptySet
    <2>3. Cardinality(Ancient(a)') <= Cardinality(Recent(a)) /\ Cardinality(Ancient(a)') \in Nat
      BY <2>1, FromFacts, FS_Subset, FS_CardinalityType
    <2>4. Waiting(a) /\ Cardinality(Recent(a)) \in Nat /\ MaxRequests \in Nat
      BY FromFacts, ApiAssumption DEF Queue
    <2> QED BY <1>4, <2>2, <2>3, <2>4 DEF Waiting
  <1>6. ASSUME NEW a \in Address, b # <<"ip", a>>
        PROVE  Waiting(a)'
    <2>1. b[1] = "ip" => b[2] # a
      BY <1>6 DEF Bucket
    <2>2. From(a) \intersect {s \in Request : b[1] = "ip" /\ s \in From(b[2])} = {}
      BY <2>1 DEF From
    <2>3. Recent(a)' \subseteq Recent(a) /\ Ancient(a)' \subseteq Ancient(a)
      BY <1>1, <1>2, <2>2 DEF Recent, Ancient, From
    <2>4. count'[<<"ip", a>>] = count[<<"ip", a>>]
      BY <1>6 DEF NewWindow, ApiInv, Shape, TypeOK, Bucket
    <2> QED BY <1>4, <2>3, <2>4, FewerWait DEF Queue
  <1> QED BY <1>3, <1>5, <1>6 DEF Queue

LEMMA QueueStep == ApiInv /\ ApiInv' /\ Queue /\ [Next]_vars => Queue'
  <1> SUFFICES ASSUME ApiInv, ApiInv', Queue, [Next]_vars
               PROVE  Queue'
    OBVIOUS
  <1>1. ASSUME NEW r \in Request, Arrive(r) PROVE Queue'
    BY <1>1, ArriveQueues
  <1>2. \A a \in Address : count[<<"ip", a>>] \in Nat
    BY DEF ApiInv, Shape, TypeOK, Bucket
  <1>3. ASSUME NEW r \in Request, Release(r) PROVE Queue'
    <2>1. /\ pc'[r] # "held" /\ ~old'[r] /\ req' = req /\ count' = count
          /\ \A s \in Request \ {r} : pc'[s] = pc[s] /\ old'[s] = old[s]
      BY <1>3 DEF Release, Enter, ApiInv, Shape, TypeOK
    <2> QED BY <1>2, <2>1, OutOfTheDelay
  <1>4. ASSUME NEW r \in Request,
               Authenticate(r) \/ CheckRole(r) \/ ValidateBody(r) \/ Paginate(r) \/ Upload(r) \/ Handle(r)
        PROVE  Queue'
    <2>1. /\ pc[r] = "guards" /\ UNCHANGED <<req, count, old>>
          /\ \/ UNCHANGED pc
             \/ pc' = [pc EXCEPT ![r] = "done"]
      BY <1>4 DEF Authenticate, CheckRole, ValidateBody, Paginate, Upload, Check, Handle,
                  AtGuard, Pass, Refuse, Finish
    <2>2. pc'[r] # "held" /\ ~old'[r] /\ \A s \in Request \ {r} : pc'[s] = pc[s]
      BY <2>1 DEF Queue, ApiInv, Shape, TypeOK
    <2> QED BY <1>2, <2>1, <2>2, OutOfTheDelay
  <1>5. ASSUME NEW c \in Credential, Lapse(c) PROVE Queue'
    BY <1>5 DEF Lapse, Queue, Waiting, Recent, Ancient, From
  <1>6. ASSUME NEW b \in Bucket, NewWindow(b) PROVE Queue'
    BY <1>6, NewWindowQueues
  <1>7. CASE UNCHANGED vars
    BY <1>7 DEF vars, Queue, Waiting, Recent, Ancient, From
  <1> QED BY <1>1, <1>3, <1>4, <1>5, <1>6, <1>7 DEF Next

LEMMA QueueInit == Init => Queue
  <1> SUFFICES ASSUME Init PROVE Queue
    OBVIOUS
  <1>1. \A a : Recent(a) = {} /\ Ancient(a) = {}
    BY DEF Init, Recent, Ancient, From
  <1>2. \A a \in Address : count[<<"ip", a>>] = 0
    BY DEF Init, Bucket
  <1>3. Cardinality({}) = 0
    BY FS_EmptySet
  <1>4. \A r \in Request : ~old[r]
    BY DEF Init
  <1>5. MaxRequests \in Nat
    BY ApiAssumption
  <1>6. ASSUME NEW a \in Address PROVE Waiting(a)
    <2>1. Cardinality(Recent(a)) = 0 /\ Cardinality(Ancient(a)) = 0 /\ count[<<"ip", a>>] = 0
      BY <1>1, <1>2, <1>3
    <2> QED BY <1>5, <2>1 DEF Waiting
  <1> QED BY <1>4, <1>6 DEF Queue

(* At any limit an address has at most the requests of two windows waiting *)
(* in the delay.                                                           *)
THEOREM DelayIsBounded == Spec => []HeldIsBounded
  <1>1. ApiInv /\ Queue => HeldIsBounded
    <2> SUFFICES ASSUME Queue, NEW a \in Address
                 PROVE  Cardinality(From(a)) <= 2 * MaxRequests
      BY DEF HeldIsBounded
    <2>1. Waiting(a) /\ MaxRequests \in Nat /\ Cardinality(From(a)) \in Nat
      BY ApiAssumption, FromFacts, FS_CardinalityType DEF Queue
    <2> QED BY <2>1, FromFacts DEF Waiting
  <1> QED BY <1>1, ApiInvariant, QueueInit, QueueStep, PTL DEF Spec

-----------------------------------------------------------------------------
(* Where the methods of the SDK end: their paths, taken apart.             *)
LEMMA Spelled ==
  ASSUME NEW S, NEW v \in Seq(S)
  PROVE  /\ Len(v) = 1 => v = <<v[1]>>
         /\ Len(v) = 2 => v = <<v[1], v[2]>>
         /\ Len(v) = 3 => v = <<v[1], v[2], v[3]>>
         /\ Len(v) = 4 => v = <<v[1], v[2], v[3], v[4]>>
  <1>1. Len(v) = 1 => v = <<v[1]>>
    OBVIOUS
  <1>2. Len(v) = 2 => v = <<v[1], v[2]>>
    OBVIOUS
  <1>3. Len(v) = 3 => v = <<v[1], v[2], v[3]>>
    OBVIOUS
  <1>4. Len(v) = 4 => v = <<v[1], v[2], v[3], v[4]>>
    OBVIOUS
  <1> QED BY <1>1, <1>2, <1>3, <1>4

LEMMA Joined ==
  ASSUME NEW a, NEW b, NEW c, NEW d
  PROVE  /\ <<a>> \o <<b>> = <<a, b>>
         /\ <<a>> \o <<b, c>> = <<a, b, c>>
         /\ <<a>> \o <<b, c, d>> = <<a, b, c, d>>
  <1> DEFINE S == {a, b, c, d}
  <1>1. /\ <<a>> \in Seq(S) /\ <<b>> \in Seq(S) /\ <<b, c>> \in Seq(S)
        /\ <<b, c, d>> \in Seq(S)
    OBVIOUS
  <1>2. <<a>> \o <<b>> = <<a, b>>
    <2> DEFINE rest == <<b>>
               v == <<a>> \o rest
    <2>1. /\ v \in Seq(S) /\ Len(v) = 2
          /\ \A i \in 1..2 : v[i] = IF i <= 1 THEN <<a>>[i] ELSE rest[i - 1]
      BY <1>1, ConcatProperties
    <2>2. v[1] = a /\ v[2] = b
      BY <2>1
    <2>3. v = <<a, b>>
      <3> HIDE DEF v
      <3> QED BY <2>1, <2>2, Spelled
    <2> QED BY <2>3
  <1>3. <<a>> \o <<b, c>> = <<a, b, c>>
    <2> DEFINE rest == <<b, c>>
               v == <<a>> \o rest
    <2>1. /\ v \in Seq(S) /\ Len(v) = 3
          /\ \A i \in 1..3 : v[i] = IF i <= 1 THEN <<a>>[i] ELSE rest[i - 1]
      BY <1>1, ConcatProperties
    <2>2. v[1] = a /\ v[2] = b /\ v[3] = c
      BY <2>1
    <2>3. v = <<a, b, c>>
      <3> HIDE DEF v
      <3> QED BY <2>1, <2>2, Spelled
    <2> QED BY <2>3
  <1>4. <<a>> \o <<b, c, d>> = <<a, b, c, d>>
    <2> DEFINE rest == <<b, c, d>>
               v == <<a>> \o rest
    <2>1. /\ v \in Seq(S) /\ Len(v) = 4
          /\ \A i \in 1..4 : v[i] = IF i <= 1 THEN <<a>>[i] ELSE rest[i - 1]
      BY <1>1, ConcatProperties
    <2>2. v[1] = a /\ v[2] = b /\ v[3] = c /\ v[4] = d
      BY <2>1
    <2>3. v = <<a, b, c, d>>
      <3> HIDE DEF v
      <3> QED BY <2>1, <2>2, Spelled
    <2> QED BY <2>3
  <1> QED BY <1>2, <1>3, <1>4

(* A path under /api/v1, the mount it falls under and what is left of it.  *)
Splits(path, mount, rest) ==
  /\ path[1] = "v1" /\ 1 <= Len(Tail(path)) /\ Tail(path)[1] = mount
  /\ SubSeq(path, 3, Len(path)) = rest

LEMMA MethodSplits ==
  ASSUME NEW mount, NEW a, NEW b
  PROVE  /\ Splits(<<"v1">> \o <<mount>>, mount, <<>>)
         /\ Splits(<<"v1">> \o <<mount, a>>, mount, <<a>>)
         /\ Splits(<<"v1">> \o <<mount, a, b>>, mount, <<a, b>>)
  <1> DEFINE S == {"v1", mount, a, b}
  <1>1. Splits(<<"v1", mount>>, mount, <<>>)
    <2>1. SubSeq(<<"v1", mount>>, 3, 2) = <<>>
      BY SubSeqEmpty
    <2> QED BY <2>1 DEF Splits
  <1>2. Splits(<<"v1", mount, a>>, mount, <<a>>)
    <2> DEFINE s == <<"v1", mount, a>>
               rest == SubSeq(s, 3, 3)
    <2>1. s \in Seq(S) /\ s[3] = a /\ \A i \in 3..3 : s[i] \in S
      OBVIOUS
    <2>2. rest \in Seq(S) /\ Len(rest) = 1 /\ rest[1] = a
      BY <2>1, SubSeqProperties
    <2>3. rest = <<a>>
      BY <2>2, Spelled
    <2> QED BY <2>3 DEF Splits
  <1>3. Splits(<<"v1", mount, a, b>>, mount, <<a, b>>)
    <2> DEFINE s == <<"v1", mount, a, b>>
               rest == SubSeq(s, 3, 4)
    <2>1. s \in Seq(S) /\ s[3] = a /\ s[4] = b /\ \A i \in 3..4 : s[i] \in S
      OBVIOUS
    <2>2. rest \in Seq(S) /\ Len(rest) = 2 /\ \A i \in 1..2 : rest[i] = s[3 + i - 1]
      BY <2>1, SubSeqProperties
    <2>3. rest[1] = a /\ rest[2] = b
      BY <2>1, <2>2
    <2>4. rest = <<a, b>>
      BY <2>2, <2>3, Spelled
    <2> QED BY <2>4 DEF Splits
  <1>4. /\ <<"v1">> \o <<mount>> = <<"v1", mount>>
        /\ <<"v1">> \o <<mount, a>> = <<"v1", mount, a>>
        /\ <<"v1">> \o <<mount, a, b>> = <<"v1", mount, a, b>>
    BY Joined
  <1> QED BY <1>1, <1>2, <1>3, <1>4

(* Mount paths exclude each other.                                         *)
Mounts == <<"auth", "accounts", "transactions", "wallets", "payment-methods", "beneficiaries",
            "statements", "notifications", "files", "webhooks", "test", "bulk", "users">>

LEMMA MountsExclude ==
  /\ Len(V1) \in Nat
  /\ \A i \in 1..Len(V1) : Len(V1[i].mount) = 1
  /\ \A i, j \in 1..Len(V1) : V1[i].mount[1] = V1[j].mount[1] => i = j
  <1>1. \A i \in 1..Len(V1) : Len(V1[i].mount) = 1
    BY DEF V1, Router
  <1>2. Len(V1) = 13
    BY DEF V1
  <1>3. \A i \in 1..Len(V1) : V1[i].mount[1] = Mounts[i]
    BY DEF V1, Router, Mounts
  <1>4. \A i, j \in 1..13 : Mounts[i] = Mounts[j] => i = j
    BY DEF Mounts
  <1> QED BY <1>1, <1>2, <1>3, <1>4

LEMMA FirstIs ==
  ASSUME NEW S, S \subseteq Nat, NEW i \in S, \A j \in S : i <= j
  PROVE  First(S) = i
  <1>1. \E k \in S : \A j \in S : k <= j
    OBVIOUS
  <1>2. ASSUME NEW k \in S, \A j \in S : k <= j PROVE k = i
    <2>1. k <= i /\ i <= k /\ k \in Nat /\ i \in Nat
      BY <1>2
    <2> QED BY <2>1
  <1> QED BY <1>1, <1>2 DEF First

(* The route at k is the first that fits, and leads to handler.            *)
Leads(routes, k, verb, rest, handler) ==
  /\ k \in 1..Len(routes) /\ routes[k].handler = handler
  /\ routes[k].verb = verb /\ Matches(routes[k].path, rest)
  /\ \A i \in 1..Len(routes) :
       routes[i].verb = verb /\ Matches(routes[i].path, rest) => k <= i

(* What stands before a method of the SDK, and what is left of it on the   *)
(* way.                                                                    *)
Roads == {<<>>, <<"body">>, <<"auth">>, <<"auth", "body">>, <<"auth", "query">>,
          <<"auth", "file">>, <<"auth", "admin">>}
OwnGuards == {<<>>, <<"body">>, <<"query">>, <<"file">>, <<"admin">>}

Paved(router) == \A i \in 1..Len(router.routes) : router.use \o router.routes[i].guards \in Roads

LEMMA PavedBehindAuth ==
  ASSUME NEW mount, NEW routes, \A i \in 1..Len(routes) : routes[i].guards \in OwnGuards
  PROVE  Paved(Router(mount, <<"auth">>, routes))
  <1>1. /\ <<"auth">> \o <<"body">> = <<"auth", "body">>
        /\ <<"auth">> \o <<"query">> = <<"auth", "query">>
        /\ <<"auth">> \o <<"file">> = <<"auth", "file">>
        /\ <<"auth">> \o <<"admin">> = <<"auth", "admin">>
    BY Joined
  <1>2. <<"auth">> \o <<>> = <<"auth">>
    <2>1. <<"auth">> \in Seq(Guard)
      BY DEF Guard
    <2> QED BY <2>1, ConcatEmptySeq
  <1>3. ASSUME NEW i \in 1..Len(routes) PROVE <<"auth">> \o routes[i].guards \in Roads
    <2>1. routes[i].guards \in OwnGuards
      OBVIOUS
    <2> QED BY <1>1, <1>2, <2>1 DEF OwnGuards, Roads
  <1> QED BY <1>3 DEF Paved, Router

LEMMA PavedBehindNothing ==
  ASSUME NEW mount, NEW routes, \A i \in 1..Len(routes) : routes[i].guards \in Roads
  PROVE  Paved(Router(mount, <<>>, routes))
  <1>1. Roads \subseteq Seq(Guard)
    BY DEF Roads, Guard
  <1>2. ASSUME NEW i \in 1..Len(routes) PROVE <<>> \o routes[i].guards \in Roads
    BY <1>1, ConcatEmptySeq
  <1> QED BY <1>2 DEF Paved, Router

LEMMA V1IsPaved == \A i \in 1..Len(V1) : Paved(V1[i])
  <1>1. Paved(Router(<<"auth">>, <<>>, AuthRoutes))
    <2>1. \A i \in 1..Len(AuthRoutes) : AuthRoutes[i].guards \in Roads
      BY DEF AuthRoutes, On, Roads
    <2> QED BY <2>1, PavedBehindNothing
  <1>2. Paved(Router(<<"accounts">>, <<"auth">>, AccountsRoutes))
    <2>1. \A i \in 1..Len(AccountsRoutes) : AccountsRoutes[i].guards \in OwnGuards
      BY DEF AccountsRoutes, On, OwnGuards
    <2> QED BY <2>1, PavedBehindAuth
  <1>3. Paved(Router(<<"transactions">>, <<"auth">>, TransactionsRoutes))
    <2>1. \A i \in 1..Len(TransactionsRoutes) : TransactionsRoutes[i].guards \in OwnGuards
      BY DEF TransactionsRoutes, On, OwnGuards
    <2> QED BY <2>1, PavedBehindAuth
  <1>4. Paved(Router(<<"wallets">>, <<"auth">>, WalletsRoutes))
    <2>1. \A i \in 1..Len(WalletsRoutes) : WalletsRoutes[i].guards \in OwnGuards
      BY DEF WalletsRoutes, On, OwnGuards
    <2> QED BY <2>1, PavedBehindAuth
  <1>5. Paved(Router(<<"payment-methods">>, <<"auth">>, PaymentMethodsRoutes))
    <2>1. \A i \in 1..Len(PaymentMethodsRoutes) : PaymentMethodsRoutes[i].guards \in OwnGuards
      BY DEF PaymentMethodsRoutes, On, OwnGuards
    <2> QED BY <2>1, PavedBehindAuth
  <1>6. Paved(Router(<<"beneficiaries">>, <<"auth">>, BeneficiariesRoutes))
    <2>1. \A i \in 1..Len(BeneficiariesRoutes) : BeneficiariesRoutes[i].guards \in OwnGuards
      BY DEF BeneficiariesRoutes, On, OwnGuards
    <2> QED BY <2>1, PavedBehindAuth
  <1>7. Paved(Router(<<"statements">>, <<"auth">>, StatementsRoutes))
    <2>1. \A i \in 1..Len(StatementsRoutes) : StatementsRoutes[i].guards \in OwnGuards
      BY DEF StatementsRoutes, On, OwnGuards
    <2> QED BY <2>1, PavedBehindAuth
  <1>8. Paved(Router(<<"notifications">>, <<"auth">>, NotificationsRoutes))
    <2>1. \A i \in 1..Len(NotificationsRoutes) : NotificationsRoutes[i].guards \in OwnGuards
      BY DEF NotificationsRoutes, On, OwnGuards
    <2> QED BY <2>1, PavedBehindAuth
  <1>9. Paved(Router(<<"files">>, <<"auth">>, FilesRoutes))
    <2>1. \A i \in 1..Len(FilesRoutes) : FilesRoutes[i].guards \in OwnGuards
      BY DEF FilesRoutes, On, OwnGuards
    <2> QED BY <2>1, PavedBehindAuth
  <1>10. Paved(Router(<<"webhooks">>, <<"auth">>, WebhooksRoutes))
    <2>1. \A i \in 1..Len(WebhooksRoutes) : WebhooksRoutes[i].guards \in OwnGuards
      BY DEF WebhooksRoutes, On, OwnGuards
    <2> QED BY <2>1, PavedBehindAuth
  <1>11. Paved(Router(<<"test">>, <<>>, TestRoutes))
    <2>1. \A i \in 1..Len(TestRoutes) : TestRoutes[i].guards \in Roads
      BY DEF TestRoutes, On, Roads
    <2> QED BY <2>1, PavedBehindNothing
  <1>12. Paved(Router(<<"bulk">>, <<"auth">>, BulkRoutes))
    <2>1. \A i \in 1..Len(BulkRoutes) : BulkRoutes[i].guards \in OwnGuards
      BY DEF BulkRoutes, On, OwnGuards
    <2> QED BY <2>1, PavedBehindAuth
  <1>13. Paved(Router(<<"users">>, <<>>, UsersRoutes))
    <2>1. \A i \in 1..Len(UsersRoutes) : UsersRoutes[i].guards \in Roads
      BY DEF UsersRoutes, On, Roads
    <2> QED BY <2>1, PavedBehindNothing
  <1> QED BY <1>1, <1>2, <1>3, <1>4, <1>5, <1>6, <1>7, <1>8, <1>9, <1>10, <1>11, <1>12, <1>13 DEF V1

Mounted(mount, routes) ==
  \E j \in 1..Len(V1) : V1[j].mount[1] = mount /\ V1[j].routes = routes

LEMMA Arrival ==
  ASSUME NEW mount, NEW routes, Mounted(mount, routes),
         NEW path, NEW rest, Splits(path, mount, rest),
         NEW k, NEW verb, NEW handler, Leads(routes, k, verb, rest, handler)
  PROVE  Resolve(verb, path).handler = handler /\ Resolve(verb, path).guards \in Roads
  <1>1. PICK j \in 1..Len(V1) : V1[j].mount[1] = mount /\ V1[j].routes = routes
    BY DEF Mounted
  <1> USE <1>1
  <1>2. Routers(path) = V1
    BY DEF Routers, Splits
  <1>3. \A i \in 1..Len(V1) : Under(V1[i].mount, Tail(path)) <=> i = j
    <2> SUFFICES ASSUME NEW i \in 1..Len(V1)
                 PROVE  Under(V1[i].mount, Tail(path)) <=> i = j
      OBVIOUS
    <2>1. Len(V1[i].mount) = 1 /\ 1..1 = {1}
      BY MountsExclude
    <2>2. 1 <= Len(Tail(path))
      BY DEF Splits
    <2>3. Under(V1[i].mount, Tail(path)) <=> V1[i].mount[1] = V1[j].mount[1]
      BY <2>1, <2>2 DEF Under, Splits
    <2> QED BY <2>3, MountsExclude
  <1> DEFINE entered == {i \in 1..Len(V1) : Under(V1[i].mount, Tail(path))}
             fit == {i \in 1..Len(V1[j].routes) :
                       V1[j].routes[i].verb = verb /\ Matches(V1[j].routes[i].path, rest)}
  <1>4. entered \subseteq Nat /\ j \in entered /\ \A i \in entered : j <= i
    BY <1>3, MountsExclude
  <1>5. First(entered) = j
    <2> HIDE DEF entered
    <2> QED BY <1>4, FirstIs
  <1>6. RouterOf(path) = j
    BY <1>2, <1>5 DEF RouterOf
  <1>7. SubSeq(path, 2 + Len(V1[j].mount), Len(path)) = rest
    <2>1. Len(V1[j].mount) = 1
      BY MountsExclude
    <2> QED BY <2>1 DEF Splits
  <1>8. fit \subseteq Nat /\ k \in fit /\ \A i \in fit : k <= i
    BY DEF Leads
  <1>9. First(fit) = k
    <2> HIDE DEF fit
    <2> QED BY <1>8, FirstIs
  <1>10. RouteOf(V1[j], verb, path) = k
    BY <1>7, <1>9 DEF RouteOf
  <1>11. j # 0 /\ k # 0 /\ V1[j].routes[k].handler = handler
    BY DEF Leads
  <1>12. V1[j].use \o V1[j].routes[k].guards \in Roads
    BY V1IsPaved DEF Leads, Paved
  <1> QED BY <1>2, <1>6, <1>10, <1>11, <1>12 DEF Resolve

(* A method of the SDK ends in the handler it is meant for.                *)
Arrives(m) ==
  LET found == Resolve(m.verb, m.path) IN found.handler = m.handler /\ found.guards \in Roads

LEMMA MethodArrives ==
  ASSUME NEW mount, NEW routes, Mounted(mount, routes),
         NEW a, NEW b, NEW k, NEW name, NEW verb, NEW handler
  PROVE  /\ Leads(routes, k, verb, <<>>, handler) => Arrives(Method(name, verb, <<mount>>, handler))
         /\ Leads(routes, k, verb, <<a>>, handler) => Arrives(Method(name, verb, <<mount, a>>, handler))
         /\ Leads(routes, k, verb, <<a, b>>, handler) => Arrives(Method(name, verb, <<mount, a, b>>, handler))
  <1>1. ASSUME NEW rest, NEW path, Leads(routes, k, verb, rest, handler), Splits(path, mount, rest)
        PROVE  Resolve(verb, path).handler = handler /\ Resolve(verb, path).guards \in Roads
    BY <1>1, Arrival
  <1>2. /\ Splits(<<"v1">> \o <<mount>>, mount, <<>>)
        /\ Splits(<<"v1">> \o <<mount, a>>, mount, <<a>>)
        /\ Splits(<<"v1">> \o <<mount, a, b>>, mount, <<a, b>>)
    BY MethodSplits
  <1>3. Leads(routes, k, verb, <<>>, handler) => Arrives(Method(name, verb, <<mount>>, handler))
    BY <1>1, <1>2 DEF Arrives, Method
  <1>4. Leads(routes, k, verb, <<a>>, handler) => Arrives(Method(name, verb, <<mount, a>>, handler))
    BY <1>1, <1>2 DEF Arrives, Method
  <1>5. Leads(routes, k, verb, <<a, b>>, handler) => Arrives(Method(name, verb, <<mount, a, b>>, handler))
    BY <1>1, <1>2 DEF Arrives, Method
  <1> QED BY <1>3, <1>4, <1>5

LEMMA AuthArrive == \A m \in SdkAuth : Arrives(m)
  <1>1. /\ Arrives(Method("register", "POST", <<"auth", "register">>, "register"))
        /\ Arrives(Method("login", "POST", <<"auth", "login">>, "login"))
        /\ Arrives(Method("refresh", "POST", <<"auth", "refresh">>, "refreshToken"))
        /\ Arrives(Method("generateApiKey", "POST", <<"auth", "api-keys">>, "generateApiKey"))
        /\ Arrives(Method("revokeApiKey", "DELETE", <<"auth", "api-keys", Arg>>, "revokeApiKey"))
    <2>1. Mounted("auth", AuthRoutes)
      <3>1. 1 \in 1..Len(V1) /\ V1[1].mount[1] = "auth" /\ V1[1].routes = AuthRoutes
        BY DEF V1, Router
      <3> QED BY <3>1 DEF Mounted
    <2>2. /\ Leads(AuthRoutes, 1, "POST", <<"register">>, "register")
          /\ Leads(AuthRoutes, 2, "POST", <<"login">>, "login")
          /\ Leads(AuthRoutes, 3, "POST", <<"refresh">>, "refreshToken")
          /\ Leads(AuthRoutes, 4, "POST", <<"api-keys">>, "generateApiKey")
          /\ Leads(AuthRoutes, 5, "DELETE", <<"api-keys", Arg>>, "revokeApiKey")
      BY DEF Leads, Matches, AuthRoutes, On, Arg
    <2> QED BY <2>1, <2>2, MethodArrives
  <1> QED BY <1>1 DEF SdkAuth

LEMMA MoneyArrive == \A m \in SdkMoney : Arrives(m)
  <1>1. /\ Arrives(Method("createAccount", "POST", <<"accounts">>, "createAccount"))
        /\ Arrives(Method("listAccounts", "GET", <<"accounts">>, "listAccounts"))
        /\ Arrives(Method("getAccount", "GET", <<"accounts", Arg>>, "getAccount"))
        /\ Arrives(Method("updateAccount", "PUT", <<"accounts", Arg>>, "updateAccount"))
        /\ Arrives(Method("deleteAccount", "DELETE", <<"accounts", Arg>>, "deleteAccount"))
    <2>1. Mounted("accounts", AccountsRoutes)
      <3>1. 2 \in 1..Len(V1) /\ V1[2].mount[1] = "accounts" /\ V1[2].routes = AccountsRoutes
        BY DEF V1, Router
      <3> QED BY <3>1 DEF Mounted
    <2>2. /\ Leads(AccountsRoutes, 1, "POST", <<>>, "createAccount")
          /\ Leads(AccountsRoutes, 2, "GET", <<>>, "listAccounts")
          /\ Leads(AccountsRoutes, 3, "GET", <<Arg>>, "getAccount")
          /\ Leads(AccountsRoutes, 4, "PUT", <<Arg>>, "updateAccount")
          /\ Leads(AccountsRoutes, 5, "DELETE", <<Arg>>, "deleteAccount")
      BY DEF Leads, Matches, AccountsRoutes, On, Arg
    <2> QED BY <2>1, <2>2, MethodArrives
  <1>2. /\ Arrives(Method("deposit", "POST", <<"transactions", "deposit">>, "deposit"))
        /\ Arrives(Method("withdraw", "POST", <<"transactions", "withdraw">>, "withdraw"))
        /\ Arrives(Method("transfer", "POST", <<"transactions", "transfer">>, "transfer"))
        /\ Arrives(Method("listTransactions", "GET", <<"transactions">>, "listTransactions"))
        /\ Arrives(Method("getTransactionByReference", "GET", <<"transactions", "reference", Arg>>, "getTransactionByReference"))
    <2>1. Mounted("transactions", TransactionsRoutes)
      <3>1. 3 \in 1..Len(V1) /\ V1[3].mount[1] = "transactions" /\ V1[3].routes = TransactionsRoutes
        BY DEF V1, Router
      <3> QED BY <3>1 DEF Mounted
    <2>2. /\ Leads(TransactionsRoutes, 1, "POST", <<"deposit">>, "deposit")
          /\ Leads(TransactionsRoutes, 2, "POST", <<"withdraw">>, "withdraw")
          /\ Leads(TransactionsRoutes, 3, "POST", <<"transfer">>, "transfer")
          /\ Leads(TransactionsRoutes, 4, "GET", <<>>, "listTransactions")
          /\ Leads(TransactionsRoutes, 5, "GET", <<"reference", Arg>>, "getTransactionByReference")
      BY DEF Leads, Matches, TransactionsRoutes, On, Arg
    <2> QED BY <2>1, <2>2, MethodArrives
  <1> QED BY <1>1, <1>2 DEF SdkMoney

LEMMA PaymentsArrive == \A m \in SdkPayments : Arrives(m)
  <1>1. /\ Arrives(Method("createWallet", "POST", <<"wallets">>, "createWallet"))
        /\ Arrives(Method("listWallets", "GET", <<"wallets">>, "listWallets"))
        /\ Arrives(Method("getWallet", "GET", <<"wallets", Arg>>, "getWalletDetails"))
        /\ Arrives(Method("linkPaymentMethod", "POST", <<"wallets", Arg, "payment-methods">>, "linkPaymentMethod"))
    <2>1. Mounted("wallets", WalletsRoutes)
      <3>1. 4 \in 1..Len(V1) /\ V1[4].mount[1] = "wallets" /\ V1[4].routes = WalletsRoutes
        BY DEF V1, Router
      <3> QED BY <3>1 DEF Mounted
    <2>2. /\ Leads(WalletsRoutes, 1, "POST", <<>>, "createWallet")
          /\ Leads(WalletsRoutes, 2, "GET", <<>>, "listWallets")
          /\ Leads(WalletsRoutes, 3, "GET", <<Arg>>, "getWalletDetails")
          /\ Leads(WalletsRoutes, 4, "POST", <<Arg, "payment-methods">>, "linkPaymentMethod")
      BY DEF Leads, Matches, WalletsRoutes, On, Arg
    <2> QED BY <2>1, <2>2, MethodArrives
  <1>2. /\ Arrives(Method("createPaymentMethod", "POST", <<"payment-methods">>, "createPaymentMethod"))
        /\ Arrives(Method("listPaymentMethods", "GET", <<"payment-methods">>, "listPaymentMethods"))
        /\ Arrives(Method("deletePaymentMethod", "DELETE", <<"payment-methods", Arg>>, "deletePaymentMethod"))
    <2>1. Mounted("payment-methods", PaymentMethodsRoutes)
      <3>1. 5 \in 1..Len(V1) /\ V1[5].mount[1] = "payment-methods" /\ V1[5].routes = PaymentMethodsRoutes
        BY DEF V1, Router
      <3> QED BY <3>1 DEF Mounted
    <2>2. /\ Leads(PaymentMethodsRoutes, 1, "POST", <<>>, "createPaymentMethod")
          /\ Leads(PaymentMethodsRoutes, 2, "GET", <<>>, "listPaymentMethods")
          /\ Leads(PaymentMethodsRoutes, 3, "DELETE", <<Arg>>, "deletePaymentMethod")
      BY DEF Leads, Matches, PaymentMethodsRoutes, On, Arg
    <2> QED BY <2>1, <2>2, MethodArrives
  <1>3. /\ Arrives(Method("createBeneficiary", "POST", <<"beneficiaries">>, "createBeneficiary"))
        /\ Arrives(Method("listBeneficiaries", "GET", <<"beneficiaries">>, "listBeneficiaries"))
        /\ Arrives(Method("deleteBeneficiary", "DELETE", <<"beneficiaries", Arg>>, "deleteBeneficiary"))
    <2>1. Mounted("beneficiaries", BeneficiariesRoutes)
      <3>1. 6 \in 1..Len(V1) /\ V1[6].mount[1] = "beneficiaries" /\ V1[6].routes = BeneficiariesRoutes
        BY DEF V1, Router
      <3> QED BY <3>1 DEF Mounted
    <2>2. /\ Leads(BeneficiariesRoutes, 1, "POST", <<>>, "createBeneficiary")
          /\ Leads(BeneficiariesRoutes, 2, "GET", <<>>, "listBeneficiaries")
          /\ Leads(BeneficiariesRoutes, 3, "DELETE", <<Arg>>, "deleteBeneficiary")
      BY DEF Leads, Matches, BeneficiariesRoutes, On, Arg
    <2> QED BY <2>1, <2>2, MethodArrives
  <1> QED BY <1>1, <1>2, <1>3 DEF SdkPayments

LEMMA ReportsArrive == \A m \in SdkReports : Arrives(m)
  <1>1. /\ Arrives(Method("getStatement", "GET", <<"statements">>, "getStatement"))
        /\ Arrives(Method("downloadStatement", "GET", <<"statements">>, "getStatement"))
    <2>1. Mounted("statements", StatementsRoutes)
      <3>1. 7 \in 1..Len(V1) /\ V1[7].mount[1] = "statements" /\ V1[7].routes = StatementsRoutes
        BY DEF V1, Router
      <3> QED BY <3>1 DEF Mounted
    <2>2. Leads(StatementsRoutes, 1, "GET", <<>>, "getStatement")
      BY DEF Leads, Matches, StatementsRoutes, On, Arg
    <2> QED BY <2>1, <2>2, MethodArrives
  <1>2. /\ Arrives(Method("listNotifications", "GET", <<"notifications">>, "listNotifications"))
        /\ Arrives(Method("getUnreadNotificationCount", "GET", <<"notifications", "unread-count">>, "getUnreadCount"))
        /\ Arrives(Method("markNotificationAsRead", "PATCH", <<"notifications", Arg, "read">>, "markAsRead"))
    <2>1. Mounted("notifications", NotificationsRoutes)
      <3>1. 8 \in 1..Len(V1) /\ V1[8].mount[1] = "notifications" /\ V1[8].routes = NotificationsRoutes
        BY DEF V1, Router
      <3> QED BY <3>1 DEF Mounted
    <2>2. /\ Leads(NotificationsRoutes, 1, "GET", <<>>, "listNotifications")
          /\ Leads(NotificationsRoutes, 2, "GET", <<"unread-count">>, "getUnreadCount")
          /\ Leads(NotificationsRoutes, 3, "PATCH", <<Arg, "read">>, "markAsRead")
      BY DEF Leads, Matches, NotificationsRoutes, On, Arg
    <2> QED BY <2>1, <2>2, MethodArrives
  <1>3. /\ Arrives(Method("uploadFile", "POST", <<"files", "upload">>, "uploadFile"))
        /\ Arrives(Method("downloadFile", "GET", <<"files", Arg, "download">>, "downloadFile"))
    <2>1. Mounted("files", FilesRoutes)
      <3>1. 9 \in 1..Len(V1) /\ V1[9].mount[1] = "files" /\ V1[9].routes = FilesRoutes
        BY DEF V1, Router
      <3> QED BY <3>1 DEF Mounted
    <2>2. /\ Leads(FilesRoutes, 1, "POST", <<"upload">>, "uploadFile")
          /\ Leads(FilesRoutes, 2, "GET", <<Arg, "download">>, "downloadFile")
      BY DEF Leads, Matches, FilesRoutes, On, Arg
    <2> QED BY <2>1, <2>2, MethodArrives
  <1> QED BY <1>1, <1>2, <1>3 DEF SdkReports

LEMMA OtherArrive == \A m \in SdkOther : Arrives(m)
  <1>1. /\ Arrives(Method("registerWebhook", "POST", <<"webhooks">>, "registerWebhook"))
        /\ Arrives(Method("deleteWebhook", "DELETE", <<"webhooks", Arg>>, "deleteWebhook"))
        /\ Arrives(Method("getWebhookDeliveries", "GET", <<"webhooks", "deliveries">>, "getDeliveryHistory"))
    <2>1. Mounted("webhooks", WebhooksRoutes)
      <3>1. 10 \in 1..Len(V1) /\ V1[10].mount[1] = "webhooks" /\ V1[10].routes = WebhooksRoutes
        BY DEF V1, Router
      <3> QED BY <3>1 DEF Mounted
    <2>2. /\ Leads(WebhooksRoutes, 1, "POST", <<>>, "registerWebhook")
          /\ Leads(WebhooksRoutes, 2, "DELETE", <<Arg>>, "deleteWebhook")
          /\ Leads(WebhooksRoutes, 3, "GET", <<"deliveries">>, "getDeliveryHistory")
      BY DEF Leads, Matches, WebhooksRoutes, On, Arg
    <2> QED BY <2>1, <2>2, MethodArrives
  <1>2. /\ Arrives(Method("bulkCreate", "POST", <<"bulk", "create">>, "bulkCreate"))
        /\ Arrives(Method("bulkUpdate", "PUT", <<"bulk", "update">>, "bulkUpdate"))
        /\ Arrives(Method("bulkDelete", "DELETE", <<"bulk", "delete">>, "bulkDelete"))
    <2>1. Mounted("bulk", BulkRoutes)
      <3>1. 12 \in 1..Len(V1) /\ V1[12].mount[1] = "bulk" /\ V1[12].routes = BulkRoutes
        BY DEF V1, Router
      <3> QED BY <3>1 DEF Mounted
    <2>2. /\ Leads(BulkRoutes, 1, "POST", <<"create">>, "bulkCreate")
          /\ Leads(BulkRoutes, 2, "PUT", <<"update">>, "bulkUpdate")
          /\ Leads(BulkRoutes, 3, "DELETE", <<"delete">>, "bulkDelete")
      BY DEF Leads, Matches, BulkRoutes, On, Arg
    <2> QED BY <2>1, <2>2, MethodArrives
  <1>3. Arrives(Method("listUsers", "GET", <<"users">>, "listUsers"))
    <2>1. Mounted("users", UsersRoutes)
      <3>1. 13 \in 1..Len(V1) /\ V1[13].mount[1] = "users" /\ V1[13].routes = UsersRoutes
        BY DEF V1, Router
      <3> QED BY <3>1 DEF Mounted
    <2>2. Leads(UsersRoutes, 1, "GET", <<>>, "listUsers")
      BY DEF Leads, Matches, UsersRoutes, On, Arg
    <2> QED BY <2>1, <2>2, MethodArrives
  <1>4. /\ Arrives(Method("testSlow", "GET", <<"test", "slow">>, "slow"))
        /\ Arrives(Method("testError", "GET", <<"test", "error", Arg>>, "errorByCode"))
    <2>1. Mounted("test", TestRoutes)
      <3>1. 11 \in 1..Len(V1) /\ V1[11].mount[1] = "test" /\ V1[11].routes = TestRoutes
        BY DEF V1, Router
      <3> QED BY <3>1 DEF Mounted
    <2>2. /\ Leads(TestRoutes, 1, "GET", <<"slow">>, "slow")
          /\ Leads(TestRoutes, 2, "GET", <<"error", Arg>>, "errorByCode")
      BY DEF Leads, Matches, TestRoutes, On, Arg
    <2> QED BY <2>1, <2>2, MethodArrives
  <1> QED BY <1>1, <1>2, <1>3, <1>4 DEF SdkOther

LEMMA MethodsArrive == \A m \in SdkMethods : Arrives(m)
  BY AuthArrive, MoneyArrive, PaymentsArrive, ReportsArrive, OtherArrive DEF SdkMethods

(* Which methods are answered by their handler itself.                     *)
LEMMA MethodFacts ==
  \A m \in SdkMethods :
    /\ m.handler \notin {None, NotFound}
    /\ m.handler = "errorByCode" => m.name = "testError"
    /\ m.name = "getTransactionByReference" => m.handler = "getTransactionByReference"
  <1>1. \A m \in SdkAuth : /\ m.handler \notin {None, NotFound, "errorByCode"}
                           /\ m.name # "getTransactionByReference"
    BY DEF SdkAuth, Method, None, NotFound
  <1>2. \A m \in SdkMoney : /\ m.handler \notin {None, NotFound, "errorByCode"}
                            /\ m.name = "getTransactionByReference" => m.handler = "getTransactionByReference"
    BY DEF SdkMoney, Method, None, NotFound
  <1>3. \A m \in SdkPayments : /\ m.handler \notin {None, NotFound, "errorByCode"}
                               /\ m.name # "getTransactionByReference"
    BY DEF SdkPayments, Method, None, NotFound
  <1>4. \A m \in SdkReports : /\ m.handler \notin {None, NotFound, "errorByCode"}
                              /\ m.name # "getTransactionByReference"
    BY DEF SdkReports, Method, None, NotFound
  <1>5. \A m \in SdkOther : /\ m.handler \notin {None, NotFound}
                            /\ m.handler = "errorByCode" => m.name = "testError"
                            /\ m.name # "getTransactionByReference"
    BY DEF SdkOther, Method, None, NotFound
  <1> QED BY <1>1, <1>2, <1>3, <1>4, <1>5 DEF SdkMethods

(* A request of the SDK that is asked well.                                *)
Sound(q) == q.name # None /\ q.flaw = "none"

LEMMA SoundFacts ==
  ASSUME NEW r \in Request, NEW q \in Workload[r], q.name # None
  PROVE  /\ Resolve(q.verb, q.path).handler = q.handler
         /\ Resolve(q.verb, q.path).guards \in Roads
         /\ q.handler \notin {None, NotFound}
         /\ q.handler = "errorByCode" => q.name = "testError"
         /\ q.name = "getTransactionByReference" => q.handler = "getTransactionByReference"
         /\ q.account <=> q.name # "getTransactionByReference"
  <1>1. PICK m \in SdkMethods : q.name = m.name /\ q.handler = m.handler /\ q.verb = m.verb /\ q.path = m.path
    BY SdkAssumption
  <1>2. q.account <=> q.name # "getTransactionByReference"
    BY SdkAssumption
  <1> QED BY <1>1, <1>2, MethodsArrive, MethodFacts DEF Arrives

Stages == Roads \union {<<"query">>, <<"file">>, <<"admin">>}

LEMMA StagesFacts ==
  /\ Roads \subseteq Stages
  /\ \A s \in Stages : s # <<>> => Tail(s) \in Stages
  /\ \A s \in Stages : s # <<>> /\ Tail(s) = <<"admin">> => Head(s) = "auth"
  /\ \A s \in Stages : s # <<>> /\ Head(s) = "admin" => s = <<"admin">>
  /\ <<"admin">> \notin Roads
  <1> DEFINE own == {"body", "query", "file", "admin"}
  <1>1. /\ \A g \in own : Tail(<<"auth", g>>) = <<g>> /\ Head(<<"auth", g>>) = "auth"
        /\ \A g \in own \union {"auth"} : Tail(<<g>>) = <<>>
        /\ \A g \in own : <<g>> \in Stages
        /\ <<>> \in Stages /\ <<>> # <<"admin">>
    <2>1. ASSUME NEW g PROVE Tail(<<"auth", g>>) = <<g>> /\ Head(<<"auth", g>>) = "auth" /\ Tail(<<g>>) = <<>>
      OBVIOUS
    <2>2. \A g \in own : <<g>> \in Stages
      BY DEF Stages, Roads
    <2> QED BY <2>1, <2>2 DEF Stages, Roads
  <1>2. ASSUME NEW s \in Stages, s # <<>>
        PROVE  \/ \E g \in own : s = <<"auth", g>>
               \/ \E g \in own \union {"auth"} : s = <<g>>
    BY <1>2 DEF Stages, Roads
  <1>3. ASSUME NEW s \in Stages, s # <<>>
        PROVE  Tail(s) \in Stages /\ (Tail(s) = <<"admin">> => Head(s) = "auth")
    <2>1. CASE \E g \in own : s = <<"auth", g>>
      BY <1>1, <2>1
    <2>2. CASE \E g \in own \union {"auth"} : s = <<g>>
      <3>1. Tail(s) = <<>>
        BY <1>1, <2>2
      <3> QED BY <1>1, <3>1
    <2> QED BY <1>2, <1>3, <2>1, <2>2
  <1>4. \A s \in Stages : s # <<>> /\ Head(s) = "admin" => s = <<"admin">>
    BY DEF Stages, Roads
  <1>5. <<"admin">> \notin Roads
    BY DEF Roads
  <1> QED BY <1>3, <1>4, <1>5 DEF Stages

(* It has no guard before it that could find a flaw, and is judged for its *)
(* role by its own credential.                                             *)
OnRoad(r) == left[r] \in Stages /\ (left[r] = <<"admin">> => user[r] = req[r].cred)

Led == \A r \in Request : pc[r] = "guards" /\ Sound(req[r]) => OnRoad(r)

SdkInv == Led /\ SdkReachesItsHandler

(* What a request may be answered.                                         *)
Fair(r) ==
  Sound(req[r]) =>
    IF served[r] # None
    THEN /\ served[r] = req[r].handler
         /\ req[r].name # "testError" =>
              (status[r] = 400 <=> req[r].name = "getTransactionByReference")
    ELSE \/ status[r] \in {401, 429}
         \/ status[r] = 403 /\ req[r].cred \notin Admin

LEMMA SdkKept ==
  ASSUME SdkInv, NEW r \in Request,
         \A s \in Request \ {r} :
           /\ pc'[s] = pc[s] /\ req'[s] = req[s] /\ left'[s] = left[s] /\ user'[s] = user[s]
           /\ status'[s] = status[s] /\ served'[s] = served[s],
         pc'[r] = "guards" /\ Sound(req'[r]) => OnRoad(r)',
         pc'[r] = "done" => Fair(r)'
  PROVE  SdkInv'
  <1>1. Led'
    BY DEF SdkInv, Led, OnRoad
  <1>2. SdkReachesItsHandler'
    BY DEF SdkInv, SdkReachesItsHandler, Fair, Sound
  <1> QED BY <1>1, <1>2 DEF SdkInv

LEMMA EnterLeads ==
  ASSUME Shape, NEW r \in Request, NEW q \in Workload[r], Enter(r, q), req'[r] = q, Sound(q)
  PROVE  OnRoad(r)'
  <1>1. left'[r] = Resolve(q.verb, q.path).guards
    BY DEF Shape, Enter
  <1>2. left'[r] \in Roads
    BY <1>1, SoundFacts DEF Sound
  <1> QED BY <1>2, StagesFacts DEF OnRoad

LEMMA ArriveLeads ==
  ASSUME ApiInv, SdkInv, NEW r \in Request, Arrive(r)
  PROVE  SdkInv'
  <1>1. PICK q \in Workload[r] :
          LET met == IF Unparsed(q) THEN {} ELSE Meets(q)
              objection == CASE Unparsed(q) -> q.flaw
                             [] \E b \in met : Full(b) -> "limit"
                             [] BadDelay(q) -> "delay"
                             [] OTHER -> None IN
          /\ pc[r] = "idle"
          /\ req' = [req EXCEPT ![r] = q]
          /\ count' = [b \in Bucket |-> IF b \in met THEN count[b] + 1 ELSE count[b]]
          /\ IF objection = None THEN Proceed(r, q) /\ UNCHANGED status
             ELSE Refuse(r, objection) /\ UNCHANGED <<left, lapsed>>
          /\ UNCHANGED <<user, served, active, old>>
    BY Zenon DEF Arrive
  <1>2. \/ Proceed(r, q) /\ UNCHANGED status
        \/ \E o \in {"huge", "garbled", "limit", "delay"} :
             Refuse(r, o) /\ UNCHANGED <<left, lapsed>> /\ (Sound(q) => o = "limit")
    <2>1. CASE Unparsed(q)
      BY <1>1, <2>1 DEF Unparsed, None, Sound
    <2>2. CASE ~Unparsed(q)
      BY <1>1, <2>2 DEF None, BadDelay, Sound
    <2> QED BY <2>1, <2>2
  <1>3. /\ req'[r] = q /\ served[r] = None
        /\ \A s \in Request \ {r} : req'[s] = req[s] /\ user'[s] = user[s] /\ served'[s] = served[s]
    BY <1>1 DEF ApiInv, Shape
  <1>4. CASE Proceed(r, q) /\ UNCHANGED status
    <2>1. CASE q.hold
      <3>1. pc' = [pc EXCEPT ![r] = "held"] /\ UNCHANGED left
        BY <1>4, <2>1 DEF Proceed
      <3>2. pc'[r] = "held" /\ \A s \in Request \ {r} : pc'[s] = pc[s]
        BY <3>1 DEF ApiInv, Shape, TypeOK
      <3> QED BY <1>3, <1>4, <3>1, <3>2, SdkKept
    <2>2. CASE ~q.hold
      <3>1. Enter(r, q)
        BY <1>4, <2>2 DEF Proceed
      <3>2. /\ pc'[r] = "guards"
            /\ \A s \in Request \ {r} : pc'[s] = pc[s] /\ left'[s] = left[s]
        BY <3>1, EnterKeeps DEF ApiInv, Shape, TypeOK
      <3>3. Sound(req'[r]) => OnRoad(r)'
        BY <1>3, <3>1, EnterLeads DEF ApiInv
      <3> QED BY <1>3, <1>4, <3>2, <3>3, SdkKept
    <2> QED BY <2>1, <2>2
  <1>5. ASSUME NEW o \in {"huge", "garbled", "limit", "delay"}, Refuse(r, o),
               UNCHANGED <<left, lapsed>>, Sound(q) => o = "limit"
        PROVE  SdkInv'
    <2>1. /\ pc'[r] = "done" /\ status'[r] \in StatusOf[o]
          /\ \A s \in Request \ {r} : pc'[s] = pc[s] /\ status'[s] = status[s]
      BY <1>5 DEF Refuse, Finish, ApiInv, Shape, TypeOK
    <2>2. StatusOf["limit"] = {429}
      BY DEF StatusOf
    <2>3. Fair(r)'
      BY <1>1, <1>3, <1>5, <2>1, <2>2 DEF Fair
    <2> QED BY <1>3, <1>5, <2>1, <2>3, SdkKept
  <1> QED BY <1>2, <1>4, <1>5

LEMMA ReleaseLeads ==
  ASSUME ApiInv, SdkInv, NEW r \in Request, Release(r)
  PROVE  SdkInv'
  <1>1. req[r] \in Workload[r] /\ Enter(r, req[r]) /\ UNCHANGED <<req, user, status, served>>
    BY DEF Release, ApiInv, Shape, TypeOK
  <1>2. /\ pc'[r] = "guards"
        /\ \A s \in Request \ {r} : pc'[s] = pc[s] /\ left'[s] = left[s]
    BY <1>1, EnterKeeps DEF ApiInv, Shape, TypeOK
  <1>3. Sound(req'[r]) => OnRoad(r)'
    BY <1>1, EnterLeads DEF ApiInv
  <1> QED BY <1>1, <1>2, <1>3, SdkKept

(* A guard lets the request pass, or is one that may refuse it.            *)
LEMMA PassLeads ==
  ASSUME ApiInv, SdkInv, NEW r \in Request, NEW guards, AtGuard(r, guards), Pass(r),
         UNCHANGED <<req, served>>,
         \A s \in Request \ {r} : user'[s] = user[s],
         Head(left[r]) = "auth" => user'[r] = req[r].cred
  PROVE  SdkInv'
  <1>1. /\ left'[r] = Tail(left[r]) /\ UNCHANGED <<pc, status>>
        /\ \A s \in Request \ {r} : left'[s] = left[s]
    BY DEF Pass, ApiInv, Shape
  <1>2. pc[r] = "guards" /\ left[r] # <<>>
    BY DEF AtGuard
  <1>3. Sound(req'[r]) => OnRoad(r)'
    BY <1>1, <1>2, StagesFacts DEF SdkInv, Led, OnRoad
  <1> QED BY <1>1, <1>2, <1>3, SdkKept

LEMMA RefuseLeads ==
  ASSUME ApiInv, SdkInv, NEW r \in Request, NEW o, Refuse(r, o), pc[r] = "guards",
         UNCHANGED <<req, left, user, served>>,
         Sound(req[r]) => o = "auth" \/ (o = "admin" /\ req[r].cred \notin Admin)
  PROVE  SdkInv'
  <1>1. /\ pc'[r] = "done" /\ status'[r] \in StatusOf[o]
        /\ \A s \in Request \ {r} : pc'[s] = pc[s] /\ status'[s] = status[s]
    BY DEF Refuse, Finish, ApiInv, Shape, TypeOK
  <1>2. StatusOf["auth"] = {401} /\ StatusOf["admin"] = {403}
    BY DEF StatusOf
  <1>3. served'[r] = None
    BY DEF ApiInv, Shape
  <1>4. Fair(r)'
    BY <1>1, <1>2, <1>3 DEF Fair
  <1> QED BY <1>1, <1>4, SdkKept

LEMMA AuthenticateLeads ==
  ASSUME ApiInv, SdkInv, NEW r \in Request, Authenticate(r)
  PROVE  SdkInv'
  <1>1. AtGuard(r, {"auth"}) /\ UNCHANGED <<req, served>> /\ pc[r] = "guards"
    BY DEF Authenticate, AtGuard
  <1>2. CASE user' = [user EXCEPT ![r] = req[r].cred] /\ Pass(r)
    <2>1. user'[r] = req[r].cred /\ \A s \in Request \ {r} : user'[s] = user[s]
      BY <1>2 DEF ApiInv, Shape, TypeOK
    <2> QED BY <1>1, <1>2, <2>1, PassLeads
  <1>3. CASE Refuse(r, "auth") /\ UNCHANGED <<left, user>>
    BY <1>1, <1>3, RefuseLeads
  <1> QED BY <1>2, <1>3 DEF Authenticate

LEMMA CheckRoleLeads ==
  ASSUME ApiInv, SdkInv, NEW r \in Request, CheckRole(r)
  PROVE  SdkInv'
  <1>1. /\ AtGuard(r, {"admin"}) /\ UNCHANGED <<req, served, user>> /\ pc[r] = "guards"
        /\ left[r] # <<>> /\ Head(left[r]) = "admin"
    BY DEF CheckRole, AtGuard
  <1>2. CASE Pass(r)
    BY <1>1, <1>2, PassLeads
  <1>3. CASE user[r] \notin Admin /\ Refuse(r, "admin") /\ UNCHANGED left
    <2>1. Sound(req[r]) => req[r].cred \notin Admin
      BY <1>1, <1>3, StagesFacts DEF SdkInv, Led, OnRoad
    <2> QED BY <1>1, <1>3, <2>1, RefuseLeads
  <1> QED BY <1>2, <1>3 DEF CheckRole

LEMMA CheckLeads ==
  ASSUME ApiInv, SdkInv, NEW r \in Request, NEW guard \in {"query", "body", "file"}, Check(r, guard)
  PROVE  SdkInv'
  <1>1. /\ AtGuard(r, {guard}) /\ UNCHANGED <<req, served, user>> /\ pc[r] = "guards"
        /\ Head(left[r]) = guard
    BY DEF Check, AtGuard
  <1>2. CASE Pass(r)
    BY <1>1, <1>2, PassLeads
  <1>3. CASE req[r].flaw = guard /\ Refuse(r, guard) /\ UNCHANGED left
    <2>1. ~Sound(req[r])
      BY <1>3 DEF Sound
    <2> QED BY <1>1, <1>3, <2>1, RefuseLeads
  <1> QED BY <1>2, <1>3 DEF Check

LEMMA HandleLeads ==
  ASSUME ApiInv, SdkInv, NEW r \in Request, Handle(r)
  PROVE  SdkInv'
  <1> DEFINE handler == Found(r).handler
  <1>1. /\ pc[r] = "guards" /\ UNCHANGED <<req, left, user>>
        /\ req[r] \in Workload[r]
    BY DEF Handle, ApiInv, Shape, TypeOK
  <1>2. req[r].name # None =>
          /\ handler = req[r].handler /\ handler \notin {None, NotFound}
          /\ handler = "errorByCode" => req[r].name = "testError"
          /\ req[r].name = "getTransactionByReference" => handler = "getTransactionByReference"
          /\ req[r].account <=> req[r].name # "getTransactionByReference"
    BY <1>1, SoundFacts DEF Found
  <1>3. CASE handler = NotFound /\ Refuse(r, "path") /\ UNCHANGED served
    <2>1. ~Sound(req[r])
      BY <1>2, <1>3 DEF Sound
    <2> QED BY <1>1, <1>3, <2>1, RefuseLeads
  <1>4. CASE served' = [served EXCEPT ![r] = handler] /\ Finish(r, Outcome(req[r], handler))
    <2>1. /\ pc'[r] = "done" /\ status'[r] \in Outcome(req[r], handler) /\ served'[r] = handler
          /\ \A s \in Request \ {r} : pc'[s] = pc[s] /\ status'[s] = status[s] /\ served'[s] = served[s]
      BY <1>4 DEF Finish, ApiInv, Shape, TypeOK
    <2>2. ASSUME Sound(req[r]), req[r].name # "testError"
          PROVE  status'[r] = 400 <=> req[r].name = "getTransactionByReference"
      <3>1. CASE req[r].name = "getTransactionByReference"
        BY <1>2, <2>1, <2>2, <3>1 DEF Outcome, Sound
      <3>2. CASE req[r].name # "getTransactionByReference"
        BY <1>2, <2>1, <2>2, <3>2 DEF Outcome, Sound
      <3> QED BY <3>1, <3>2
    <2>3. Fair(r)'
      BY <1>1, <1>2, <2>1, <2>2 DEF Fair, Sound
    <2> QED BY <1>1, <2>1, <2>3, SdkKept
  <1> QED BY <1>3, <1>4 DEF Handle, Found

LEMMA SdkStep == ApiInv /\ SdkInv /\ [Next]_vars => SdkInv'
  <1> SUFFICES ASSUME ApiInv, SdkInv, [Next]_vars
               PROVE  SdkInv'
    OBVIOUS
  <1>1. ASSUME NEW r \in Request, Arrive(r) PROVE SdkInv'
    BY <1>1, ArriveLeads
  <1>2. ASSUME NEW r \in Request, Release(r) PROVE SdkInv'
    BY <1>2, ReleaseLeads
  <1>3. ASSUME NEW r \in Request, Authenticate(r) PROVE SdkInv'
    BY <1>3, AuthenticateLeads
  <1>4. ASSUME NEW r \in Request, CheckRole(r) PROVE SdkInv'
    BY <1>4, CheckRoleLeads
  <1>5. ASSUME NEW r \in Request, ValidateBody(r) \/ Paginate(r) \/ Upload(r) PROVE SdkInv'
    BY <1>5, CheckLeads DEF ValidateBody, Paginate, Upload
  <1>6. ASSUME NEW r \in Request, Handle(r) PROVE SdkInv'
    BY <1>6, HandleLeads
  <1>7. ASSUME NEW c \in Credential, Lapse(c) PROVE SdkInv'
    BY <1>7 DEF Lapse, SdkInv, Led, OnRoad, SdkReachesItsHandler
  <1>8. ASSUME NEW b \in Bucket, NewWindow(b) PROVE SdkInv'
    BY <1>8 DEF NewWindow, SdkInv, Led, OnRoad, SdkReachesItsHandler
  <1>9. CASE UNCHANGED vars
    BY <1>9 DEF vars, SdkInv, Led, OnRoad, SdkReachesItsHandler
  <1> QED BY <1>1, <1>2, <1>3, <1>4, <1>5, <1>6, <1>7, <1>8, <1>9 DEF Next

(* Whatever is asked of it well, by whom and however long it waits, each   *)
(* method of the SDK ends in the handler it is meant for or is refused by  *)
(* the limiter, by the authentication, or for its role: no route shadows   *)
(* it and no guard before it finds fault.                                  *)
THEOREM SdkMethodsReachTheirHandlers == Spec => []SdkReachesItsHandler
  <1>1. Init => SdkInv
    BY DEF Init, SdkInv, Led, SdkReachesItsHandler
  <1>2. SdkInv => SdkReachesItsHandler
    BY DEF SdkInv
  <1> QED BY <1>1, <1>2, ApiInvariant, SdkStep, PTL DEF Spec
=============================================================================
