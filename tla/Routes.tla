------------------------------- MODULE Routes -------------------------------
(***************************************************************************)
(* The routing tables: what each router of routes/ registers, in order,    *)
(* with the guards in front of its handlers, and the request each method   *)
(* of the SDK makes.  A path is a sequence of segments, an argument in it  *)
(* is Arg: a value that is none of the literal segments.                   *)
(***************************************************************************)
EXTENDS Naturals, Sequences

Arg == "*"

(* A registration: verb, path, guards in the order they run, handler.      *)
On(verb, path, guards, handler) ==
  [verb |-> verb, path |-> path, guards |-> guards, handler |-> handler]

(* A router under its mount path; use are the guards in front of all of    *)
(* its routes, and of the paths under its mount that no route matches.     *)
Router(mount, use, routes) == [mount |-> mount, use |-> use, routes |-> routes]

AuthRoutes == <<
  On("POST", <<"register">>, <<"body">>, "register"),
  On("POST", <<"login">>, <<"body">>, "login"),
  On("POST", <<"refresh">>, <<"body">>, "refreshToken"),
  On("POST", <<"api-keys">>, <<"auth">>, "generateApiKey"),
  On("DELETE", <<"api-keys", Arg>>, <<"auth">>, "revokeApiKey")>>

AccountsRoutes == <<
  On("POST", <<>>, <<"body">>, "createAccount"),
  On("GET", <<>>, <<"query">>, "listAccounts"),
  On("GET", <<Arg>>, <<>>, "getAccount"),
  On("PUT", <<Arg>>, <<"body">>, "updateAccount"),
  On("DELETE", <<Arg>>, <<>>, "deleteAccount")>>

TransactionsRoutes == <<
  On("POST", <<"deposit">>, <<"body">>, "deposit"),
  On("POST", <<"withdraw">>, <<"body">>, "withdraw"),
  On("POST", <<"transfer">>, <<"body">>, "transfer"),
  On("GET", <<>>, <<"query">>, "listTransactions"),
  On("GET", <<"reference", Arg>>, <<>>, "getTransactionByReference")>>

WalletsRoutes == <<
  On("POST", <<>>, <<>>, "createWallet"),
  On("GET", <<>>, <<"query">>, "listWallets"),
  On("GET", <<Arg>>, <<>>, "getWalletDetails"),
  On("POST", <<Arg, "payment-methods">>, <<"body">>, "linkPaymentMethod")>>

PaymentMethodsRoutes == <<
  On("POST", <<>>, <<"body">>, "createPaymentMethod"),
  On("GET", <<>>, <<"query">>, "listPaymentMethods"),
  On("DELETE", <<Arg>>, <<>>, "deletePaymentMethod")>>

BeneficiariesRoutes == <<
  On("POST", <<>>, <<"body">>, "createBeneficiary"),
  On("GET", <<>>, <<"query">>, "listBeneficiaries"),
  On("DELETE", <<Arg>>, <<>>, "deleteBeneficiary")>>

StatementsRoutes == <<On("GET", <<>>, <<>>, "getStatement")>>

(* Slip: the mark is put where the client patches.                         *)
NotificationsRoutesPut == <<
  On("GET", <<>>, <<"query">>, "listNotifications"),
  On("GET", <<"unread-count">>, <<>>, "getUnreadCount"),
  On("PUT", <<Arg, "read">>, <<>>, "markAsRead")>>

NotificationsRoutes == <<
  On("GET", <<>>, <<"query">>, "listNotifications"),
  On("GET", <<"unread-count">>, <<>>, "getUnreadCount"),
  On("PATCH", <<Arg, "read">>, <<>>, "markAsRead")>>

FilesRoutes == <<
  On("POST", <<"upload">>, <<"file">>, "uploadFile"),
  On("GET", <<Arg, "download">>, <<>>, "downloadFile")>>

WebhooksRoutes == <<
  On("POST", <<>>, <<"body">>, "registerWebhook"),
  On("DELETE", <<Arg>>, <<>>, "deleteWebhook"),
  On("GET", <<"deliveries">>, <<"query">>, "getDeliveryHistory")>>

TestRoutes == <<
  On("GET", <<"slow">>, <<>>, "slow"),
  On("GET", <<"error", Arg>>, <<>>, "errorByCode"),
  On("POST", <<"reset">>, <<"auth", "admin">>, "reset")>>

(* Slip: the role is forgotten.                                            *)
BulkRoutesForAll == <<
  On("POST", <<"create">>, <<>>, "bulkCreate"),
  On("PUT", <<"update">>, <<>>, "bulkUpdate"),
  On("DELETE", <<"delete">>, <<>>, "bulkDelete")>>

(* The bodies of bulk requests are validated by their handlers.            *)
BulkRoutes == <<
  On("POST", <<"create">>, <<>>, "bulkCreate"),
  On("PUT", <<"update">>, <<>>, "bulkUpdate"),
  On("DELETE", <<"delete">>, <<"admin">>, "bulkDelete")>>

UsersRoutes == <<On("GET", <<>>, <<"auth", "admin">>, "listUsers")>>

V1 == <<
  Router(<<"auth">>, <<>>, AuthRoutes),
  Router(<<"accounts">>, <<"auth">>, AccountsRoutes),
  Router(<<"transactions">>, <<"auth">>, TransactionsRoutes),
  Router(<<"wallets">>, <<"auth">>, WalletsRoutes),
  Router(<<"payment-methods">>, <<"auth">>, PaymentMethodsRoutes),
  Router(<<"beneficiaries">>, <<"auth">>, BeneficiariesRoutes),
  Router(<<"statements">>, <<"auth">>, StatementsRoutes),
  Router(<<"notifications">>, <<"auth">>, NotificationsRoutes),
  Router(<<"files">>, <<"auth">>, FilesRoutes),
  Router(<<"webhooks">>, <<"auth">>, WebhooksRoutes),
  Router(<<"test">>, <<>>, TestRoutes),
  Router(<<"bulk">>, <<"auth">>, BulkRoutes),
  Router(<<"users">>, <<>>, UsersRoutes)>>

V2 == <<
  Router(<<>>, <<>>, <<
    On("GET", <<"health">>, <<>>, "health"),
    On("GET", <<"accounts">>, <<"auth", "query">>, "listAccounts"),
    On("GET", <<"accounts", Arg>>, <<"auth">>, "getAccount")>>)>>

-----------------------------------------------------------------------------
(* A literal segment of a request's path may be taken for an argument.     *)
Matches(pattern, path) ==
  /\ Len(pattern) = Len(path)
  /\ \A i \in 1..Len(path) : pattern[i] \in {Arg, path[i]}

Under(mount, path) ==
  /\ Len(mount) <= Len(path)
  /\ \A i \in 1..Len(mount) : mount[i] = path[i]

(* The first of the indexes that fit, 0 if none does.                      *)
First(fit) == IF fit = {} THEN 0 ELSE CHOOSE i \in fit : \A j \in fit : i <= j

NotFound == "404"

(* What app.ts puts behind the limiters for a path under /api: the guards  *)
(* to pass and the handler at the end.  Mount paths exclude each other, so *)
(* that a request enters one router at most.                               *)
Routers(path) == CASE path[1] = "v1" -> V1 [] path[1] = "v2" -> V2 [] OTHER -> <<>>

RouterOf(path) == First({i \in 1..Len(Routers(path)) : Under(Routers(path)[i].mount, Tail(path))})

RouteOf(router, verb, path) ==
  LET rest == SubSeq(path, 2 + Len(router.mount), Len(path)) IN
  First({i \in 1..Len(router.routes) :
           router.routes[i].verb = verb /\ Matches(router.routes[i].path, rest)})

Resolve(verb, path) ==
  LET entered == Routers(path)[RouterOf(path)]
      route == RouteOf(entered, verb, path) IN
  IF RouterOf(path) = 0 THEN [guards |-> <<>>, handler |-> NotFound]
  ELSE IF route = 0 THEN [guards |-> entered.use, handler |-> NotFound]
  ELSE [guards |-> entered.use \o entered.routes[route].guards,
        handler |-> entered.routes[route].handler]

-----------------------------------------------------------------------------
(* The methods of the SDK: the request made and the handler meant for it.  *)
Method(name, verb, path, handler) ==
  [name |-> name, verb |-> verb, path |-> <<"v1">> \o path, handler |-> handler]

SdkAuth == {
  Method("register", "POST", <<"auth", "register">>, "register"),
  Method("login", "POST", <<"auth", "login">>, "login"),
  Method("refresh", "POST", <<"auth", "refresh">>, "refreshToken"),
  Method("generateApiKey", "POST", <<"auth", "api-keys">>, "generateApiKey"),
  Method("revokeApiKey", "DELETE", <<"auth", "api-keys", Arg>>, "revokeApiKey")}

SdkMoney == {
  Method("createAccount", "POST", <<"accounts">>, "createAccount"),
  Method("listAccounts", "GET", <<"accounts">>, "listAccounts"),
  Method("getAccount", "GET", <<"accounts", Arg>>, "getAccount"),
  Method("updateAccount", "PUT", <<"accounts", Arg>>, "updateAccount"),
  Method("deleteAccount", "DELETE", <<"accounts", Arg>>, "deleteAccount"),
  Method("deposit", "POST", <<"transactions", "deposit">>, "deposit"),
  Method("withdraw", "POST", <<"transactions", "withdraw">>, "withdraw"),
  Method("transfer", "POST", <<"transactions", "transfer">>, "transfer"),
  Method("listTransactions", "GET", <<"transactions">>, "listTransactions"),
  Method("getTransactionByReference", "GET", <<"transactions", "reference", Arg>>,
         "getTransactionByReference")}

SdkPayments == {
  Method("createWallet", "POST", <<"wallets">>, "createWallet"),
  Method("listWallets", "GET", <<"wallets">>, "listWallets"),
  Method("getWallet", "GET", <<"wallets", Arg>>, "getWalletDetails"),
  Method("linkPaymentMethod", "POST", <<"wallets", Arg, "payment-methods">>, "linkPaymentMethod"),
  Method("createPaymentMethod", "POST", <<"payment-methods">>, "createPaymentMethod"),
  Method("listPaymentMethods", "GET", <<"payment-methods">>, "listPaymentMethods"),
  Method("deletePaymentMethod", "DELETE", <<"payment-methods", Arg>>, "deletePaymentMethod"),
  Method("createBeneficiary", "POST", <<"beneficiaries">>, "createBeneficiary"),
  Method("listBeneficiaries", "GET", <<"beneficiaries">>, "listBeneficiaries"),
  Method("deleteBeneficiary", "DELETE", <<"beneficiaries", Arg>>, "deleteBeneficiary")}

SdkReports == {
  Method("getStatement", "GET", <<"statements">>, "getStatement"),
  Method("downloadStatement", "GET", <<"statements">>, "getStatement"),
  Method("listNotifications", "GET", <<"notifications">>, "listNotifications"),
  Method("getUnreadNotificationCount", "GET", <<"notifications", "unread-count">>, "getUnreadCount"),
  Method("markNotificationAsRead", "PATCH", <<"notifications", Arg, "read">>, "markAsRead"),
  Method("uploadFile", "POST", <<"files", "upload">>, "uploadFile"),
  Method("downloadFile", "GET", <<"files", Arg, "download">>, "downloadFile")}

SdkOther == {
  Method("registerWebhook", "POST", <<"webhooks">>, "registerWebhook"),
  Method("deleteWebhook", "DELETE", <<"webhooks", Arg>>, "deleteWebhook"),
  Method("getWebhookDeliveries", "GET", <<"webhooks", "deliveries">>, "getDeliveryHistory"),
  Method("bulkCreate", "POST", <<"bulk", "create">>, "bulkCreate"),
  Method("bulkUpdate", "PUT", <<"bulk", "update">>, "bulkUpdate"),
  Method("bulkDelete", "DELETE", <<"bulk", "delete">>, "bulkDelete"),
  Method("listUsers", "GET", <<"users">>, "listUsers"),
  Method("testSlow", "GET", <<"test", "slow">>, "slow"),
  Method("testError", "GET", <<"test", "error", Arg>>, "errorByCode")}

SdkMethods == SdkAuth \union SdkMoney \union SdkPayments \union SdkReports \union SdkOther
=============================================================================
