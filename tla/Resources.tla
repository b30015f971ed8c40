------------------------------ MODULE Resources ------------------------------
(***************************************************************************)
(* Wallets, payment methods and beneficiaries: wallets.service.ts,         *)
(* paymentMethods.service.ts and beneficiaries.service.ts.  Their handlers *)
(* look, then act, one query after the other and without a transaction, so *)
(* that calls interleave between the look and the act; what holds even so  *)
(* holds by the keys and unique indexes of the tables.  A crash only stops *)
(* calls, which the calls that take no further step stand for.             *)
(*                                                                         *)
(* A row is known by the call that inserted it, or was there at the start. *)
(***************************************************************************)
EXTENDS Integers, FiniteSets

CONSTANTS
  Call,       \* the calls clients make, each once
  User,
  Payee,      \* what identifies a beneficiary: account number and bank code
  GivenId,    \* ids a client may name from the start
  Given,      \* Given[i]: the row with that id, if there is one
  Workload,   \* the calls clients may make
  MaxMethods, \* the limit of active payment methods, 20 in the code
  NoPayee

Id == Call \union GivenId
Row == [table : {"wallet", "method"}, user : User, payee : {NoPayee}]
         \union [table : {"payee"}, user : User, payee : Payee]
NoRow == [table |-> "none"]

Kinds == {"newWallet", "link", "newMethod", "deleteMethod", "addPayee", "dropPayee"}
Creating == {"newWallet", "newMethod", "addPayee"}

ASSUME ResourcesAssumption ==
  /\ Given \in [GivenId -> Row \union {NoRow}] /\ Call \intersect GivenId = {}
  /\ \A i, j \in {k \in GivenId : Given[k].table = "payee"} :
       Given[i].user = Given[j].user /\ Given[i].payee = Given[j].payee => i = j
  /\ NoPayee \notin Payee
  /\ Workload \subseteq [kind : Kinds, user : User, target : Id, wallet : Id,
                         payee : Payee \union {NoPayee}]
  /\ \A o \in Workload : o.kind = "addPayee" <=> o.payee # NoPayee
  /\ IsFiniteSet(Call) /\ IsFiniteSet(GivenId) /\ Call # {}
  /\ MaxMethods \in Nat
  /\ \A u \in User :
       Cardinality({i \in GivenId : Given[i].table = "method" /\ Given[i].user = u}) <= MaxMethods

VARIABLES
  op,        \* op[c]: what call c asks: the caller, the row it is about (a
             \* method or a beneficiary), the wallet, the payee
  pc,        \* pc[c]: the query its handler is about to make
  response,  \* response[c]: the status of the answer
  row,       \* row[i]: the row with id i
  inactive,  \* the payment methods whose isActive is false
  links,     \* the wallet_payment_methods table: pairs of wallet and method
  late       \* history: the links and deletions of a method that was linked
             \* already when they were sent

tables == <<row, inactive, links>>
vars == <<op, pc, response, row, inactive, links, late>>

NoCall == [kind |-> "none"]
Queries == {"insertWallet", "findWallet", "findMethod", "findLink", "insertLink", "count",
            "insertMethod", "deactivate", "findPayee", "insertPayee", "findRow", "deleteRow"}

Init ==
  /\ op = [c \in Call |-> NoCall]
  /\ pc = [c \in Call |-> "idle"]
  /\ response = [c \in Call |-> "none"]
  /\ row = [i \in Id |-> IF i \in GivenId THEN Given[i] ELSE NoRow]
  /\ inactive = {} /\ links = {} /\ late = {}

-----------------------------------------------------------------------------
Goto(c, query) == pc' = [pc EXCEPT ![c] = query] /\ UNCHANGED response
Respond(c, code) ==
  /\ response' = [response EXCEPT ![c] = code]
  /\ pc' = [pc EXCEPT ![c] = "done"]

In(i, table) == row[i].table = table
Linked(m) == \E w \in Id : <<w, m>> \in links

(* Ids are random: a client names those it has been told.                  *)
Known == GivenId \union {d \in Call : response[d] = "ok" /\ op[d].kind \in Creating}

Entry(kind) ==
  IF kind = "newWallet" THEN "insertWallet"
  ELSE IF kind = "link" THEN "findWallet"
  ELSE IF kind = "newMethod" THEN "count"
  ELSE IF kind = "deleteMethod" THEN "findMethod"
  ELSE IF kind = "addPayee" THEN "findPayee" ELSE "findRow"

Receive(c) ==
  /\ pc[c] = "idle"
  /\ \E o \in Workload :
       /\ o.target \in Known /\ o.wallet \in Known
       /\ op' = [op EXCEPT ![c] = o]
       /\ Goto(c, Entry(o.kind))
       /\ late' = IF o.kind \in {"link", "deleteMethod"} /\ Linked(o.target)
                  THEN late \union {c} ELSE late
  /\ UNCHANGED tables

-----------------------------------------------------------------------------
(* Wallets *)
Insert(c, table) ==
  /\ row' = [row EXCEPT ![c] = [table |-> table, user |-> op[c].user, payee |-> op[c].payee]]
  /\ Respond(c, "ok")
  /\ UNCHANGED <<op, inactive, links, late>>

InsertWallet(c) == pc[c] = "insertWallet" /\ Insert(c, "wallet")

FindWallet(c) ==
  LET w == op[c].wallet IN
  /\ pc[c] = "findWallet"
  /\ \/ ~In(w, "wallet") /\ Respond(c, "404")
     \/ In(w, "wallet") /\ row[w].user # op[c].user /\ Respond(c, "403")
     \/ In(w, "wallet") /\ row[w].user = op[c].user /\ Goto(c, "findMethod")
  /\ UNCHANGED <<op, tables, late>>

(* A link wants the method to exist; a deletion wants it to be the         *)
(* caller's.  Whether it is active nobody asks.                            *)
FindMethod(c) ==
  LET m == op[c].target
      found == In(m, "method") /\ (op[c].kind = "link" \/ row[m].user = op[c].user) IN
  /\ pc[c] = "findMethod"
  /\ \/ ~found /\ Respond(c, "404")
     \/ found /\ Goto(c, "findLink")
  /\ UNCHANGED <<op, tables, late>>

(* Slip: only a link to the same wallet is looked for. *)
FindLinkHere(c) ==
  LET linked == <<op[c].wallet, op[c].target>> \in links IN
  /\ pc[c] = "findLink"
  /\ \/ linked /\ Respond(c, "409")
     \/ ~linked /\ Goto(c, IF op[c].kind = "link" THEN "insertLink" ELSE "deactivate")
  /\ UNCHANGED <<op, tables, late>>

FindLink(c) ==
  /\ pc[c] = "findLink"
  /\ \/ Linked(op[c].target) /\ Respond(c, "409")
     \/ /\ ~Linked(op[c].target)
        /\ Goto(c, IF op[c].kind = "link" THEN "insertLink" ELSE "deactivate")
  /\ UNCHANGED <<op, tables, late>>

(* Slip: an upsert, which does not mind a link that is there. *)
UpsertLink(c) ==
  /\ pc[c] = "insertLink"
  /\ links' = links \union {<<op[c].wallet, op[c].target>>}
  /\ Respond(c, "ok")
  /\ UNCHANGED <<op, row, inactive, late>>

(* The key of the table is the pair: it refuses the same link twice, and   *)
(* no other.                                                               *)
InsertLink(c) ==
  LET link == <<op[c].wallet, op[c].target>> IN
  /\ pc[c] = "insertLink"
  /\ \/ link \in links /\ Respond(c, "409") /\ UNCHANGED links
     \/ link \notin links /\ links' = links \union {link} /\ Respond(c, "ok")
  /\ UNCHANGED <<op, row, inactive, late>>

-----------------------------------------------------------------------------
(* Payment methods *)
ActiveMethods(u) == {i \in Id : In(i, "method") /\ row[i].user = u} \ inactive

(* Slip: one method too many is let through. *)
CountOffByOne(c) ==
  LET full == Cardinality(ActiveMethods(op[c].user)) > MaxMethods IN
  /\ pc[c] = "count"
  /\ \/ full /\ Respond(c, "409")
     \/ ~full /\ Goto(c, "insertMethod")
  /\ UNCHANGED <<op, tables, late>>

Count(c) ==
  LET full == Cardinality(ActiveMethods(op[c].user)) >= MaxMethods IN
  /\ pc[c] = "count"
  /\ \/ full /\ Respond(c, "409")
     \/ ~full /\ Goto(c, "insertMethod")
  /\ UNCHANGED <<op, tables, late>>

InsertMethod(c) == pc[c] = "insertMethod" /\ Insert(c, "method")

Deactivate(c) ==
  /\ pc[c] = "deactivate"
  /\ inactive' = inactive \union {op[c].target}
  /\ Respond(c, "ok")
  /\ UNCHANGED <<op, row, links, late>>

-----------------------------------------------------------------------------
(* Beneficiaries *)
Registered(c) ==
  \E i \in Id : In(i, "payee") /\ row[i].user = op[c].user /\ row[i].payee = op[c].payee

FindPayee(c) ==
  /\ pc[c] = "findPayee"
  /\ \/ Registered(c) /\ Respond(c, "409")
     \/ ~Registered(c) /\ Goto(c, "insertPayee")
  /\ UNCHANGED <<op, tables, late>>

(* The unique index has the last word. *)
InsertPayee(c) ==
  /\ pc[c] = "insertPayee"
  /\ \/ Registered(c) /\ Respond(c, "409") /\ UNCHANGED <<op, tables, late>>
     \/ ~Registered(c) /\ Insert(c, "payee")

FindRow(c) ==
  LET b == op[c].target IN
  /\ pc[c] = "findRow"
  /\ \/ ~In(b, "payee") /\ Respond(c, "404")
     \/ In(b, "payee") /\ row[b].user # op[c].user /\ Respond(c, "403")
     \/ In(b, "payee") /\ row[b].user = op[c].user /\ Goto(c, "deleteRow")
  /\ UNCHANGED <<op, tables, late>>

(* A DELETE that finds no row fails (P2025). *)
DeleteRow(c) ==
  LET b == op[c].target IN
  /\ pc[c] = "deleteRow"
  /\ \/ ~In(b, "payee") /\ Respond(c, "404") /\ UNCHANGED row
     \/ In(b, "payee") /\ row' = [row EXCEPT ![b] = NoRow] /\ Respond(c, "ok")
  /\ UNCHANGED <<op, inactive, links, late>>

-----------------------------------------------------------------------------
QueryFails(c) ==
  /\ pc[c] \in Queries
  /\ Respond(c, "500")
  /\ UNCHANGED <<op, tables, late>>

Link(c) == FindWallet(c) \/ FindMethod(c) \/ FindLink(c) \/ InsertLink(c)
Methods(c) == Count(c) \/ InsertMethod(c) \/ Deactivate(c)
Payees(c) == FindPayee(c) \/ InsertPayee(c) \/ FindRow(c) \/ DeleteRow(c)

Next ==
  \E c \in Call : \/ Receive(c) \/ InsertWallet(c) \/ Link(c) \/ Methods(c) \/ Payees(c)
                  \/ QueryFails(c)

Spec == Init /\ [][Next]_vars

-----------------------------------------------------------------------------
(* The type of the state. *)
TypeOK ==
  /\ op \in [Call -> Workload \union {NoCall}]
  /\ pc \in [Call -> Queries \union {"idle", "done"}]
  /\ response \in [Call -> {"none", "ok", "403", "404", "409", "500"}]
  /\ row \in [Id -> Row \union {NoRow}]
  /\ inactive \subseteq Id /\ links \subseteq Id \X Id /\ late \subseteq Call

(* A method that is linked when its deletion, or another link of it, is    *)
(* sent is not deleted or linked again by that call ("SHALL return a 409   *)
(* Conflict response and the original link SHALL remain unchanged"): only  *)
(* calls that overlap with the first link can slip past the check, and     *)
(* these do: the method is then in two wallets, or linked and inactive.    *)
LateCallsRefused == \A c \in late : response[c] # "ok"

(* Every link was made by one call, of the owner of the wallet, that was   *)
(* told so, and no two calls were told that they made the same: the key of *)
(* the table decides between calls that all found no link.                 *)
LinksAreAccountedFor ==
  LET Asked(c) == <<op[c].wallet, op[c].target>>
      Makers(l) == {c \in Call : op[c].kind = "link" /\ response[c] = "ok" /\ Asked(c) = l} IN
  /\ \A l \in links : \E c \in Makers(l) : op[c].user = row[l[1]].user
  /\ \A c \in Call : op[c].kind = "link" /\ response[c] = "ok" =>
       Asked(c) \in links /\ Makers(Asked(c)) = {c}

(* However many ask for it at once, a user has a beneficiary once: calls   *)
(* that all found none are decided by the unique index.                    *)
PayeesAreUnique ==
  \A i, j \in Id : In(i, "payee") /\ In(j, "payee") /\ row[i].user = row[j].user
                   /\ row[i].payee = row[j].payee => i = j

(* The limit of active methods can be exceeded by the calls that counted   *)
(* before the others inserted, by one for each call but one.               *)
OvershootIsBounded ==
  \A u \in User :
    LET adding == {c \in Call : op[c].kind = "newMethod" /\ op[c].user = u} IN
    adding # {} => Cardinality(ActiveMethods(u)) <= MaxMethods + Cardinality(adding) - 1
=============================================================================
