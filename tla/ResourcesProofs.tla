--------------------------- MODULE ResourcesProofs ---------------------------
(***************************************************************************)
(* Theorems about Resources, for all calls, users, ids and limits.         *)
(***************************************************************************)
EXTENDS Resources, TLAPS, FiniteSetTheorems

(* A handler makes the queries of its own kind of call, and answers last.  *)
RouteInv ==
  \A c \in Call :
    /\ pc[c] = "idle" <=> op[c] = NoCall
    /\ response[c] # "none" <=> pc[c] = "done"
    /\ pc[c] = "insertWallet" => op[c].kind = "newWallet"
    /\ pc[c] \in {"findWallet", "insertLink"} => op[c].kind = "link"
    /\ pc[c] \in {"findMethod", "findLink"} => op[c].kind \in {"link", "deleteMethod"}
    /\ pc[c] = "deactivate" => op[c].kind = "deleteMethod"
    /\ pc[c] \in {"count", "insertMethod"} => op[c].kind = "newMethod"
    /\ pc[c] \in {"findPayee", "insertPayee"} => op[c].kind = "addPayee"
    /\ pc[c] \in {"findRow", "deleteRow"} => op[c].kind = "dropPayee"

(* A row is inserted by the step that answers the call.                    *)
RowInv == \A c \in Call : row[c] # NoRow => pc[c] = "done"

(* Past its first query a link is to a wallet of the caller, and wallets   *)
(* stay.                                                                   *)
WalletOf(c) == In(op[c].wallet, "wallet") /\ row[op[c].wallet].user = op[c].user
OwnerInv ==
  \A c \in Call : op[c].kind = "link" =>
    /\ pc[c] \in {"findMethod", "findLink", "insertLink"} => WalletOf(c)
    /\ response[c] = "ok" => WalletOf(c)

(* A method once linked stays linked, so that a late call is still to meet *)
(* the check that refuses it, or has met it.                               *)
LateInv ==
  \A c \in late :
    /\ op[c].kind \in {"link", "deleteMethod"} /\ Linked(op[c].target)
    /\ pc[c] \in {"findWallet", "findMethod", "findLink", "done"}
    /\ response[c] # "ok"

(* What the table of links holds is what the calls that were told so made. *)
Asked(c) == <<op[c].wallet, op[c].target>>
Made(c) == op[c].kind = "link" /\ response[c] = "ok"
LinkInv ==
  /\ \A l \in links : \E c \in Call : Made(c) /\ Asked(c) = l
  /\ \A c \in Call : Made(c) => Asked(c) \in links
  /\ \A c, d \in Call : Made(c) /\ Made(d) /\ Asked(c) = Asked(d) => c = d

ResourcesInv == TypeOK /\ RouteInv /\ RowInv /\ OwnerInv /\ LateInv /\ LinkInv /\ PayeesAreUnique

-----------------------------------------------------------------------------
(* A call asks for something of the workload. *)
LEMMA CallFacts ==
  ASSUME TypeOK, RouteInv, NEW c \in Call, pc[c] # "idle"
  PROVE  /\ op[c] \in Workload /\ op[c].user \in User
         /\ op[c].target \in Id /\ op[c].wallet \in Id
         /\ op[c].kind = "addPayee" => op[c].payee \in Payee
         /\ op[c].kind # "addPayee" => op[c].payee = NoPayee
  <1>1. op[c] \in Workload
    BY DEF TypeOK, RouteInv
  <1> QED BY <1>1, ResourcesAssumption

LEMMA InitInv == Init => ResourcesInv
  <1> SUFFICES ASSUME Init PROVE ResourcesInv
    OBVIOUS
  <1>1. TypeOK
    <2>1. row \in [Id -> Row \union {NoRow}]
      BY ResourcesAssumption DEF Init
    <2> QED BY <2>1 DEF Init, TypeOK
  <1>2. RouteInv /\ LateInv /\ LinkInv /\ OwnerInv
    BY DEF Init, RouteInv, LateInv, LinkInv, OwnerInv, NoCall, Made
  <1>3. RowInv
    BY ResourcesAssumption DEF Init, RowInv, Id
  <1>4. PayeesAreUnique
    <2> SUFFICES ASSUME NEW i \in Id, NEW j \in Id, In(i, "payee"), In(j, "payee"),
                        row[i].user = row[j].user, row[i].payee = row[j].payee
                 PROVE  i = j
      BY DEF PayeesAreUnique
    <2>1. \A k \in Id : In(k, "payee") => k \in GivenId /\ row[k] = Given[k]
      BY DEF Init, In, NoRow, Id
    <2> QED BY <2>1, ResourcesAssumption DEF In
  <1> QED BY <1>1, <1>2, <1>3, <1>4 DEF ResourcesInv

-----------------------------------------------------------------------------
(* Every query keeps the type of the state and the route of its call.      *)
LEMMA StepTypes == TypeOK /\ RouteInv /\ [Next]_vars => TypeOK' /\ RouteInv'
  <1> SUFFICES ASSUME TypeOK, RouteInv, [Next]_vars PROVE TypeOK' /\ RouteInv'
    OBVIOUS
  <1>1. ASSUME NEW c \in Call, Receive(c) PROVE TypeOK' /\ RouteInv'
    BY <1>1, ResourcesAssumption DEF Receive, Goto, Entry, TypeOK, RouteInv, tables,
       NoCall, Kinds, Queries
  <1>2. ASSUME NEW c \in Call, InsertWallet(c) PROVE TypeOK' /\ RouteInv'
    BY <1>2, CallFacts DEF InsertWallet, Insert, Row, Id, Respond, TypeOK, RouteInv, Queries
  <1>3. ASSUME NEW c \in Call, FindWallet(c) PROVE TypeOK' /\ RouteInv'
    BY <1>3, CallFacts DEF FindWallet, Goto, Respond, TypeOK, RouteInv, tables, Queries
  <1>4. ASSUME NEW c \in Call, FindMethod(c) PROVE TypeOK' /\ RouteInv'
    BY <1>4, CallFacts DEF FindMethod, Goto, Respond, TypeOK, RouteInv, tables, Queries
  <1>5. ASSUME NEW c \in Call, FindLink(c) PROVE TypeOK' /\ RouteInv'
    BY <1>5, CallFacts DEF FindLink, Goto, Respond, TypeOK, RouteInv, tables, Queries
  <1>6. ASSUME NEW c \in Call, InsertLink(c) PROVE TypeOK' /\ RouteInv'
    BY <1>6, CallFacts DEF InsertLink, Respond, TypeOK, RouteInv, Queries
  <1>7. ASSUME NEW c \in Call, Count(c) PROVE TypeOK' /\ RouteInv'
    BY <1>7, CallFacts DEF Count, Goto, Respond, TypeOK, RouteInv, tables, Queries
  <1>8. ASSUME NEW c \in Call, InsertMethod(c) PROVE TypeOK' /\ RouteInv'
    BY <1>8, CallFacts DEF InsertMethod, Insert, Row, Id, Respond, TypeOK, RouteInv, Queries
  <1>9. ASSUME NEW c \in Call, Deactivate(c) PROVE TypeOK' /\ RouteInv'
    BY <1>9, CallFacts DEF Deactivate, Respond, TypeOK, RouteInv, Queries
  <1>10. ASSUME NEW c \in Call, FindPayee(c) PROVE TypeOK' /\ RouteInv'
    BY <1>10, CallFacts DEF FindPayee, Goto, Respond, TypeOK, RouteInv, tables, Queries
  <1>11. ASSUME NEW c \in Call, InsertPayee(c) PROVE TypeOK' /\ RouteInv'
    BY <1>11, CallFacts DEF InsertPayee, Insert, Row, Id, Respond, TypeOK, RouteInv,
       tables, Queries
  <1>12. ASSUME NEW c \in Call, FindRow(c) PROVE TypeOK' /\ RouteInv'
    BY <1>12, CallFacts DEF FindRow, Goto, Respond, TypeOK, RouteInv, tables, Queries
  <1>13. ASSUME NEW c \in Call, DeleteRow(c) PROVE TypeOK' /\ RouteInv'
    BY <1>13, CallFacts DEF DeleteRow, NoRow, Respond, TypeOK, RouteInv, Queries
  <1>14. ASSUME NEW c \in Call, QueryFails(c) PROVE TypeOK' /\ RouteInv'
    BY <1>14, CallFacts DEF QueryFails, Respond, TypeOK, RouteInv, tables, Queries
  <1>15. CASE UNCHANGED vars
    BY <1>15 DEF vars, tables, TypeOK, RouteInv
  <1> QED
    BY <1>1, <1>2, <1>3, <1>4, <1>5, <1>6, <1>7, <1>8, <1>9, <1>10, <1>11, <1>12, <1>13,
       <1>14, <1>15 DEF Next, Link, Methods, Payees

(* Only the call that is named inserts its row, when it is answered.       *)
LEMMA StepRows == TypeOK /\ RouteInv /\ RowInv /\ [Next]_vars => RowInv'
  <1> SUFFICES ASSUME TypeOK, RouteInv, RowInv, [Next]_vars PROVE RowInv'
    OBVIOUS
  <1>1. ASSUME NEW c \in Call, Receive(c) PROVE RowInv'
    BY <1>1 DEF Receive, Goto, Entry, tables, TypeOK, RouteInv, NoCall, RowInv, Id
  <1>2. ASSUME NEW c \in Call, InsertWallet(c) PROVE RowInv'
    BY <1>2 DEF InsertWallet, Insert, Respond, TypeOK, RouteInv, RowInv, Id
  <1>3. ASSUME NEW c \in Call, FindWallet(c) PROVE RowInv'
    BY <1>3 DEF FindWallet, Goto, Respond, tables, TypeOK, RouteInv, RowInv, Id
  <1>4. ASSUME NEW c \in Call, FindMethod(c) PROVE RowInv'
    BY <1>4 DEF FindMethod, Goto, Respond, tables, TypeOK, RowInv, Id
  <1>5. ASSUME NEW c \in Call, FindLink(c) PROVE RowInv'
    BY <1>5 DEF FindLink, Goto, Respond, tables, TypeOK, RowInv, Id
  <1>6. ASSUME NEW c \in Call, InsertLink(c) PROVE RowInv'
    BY <1>6 DEF InsertLink, Respond, TypeOK, RouteInv, RowInv, Id
  <1>7. ASSUME NEW c \in Call, Count(c) PROVE RowInv'
    BY <1>7 DEF Count, Goto, Respond, tables, TypeOK, RowInv, Id
  <1>8. ASSUME NEW c \in Call, InsertMethod(c) PROVE RowInv'
    BY <1>8 DEF InsertMethod, Insert, Respond, TypeOK, RouteInv, RowInv, Id
  <1>9. ASSUME NEW c \in Call, Deactivate(c) PROVE RowInv'
    BY <1>9 DEF Deactivate, Respond, TypeOK, RowInv, Id
  <1>10. ASSUME NEW c \in Call, FindPayee(c) PROVE RowInv'
    BY <1>10 DEF FindPayee, Goto, Respond, tables, TypeOK, RowInv, Id
  <1>11. ASSUME NEW c \in Call, InsertPayee(c) PROVE RowInv'
    BY <1>11 DEF InsertPayee, Insert, Respond, tables, TypeOK, RouteInv, RowInv, Id
  <1>12. ASSUME NEW c \in Call, FindRow(c) PROVE RowInv'
    BY <1>12 DEF FindRow, Goto, Respond, tables, TypeOK, RowInv, Id
  <1>13. ASSUME NEW c \in Call, DeleteRow(c) PROVE RowInv'
    BY <1>13 DEF DeleteRow, Respond, TypeOK, RouteInv, RowInv, Id
  <1>14. ASSUME NEW c \in Call, QueryFails(c) PROVE RowInv'
    BY <1>14 DEF QueryFails, Respond, tables, TypeOK, RowInv, Id
  <1>15. CASE UNCHANGED vars
    BY <1>15 DEF vars, tables, RowInv, Id
  <1> QED
    BY <1>1, <1>2, <1>3, <1>4, <1>5, <1>6, <1>7, <1>8, <1>9, <1>10, <1>11, <1>12, <1>13,
       <1>14, <1>15 DEF Next, Link, Methods, Payees

(* Wallets are never deleted and never change hands.                       *)
LEMMA StepOwners == TypeOK /\ RouteInv /\ RowInv /\ OwnerInv /\ [Next]_vars => OwnerInv'
  <1> SUFFICES ASSUME TypeOK, RouteInv, RowInv, OwnerInv, [Next]_vars PROVE OwnerInv'
    OBVIOUS
  <1>1. ASSUME NEW c \in Call, Receive(c) PROVE OwnerInv'
    BY <1>1 DEF Receive, Goto, Entry, tables, TypeOK, RouteInv, NoCall, RowInv,
       OwnerInv, WalletOf, In, Id, NoRow
  <1>2. ASSUME NEW c \in Call, InsertWallet(c) PROVE OwnerInv'
    BY <1>2 DEF InsertWallet, Insert, Respond, TypeOK, RouteInv, RowInv, OwnerInv,
       WalletOf, In, Id, NoRow
  <1>3. ASSUME NEW c \in Call, FindWallet(c) PROVE OwnerInv'
    BY <1>3 DEF FindWallet, Goto, Respond, tables, TypeOK, RouteInv, RowInv, OwnerInv,
       WalletOf, In, Id, NoRow
  <1>4. ASSUME NEW c \in Call, FindMethod(c) PROVE OwnerInv'
    BY <1>4 DEF FindMethod, Goto, Respond, tables, TypeOK, RowInv, OwnerInv, WalletOf,
       In, Id, NoRow
  <1>5. ASSUME NEW c \in Call, FindLink(c) PROVE OwnerInv'
    BY <1>5 DEF FindLink, Goto, Respond, tables, TypeOK, RowInv, OwnerInv, WalletOf, In,
       Id, NoRow
  <1>6. ASSUME NEW c \in Call, InsertLink(c) PROVE OwnerInv'
    BY <1>6 DEF InsertLink, Respond, TypeOK, RouteInv, RowInv, OwnerInv, WalletOf, In,
       Id, NoRow
  <1>7. ASSUME NEW c \in Call, Count(c) PROVE OwnerInv'
    BY <1>7 DEF Count, Goto, Respond, tables, TypeOK, RowInv, OwnerInv, WalletOf, In,
       Id, NoRow
  <1>8. ASSUME NEW c \in Call, InsertMethod(c) PROVE OwnerInv'
    BY <1>8 DEF InsertMethod, Insert, Respond, TypeOK, RouteInv, RowInv, OwnerInv,
       WalletOf, In, Id, NoRow
  <1>9. ASSUME NEW c \in Call, Deactivate(c) PROVE OwnerInv'
    BY <1>9, CallFacts DEF Deactivate, Respond, TypeOK, RouteInv, RowInv, OwnerInv,
       WalletOf, In, Id, NoRow
  <1>10. ASSUME NEW c \in Call, FindPayee(c) PROVE OwnerInv'
    BY <1>10 DEF FindPayee, Goto, Respond, tables, TypeOK, RowInv, OwnerInv, WalletOf,
       In, Id, NoRow
  <1>11. ASSUME NEW c \in Call, InsertPayee(c) PROVE OwnerInv'
    BY <1>11, CallFacts DEF InsertPayee, Insert, Respond, tables, TypeOK, RouteInv,
       RowInv, OwnerInv, WalletOf, In, Id, NoRow
  <1>12. ASSUME NEW c \in Call, FindRow(c) PROVE OwnerInv'
    BY <1>12 DEF FindRow, Goto, Respond, tables, TypeOK, RowInv, OwnerInv, WalletOf, In,
       Id, NoRow
  <1>13. ASSUME NEW c \in Call, DeleteRow(c) PROVE OwnerInv'
    BY <1>13, CallFacts DEF DeleteRow, Respond, TypeOK, RouteInv, RowInv, OwnerInv,
       WalletOf, In, Id, NoRow
  <1>14. ASSUME NEW c \in Call, QueryFails(c) PROVE OwnerInv'
    BY <1>14 DEF QueryFails, Respond, tables, TypeOK, RowInv, OwnerInv, WalletOf, In,
       Id, NoRow
  <1>15. CASE UNCHANGED vars
    BY <1>15 DEF vars, tables, RowInv, OwnerInv, WalletOf, In, Id, NoRow
  <1> QED
    BY <1>1, <1>2, <1>3, <1>4, <1>5, <1>6, <1>7, <1>8, <1>9, <1>10, <1>11, <1>12, <1>13,
       <1>14, <1>15 DEF Next, Link, Methods, Payees

(* Links are never deleted.                                                *)
LEMMA StepLate == TypeOK /\ RouteInv /\ LateInv /\ [Next]_vars => LateInv'
  <1> SUFFICES ASSUME TypeOK, RouteInv, LateInv, [Next]_vars PROVE LateInv'
    OBVIOUS
  <1>1. ASSUME NEW c \in Call, Receive(c) PROVE LateInv'
    <2>1. PICK o \in Workload :
            /\ op' = [op EXCEPT ![c] = o]
            /\ pc' = [pc EXCEPT ![c] = Entry(o.kind)] /\ response' = response /\ links' = links
            /\ late' = IF o.kind \in {"link", "deleteMethod"} /\ Linked(o.target)
                       THEN late \union {c} ELSE late
      BY <1>1 DEF Receive, Goto, tables
    <2>2. pc[c] = "idle" /\ response[c] = "none" /\ c \notin late
      BY <1>1 DEF Receive, RouteInv, LateInv
    <2>3. ASSUME NEW d \in late', d # c
          PROVE  d \in late /\ op'[d] = op[d] /\ pc'[d] = pc[d] /\ response'[d] = response[d]
      BY <2>1, <2>3 DEF TypeOK
    <2>4. ASSUME c \in late'
          PROVE  /\ op'[c] = o /\ o.kind \in {"link", "deleteMethod"} /\ Linked(o.target)
                 /\ pc'[c] \in {"findWallet", "findMethod"} /\ response'[c] = "none"
      BY <2>1, <2>2, <2>4 DEF TypeOK, Entry
    <2> QED BY <2>1, <2>3, <2>4 DEF LateInv, Linked
  <1>2. ASSUME NEW c \in Call, InsertWallet(c) PROVE LateInv'
    BY <1>2 DEF InsertWallet, Insert, Respond, TypeOK, RouteInv, LateInv, Linked
  <1>3. ASSUME NEW c \in Call, FindWallet(c) PROVE LateInv'
    BY <1>3 DEF FindWallet, Goto, Respond, tables, TypeOK, RouteInv, LateInv, Linked
  <1>4. ASSUME NEW c \in Call, FindMethod(c) PROVE LateInv'
    BY <1>4 DEF FindMethod, Goto, Respond, tables, TypeOK, RouteInv, LateInv, Linked
  <1>5. ASSUME NEW c \in Call, FindLink(c) PROVE LateInv'
    BY <1>5 DEF FindLink, Goto, Respond, tables, TypeOK, RouteInv, LateInv, Linked
  <1>6. ASSUME NEW c \in Call, InsertLink(c) PROVE LateInv'
    BY <1>6 DEF InsertLink, Respond, TypeOK, RouteInv, LateInv, Linked
  <1>7. ASSUME NEW c \in Call, Count(c) PROVE LateInv'
    BY <1>7 DEF Count, Goto, Respond, tables, TypeOK, RouteInv, LateInv, Linked
  <1>8. ASSUME NEW c \in Call, InsertMethod(c) PROVE LateInv'
    BY <1>8 DEF InsertMethod, Insert, Respond, TypeOK, RouteInv, LateInv, Linked
  <1>9. ASSUME NEW c \in Call, Deactivate(c) PROVE LateInv'
    BY <1>9 DEF Deactivate, Respond, TypeOK, RouteInv, LateInv, Linked
  <1>10. ASSUME NEW c \in Call, FindPayee(c) PROVE LateInv'
    BY <1>10 DEF FindPayee, Goto, Respond, tables, TypeOK, RouteInv, LateInv, Linked
  <1>11. ASSUME NEW c \in Call, InsertPayee(c) PROVE LateInv'
    BY <1>11 DEF InsertPayee, Insert, Respond, tables, TypeOK, RouteInv, LateInv, Linked
  <1>12. ASSUME NEW c \in Call, FindRow(c) PROVE LateInv'
    BY <1>12 DEF FindRow, Goto, Respond, tables, TypeOK, RouteInv, LateInv, Linked
  <1>13. ASSUME NEW c \in Call, DeleteRow(c) PROVE LateInv'
    BY <1>13 DEF DeleteRow, Respond, TypeOK, RouteInv, LateInv, Linked
  <1>14. ASSUME NEW c \in Call, QueryFails(c) PROVE LateInv'
    BY <1>14 DEF QueryFails, Respond, tables, TypeOK, RouteInv, LateInv, Linked
  <1>15. CASE UNCHANGED vars
    BY <1>15 DEF vars, tables, LateInv, Linked
  <1> QED
    BY <1>1, <1>2, <1>3, <1>4, <1>5, <1>6, <1>7, <1>8, <1>9, <1>10, <1>11, <1>12, <1>13,
       <1>14, <1>15 DEF Next, Link, Methods, Payees

(* The key of the table lets one of the calls for a link through.          *)
LEMMA StepLinks == TypeOK /\ RouteInv /\ LinkInv /\ [Next]_vars => LinkInv'
  <1> SUFFICES ASSUME TypeOK, RouteInv, LinkInv, [Next]_vars PROVE LinkInv'
    OBVIOUS
  <1>1. ASSUME NEW c \in Call, Receive(c) PROVE LinkInv'
    BY <1>1 DEF Receive, Goto, Entry, tables, TypeOK, RouteInv, NoCall, LinkInv, Made, Asked
  <1>2. ASSUME NEW c \in Call, InsertWallet(c) PROVE LinkInv'
    BY <1>2 DEF InsertWallet, Insert, Respond, TypeOK, RouteInv, LinkInv, Made, Asked
  <1>3. ASSUME NEW c \in Call, FindWallet(c) PROVE LinkInv'
    BY <1>3 DEF FindWallet, Goto, Respond, tables, TypeOK, RouteInv, LinkInv, Made, Asked
  <1>4. ASSUME NEW c \in Call, FindMethod(c) PROVE LinkInv'
    BY <1>4 DEF FindMethod, Goto, Respond, tables, TypeOK, RouteInv, LinkInv, Made, Asked
  <1>5. ASSUME NEW c \in Call, FindLink(c) PROVE LinkInv'
    BY <1>5 DEF FindLink, Goto, Respond, tables, TypeOK, RouteInv, LinkInv, Made, Asked
  <1>6. ASSUME NEW c \in Call, InsertLink(c) PROVE LinkInv'
    BY <1>6 DEF InsertLink, Respond, TypeOK, RouteInv, LinkInv, Made, Asked
  <1>7. ASSUME NEW c \in Call, Count(c) PROVE LinkInv'
    BY <1>7 DEF Count, Goto, Respond, tables, TypeOK, RouteInv, LinkInv, Made, Asked
  <1>8. ASSUME NEW c \in Call, InsertMethod(c) PROVE LinkInv'
    BY <1>8 DEF InsertMethod, Insert, Respond, TypeOK, RouteInv, LinkInv, Made, Asked
  <1>9. ASSUME NEW c \in Call, Deactivate(c) PROVE LinkInv'
    BY <1>9 DEF Deactivate, Respond, TypeOK, RouteInv, LinkInv, Made, Asked
  <1>10. ASSUME NEW c \in Call, FindPayee(c) PROVE LinkInv'
    BY <1>10 DEF FindPayee, Goto, Respond, tables, TypeOK, RouteInv, LinkInv, Made, Asked
  <1>11. ASSUME NEW c \in Call, InsertPayee(c) PROVE LinkInv'
    BY <1>11 DEF InsertPayee, Insert, Respond, tables, TypeOK, RouteInv, LinkInv, Made,
       Asked
  <1>12. ASSUME NEW c \in Call, FindRow(c) PROVE LinkInv'
    BY <1>12 DEF FindRow, Goto, Respond, tables, TypeOK, RouteInv, LinkInv, Made, Asked
  <1>13. ASSUME NEW c \in Call, DeleteRow(c) PROVE LinkInv'
    BY <1>13 DEF DeleteRow, Respond, TypeOK, RouteInv, LinkInv, Made, Asked
  <1>14. ASSUME NEW c \in Call, QueryFails(c) PROVE LinkInv'
    BY <1>14 DEF QueryFails, Respond, tables, TypeOK, RouteInv, Queries, LinkInv, Made,
       Asked
  <1>15. CASE UNCHANGED vars
    BY <1>15 DEF vars, tables, LinkInv, Made, Asked
  <1> QED
    BY <1>1, <1>2, <1>3, <1>4, <1>5, <1>6, <1>7, <1>8, <1>9, <1>10, <1>11, <1>12, <1>13,
       <1>14, <1>15 DEF Next, Link, Methods, Payees

(* The unique index lets one of the calls for a beneficiary through.       *)
LEMMA StepPayees ==
  TypeOK /\ RouteInv /\ RowInv /\ PayeesAreUnique /\ [Next]_vars => PayeesAreUnique'
  <1> SUFFICES ASSUME TypeOK, RouteInv, RowInv, PayeesAreUnique, [Next]_vars PROVE PayeesAreUnique'
    OBVIOUS
  <1>1. ASSUME NEW c \in Call, Receive(c) PROVE PayeesAreUnique'
    BY <1>1 DEF Receive, Goto, Entry, tables, TypeOK, RouteInv, NoCall, PayeesAreUnique,
       Registered, In, NoRow, RowInv, Id
  <1>2. ASSUME NEW c \in Call, InsertWallet(c) PROVE PayeesAreUnique'
    BY <1>2 DEF InsertWallet, Insert, Respond, TypeOK, RouteInv, PayeesAreUnique,
       Registered, In, NoRow, RowInv, Id
  <1>3. ASSUME NEW c \in Call, FindWallet(c) PROVE PayeesAreUnique'
    BY <1>3 DEF FindWallet, Goto, Respond, tables, TypeOK, RouteInv, PayeesAreUnique,
       Registered, In, NoRow, RowInv, Id
  <1>4. ASSUME NEW c \in Call, FindMethod(c) PROVE PayeesAreUnique'
    BY <1>4 DEF FindMethod, Goto, Respond, tables, TypeOK, PayeesAreUnique, Registered,
       In, NoRow, RowInv, Id
  <1>5. ASSUME NEW c \in Call, FindLink(c) PROVE PayeesAreUnique'
    BY <1>5 DEF FindLink, Goto, Respond, tables, TypeOK, PayeesAreUnique, Registered,
       In, NoRow, RowInv, Id
  <1>6. ASSUME NEW c \in Call, InsertLink(c) PROVE PayeesAreUnique'
    BY <1>6 DEF InsertLink, Respond, TypeOK, RouteInv, PayeesAreUnique, Registered, In,
       NoRow, RowInv, Id
  <1>7. ASSUME NEW c \in Call, Count(c) PROVE PayeesAreUnique'
    BY <1>7 DEF Count, Goto, Respond, tables, TypeOK, PayeesAreUnique, Registered, In,
       NoRow, RowInv, Id
  <1>8. ASSUME NEW c \in Call, InsertMethod(c) PROVE PayeesAreUnique'
    BY <1>8 DEF InsertMethod, Insert, Respond, TypeOK, RouteInv, PayeesAreUnique,
       Registered, In, NoRow, RowInv, Id
  <1>9. ASSUME NEW c \in Call, Deactivate(c) PROVE PayeesAreUnique'
    BY <1>9 DEF Deactivate, Respond, TypeOK, PayeesAreUnique, Registered, In, NoRow,
       RowInv, Id
  <1>10. ASSUME NEW c \in Call, FindPayee(c) PROVE PayeesAreUnique'
    BY <1>10 DEF FindPayee, Goto, Respond, tables, TypeOK, PayeesAreUnique, Registered,
       In, NoRow, RowInv, Id
  <1>11. ASSUME NEW c \in Call, InsertPayee(c) PROVE PayeesAreUnique'
    BY <1>11 DEF InsertPayee, Insert, Respond, tables, TypeOK, RouteInv,
       PayeesAreUnique, Registered, In, NoRow, RowInv, Id
  <1>12. ASSUME NEW c \in Call, FindRow(c) PROVE PayeesAreUnique'
    BY <1>12 DEF FindRow, Goto, Respond, tables, TypeOK, PayeesAreUnique, Registered,
       In, NoRow, RowInv, Id
  <1>13. ASSUME NEW c \in Call, DeleteRow(c) PROVE PayeesAreUnique'
    BY <1>13 DEF DeleteRow, Respond, TypeOK, RouteInv, PayeesAreUnique, Registered, In,
       NoRow, RowInv, Id
  <1>14. ASSUME NEW c \in Call, QueryFails(c) PROVE PayeesAreUnique'
    BY <1>14 DEF QueryFails, Respond, tables, TypeOK, PayeesAreUnique, Registered, In,
       NoRow, RowInv, Id
  <1>15. CASE UNCHANGED vars
    BY <1>15 DEF vars, tables, PayeesAreUnique, Registered, In, NoRow, RowInv, Id
  <1> QED
    BY <1>1, <1>2, <1>3, <1>4, <1>5, <1>6, <1>7, <1>8, <1>9, <1>10, <1>11, <1>12, <1>13,
       <1>14, <1>15 DEF Next, Link, Methods, Payees

-----------------------------------------------------------------------------
(* The tables and the handlers are always in step: the invariant behind    *)
(* the theorems below.                                                     *)
THEOREM ResourcesInvariantHolds == Spec => []ResourcesInv
  <1>1. ResourcesInv /\ [Next]_vars => ResourcesInv'
    BY StepTypes, StepRows, StepOwners, StepLate, StepLinks, StepPayees DEF ResourcesInv
  <1> QED BY InitInv, <1>1, PTL DEF Spec

(* Type correctness of the wallets, payment methods and beneficiaries. *)
THEOREM ResourceTypesHold == Spec => []TypeOK
  <1>1. ResourcesInv => TypeOK
    BY DEF ResourcesInv
  <1> QED BY <1>1, ResourcesInvariantHolds, PTL

(* linkPaymentMethod and the deletion of payment methods refuse a method   *)
(* that was linked when the call was sent, whatever else is under way.     *)
THEOREM LateCallsStayRefused == Spec => []LateCallsRefused
  <1>1. ResourcesInv => LateCallsRefused
    BY DEF ResourcesInv, LateInv, LateCallsRefused
  <1> QED BY <1>1, ResourcesInvariantHolds, PTL

(* Each row of wallet_payment_methods is the work of exactly one call,     *)
(* made by the owner of the wallet and told that it succeeded.             *)
THEOREM LinksStayAccountedFor == Spec => []LinksAreAccountedFor
  <1>1. ResourcesInv => LinksAreAccountedFor
    <2> SUFFICES ASSUME ResourcesInv PROVE LinksAreAccountedFor
      OBVIOUS
    <2> DEFINE Makers(l) == {c \in Call : op[c].kind = "link" /\ response[c] = "ok" /\ Asked(c) = l}
    <2>1. ASSUME NEW l \in links
          PROVE  \E c \in Makers(l) : op[c].user = row[l[1]].user
      <3>1. PICK c \in Call : Made(c) /\ Asked(c) = l
        BY DEF ResourcesInv, LinkInv
      <3>2. WalletOf(c) /\ l[1] = op[c].wallet
        BY <3>1 DEF ResourcesInv, OwnerInv, Made, Asked
      <3> QED BY <3>1, <3>2 DEF WalletOf, Made
    <2>2. ASSUME NEW c \in Call, Made(c)
          PROVE  Asked(c) \in links /\ Makers(Asked(c)) = {c}
      <3>1. \A d \in Makers(Asked(c)) : d = c
        BY <2>2 DEF ResourcesInv, LinkInv, Made
      <3>2. c \in Makers(Asked(c)) /\ Asked(c) \in links
        BY <2>2 DEF ResourcesInv, LinkInv, Made
      <3> QED BY <3>1, <3>2
    <2> QED BY <2>1, <2>2 DEF LinksAreAccountedFor, Made, Asked
  <1> QED BY <1>1, ResourcesInvariantHolds, PTL

(* No user has a beneficiary twice, however many calls that add it overlap *)
(* between their look-up and their INSERT.                                 *)
THEOREM PayeesStayUnique == Spec => []PayeesAreUnique
  <1>1. ResourcesInv => PayeesAreUnique
    BY DEF ResourcesInv
  <1> QED BY <1>1, ResourcesInvariantHolds, PTL

-----------------------------------------------------------------------------
(* The limit.  A call past its count holds a place for the method it will  *)
(* add.  Methods and places of a user exceed the limit by less than the    *)
(* number of calls that add one: the last of them to pass the count found  *)
(* fewer methods than the limit, and no more places are taken than there   *)
(* are such calls.                                                         *)
Adding(u) == {c \in Call : op[c].kind = "newMethod" /\ op[c].user = u}
Inserting(u) == {c \in Call : pc[c] = "insertMethod" /\ op[c].user = u}
Taken(u) == Cardinality(ActiveMethods(u)) + Cardinality(Inserting(u))
Excess(u) == IF Adding(u) = {} THEN 0 ELSE Cardinality(Adding(u)) - 1
PlacesInv == \A u \in User : Taken(u) <= MaxMethods + Excess(u)

LEMMA CardinalityFacts ==
  ASSUME NEW u
  PROVE  /\ IsFiniteSet(ActiveMethods(u)) /\ Cardinality(ActiveMethods(u)) \in Nat
         /\ IsFiniteSet(Inserting(u)) /\ Cardinality(Inserting(u)) \in Nat
         /\ IsFiniteSet(Adding(u)) /\ Cardinality(Adding(u)) \in Nat
         /\ Adding(u) # {} => Cardinality(Adding(u)) >= 1
         /\ Excess(u) \in Nat /\ MaxMethods \in Nat
  <1>1. IsFiniteSet(Id) /\ IsFiniteSet(Call) /\ MaxMethods \in Nat
    BY ResourcesAssumption, FS_Union DEF Id
  <1>2. ActiveMethods(u) \subseteq Id /\ Inserting(u) \subseteq Call /\ Adding(u) \subseteq Call
    BY DEF ActiveMethods, Inserting, Adding
  <1>3. IsFiniteSet(ActiveMethods(u)) /\ IsFiniteSet(Inserting(u)) /\ IsFiniteSet(Adding(u))
    BY <1>1, <1>2, FS_Subset
  <1>4. /\ Cardinality(ActiveMethods(u)) \in Nat /\ Cardinality(Inserting(u)) \in Nat
        /\ Cardinality(Adding(u)) \in Nat
    BY <1>3, FS_CardinalityType
  <1>5. Adding(u) # {} => Cardinality(Adding(u)) >= 1
    BY <1>3, <1>4, FS_EmptySet
  <1>6. Excess(u) \in Nat
    BY <1>4, <1>5 DEF Excess
  <1> QED BY <1>1, <1>3, <1>4, <1>5, <1>6

(* A step that adds no active method of u and no call past the count for u *)
(* takes no place.                                                         *)
LEMMA NoPlaceTaken ==
  ASSUME NEW u, ActiveMethods(u)' \subseteq ActiveMethods(u), Inserting(u)' \subseteq Inserting(u),
         Adding(u) \subseteq Adding(u)', Taken(u) <= MaxMethods + Excess(u)
  PROVE  Taken(u)' <= MaxMethods + Excess(u)'
  <1>1. /\ Cardinality(ActiveMethods(u)') <= Cardinality(ActiveMethods(u))
        /\ Cardinality(Inserting(u)') <= Cardinality(Inserting(u))
        /\ Cardinality(ActiveMethods(u)') \in Nat /\ Cardinality(Inserting(u)') \in Nat
    BY CardinalityFacts, FS_Subset, FS_CardinalityType
  <1>2. IsFiniteSet(Adding(u)') /\ Cardinality(Adding(u)') \in Nat
    <2>1. Adding(u)' \subseteq Call
      BY DEF Adding
    <2> QED BY <2>1, ResourcesAssumption, FS_Subset, FS_CardinalityType
  <1>3. Cardinality(Adding(u)) <= Cardinality(Adding(u)')
    BY <1>2, FS_Subset
  <1>4. Excess(u) <= Excess(u)' /\ Excess(u)' \in Nat
    <2>1. Adding(u)' # {} => Cardinality(Adding(u)') >= 1
      BY <1>2, FS_EmptySet
    <2>2. Adding(u) # {} => Adding(u)' # {}
      OBVIOUS
    <2> QED BY <1>2, <1>3, <2>1, <2>2, CardinalityFacts DEF Excess
  <1> QED BY <1>1, <1>4, CardinalityFacts DEF Taken

(* A method is added by a call that gives up its place. *)
LEMMA InsertTakesItsPlace ==
  ASSUME TypeOK, RouteInv, RowInv, NEW c \in Call, InsertMethod(c), NEW u \in User,
         Taken(u) <= MaxMethods + Excess(u)
  PROVE  Taken(u)' <= MaxMethods + Excess(u)'
  <1>1. /\ pc[c] = "insertMethod" /\ pc' = [pc EXCEPT ![c] = "done"]
        /\ row' = [row EXCEPT ![c] = [table |-> "method", user |-> op[c].user, payee |-> op[c].payee]]
        /\ op' = op /\ inactive' = inactive
    BY DEF InsertMethod, Insert, Respond
  <1>2. c \in Id /\ row[c] = NoRow
    BY <1>1 DEF RowInv, Id
  <1>3. \A i \in Id : i # c => row'[i] = row[i]
    BY <1>1 DEF TypeOK
  <1>4. row'[c].table = "method" /\ row'[c].user = op[c].user
    BY <1>1, <1>2 DEF TypeOK
  <1>5. \A d \in Call : pc'[d] = IF d = c THEN "done" ELSE pc[d]
    BY <1>1 DEF TypeOK
  <1>6. Adding(u)' = Adding(u)
    BY <1>1 DEF Adding
  <1>7. c \notin ActiveMethods(u)
    BY <1>2 DEF ActiveMethods, In, NoRow
  <1>8. CASE op[c].user # u
    <2>1. ActiveMethods(u)' \subseteq ActiveMethods(u)
      BY <1>1, <1>3, <1>4, <1>8 DEF ActiveMethods, In
    <2>2. Inserting(u)' \subseteq Inserting(u)
      BY <1>1, <1>5 DEF Inserting
    <2> QED BY <1>6, <2>1, <2>2, NoPlaceTaken
  <1>9. CASE op[c].user = u
    <2>1. ActiveMethods(u)' \subseteq ActiveMethods(u) \union {c}
      BY <1>1, <1>3, <1>4 DEF ActiveMethods, In
    <2>2. Inserting(u)' = Inserting(u) \ {c} /\ c \in Inserting(u)
      BY <1>1, <1>5, <1>9 DEF Inserting
    <2>3. /\ IsFiniteSet(ActiveMethods(u) \union {c})
          /\ Cardinality(ActiveMethods(u) \union {c}) = Cardinality(ActiveMethods(u)) + 1
      BY <1>7, CardinalityFacts, FS_AddElement
    <2>4. /\ Cardinality(ActiveMethods(u)') <= Cardinality(ActiveMethods(u)) + 1
          /\ Cardinality(ActiveMethods(u)') \in Nat
      BY <2>1, <2>3, FS_Subset, FS_CardinalityType
    <2>5. Cardinality(Inserting(u)') = Cardinality(Inserting(u)) - 1
      BY <2>2, CardinalityFacts, FS_RemoveElement
    <2>6. Excess(u)' = Excess(u)
      BY <1>6 DEF Excess
    <2> QED BY <2>4, <2>5, <2>6, CardinalityFacts DEF Taken
  <1> QED BY <1>8, <1>9

(* The last call to pass the count found a method less than the limit. *)
LEMMA CountTakesAPlace ==
  ASSUME TypeOK, RouteInv, NEW c \in Call, Count(c), NEW u \in User,
         Taken(u) <= MaxMethods + Excess(u)
  PROVE  Taken(u)' <= MaxMethods + Excess(u)'
  <1>1. /\ pc[c] = "count" /\ op' = op /\ row' = row /\ inactive' = inactive
        /\ \/ pc' = [pc EXCEPT ![c] = "done"]
           \/ /\ ~(Cardinality(ActiveMethods(op[c].user)) >= MaxMethods)
              /\ pc' = [pc EXCEPT ![c] = "insertMethod"]
    BY DEF Count, Goto, Respond, tables
  <1>2. ActiveMethods(u)' = ActiveMethods(u) /\ Adding(u)' = Adding(u)
    BY <1>1 DEF ActiveMethods, In, Adding
  <1>3. CASE Inserting(u)' \subseteq Inserting(u)
    BY <1>2, <1>3, NoPlaceTaken
  <1>4. CASE ~(Inserting(u)' \subseteq Inserting(u))
    <2>1. op[c].user = u /\ ~(Cardinality(ActiveMethods(u)) >= MaxMethods)
      BY <1>1, <1>4 DEF Inserting, TypeOK
    <2>2. c \in Adding(u) /\ Inserting(u)' \subseteq Adding(u)
      BY <1>1, <2>1 DEF RouteInv, Adding, Inserting, TypeOK
    <2>3. Cardinality(Inserting(u)') <= Cardinality(Adding(u)) /\ Cardinality(Inserting(u)') \in Nat
      BY <2>2, CardinalityFacts, FS_Subset, FS_CardinalityType
    <2>4. Excess(u)' = Cardinality(Adding(u)) - 1
      BY <1>2, <2>2 DEF Excess
    <2> QED BY <1>2, <2>1, <2>3, <2>4, CardinalityFacts DEF Taken
  <1> QED BY <1>3, <1>4

LEMMA ReceiveTakesNoPlace ==
  ASSUME TypeOK, RouteInv, NEW c \in Call, Receive(c), NEW u \in User,
         Taken(u) <= MaxMethods + Excess(u)
  PROVE  Taken(u)' <= MaxMethods + Excess(u)'
  <1>1. PICK o \in Workload :
          /\ pc[c] = "idle" /\ op' = [op EXCEPT ![c] = o] /\ pc' = [pc EXCEPT ![c] = Entry(o.kind)]
          /\ row' = row /\ inactive' = inactive
    BY DEF Receive, Goto, tables
  <1>2. ActiveMethods(u)' = ActiveMethods(u)
    BY <1>1 DEF ActiveMethods, In
  <1>3. op[c].kind = "none" /\ Entry(o.kind) # "insertMethod"
    BY <1>1 DEF RouteInv, NoCall, Entry
  <1>4. Adding(u) \subseteq Adding(u)'
    BY <1>1, <1>3 DEF Adding, TypeOK
  <1>5. Inserting(u)' \subseteq Inserting(u)
    BY <1>1, <1>3 DEF Inserting, TypeOK
  <1> QED BY <1>2, <1>4, <1>5, NoPlaceTaken

(* The other queries: none makes an active method or passes the count.     *)
LEMMA OthersTakeNoPlace ==
  ASSUME TypeOK, NEW c \in Call,
         InsertWallet(c) \/ Link(c) \/ Deactivate(c) \/ Payees(c) \/ QueryFails(c), NEW u \in User,
         Taken(u) <= MaxMethods + Excess(u)
  PROVE  Taken(u)' <= MaxMethods + Excess(u)'
  <1>1. op' = op /\ inactive \subseteq inactive'
    BY DEF InsertWallet, Insert, Link, FindWallet, FindMethod, FindLink, InsertLink, Deactivate,
       Payees, FindPayee, InsertPayee, FindRow, DeleteRow, QueryFails, tables
  <1>2. \E query \in Queries \union {"done"} : query # "insertMethod" /\ pc' = [pc EXCEPT ![c] = query]
    BY DEF InsertWallet, Insert, Link, FindWallet, FindMethod, FindLink, InsertLink, Deactivate,
       Payees, FindPayee, InsertPayee, FindRow, DeleteRow, QueryFails, Respond, Goto, Queries
  <1>3. \A i \in Id : In(i, "method")' => row'[i] = row[i]
    BY DEF InsertWallet, Insert, Link, FindWallet, FindMethod, FindLink, InsertLink, Deactivate,
       Payees, FindPayee, InsertPayee, FindRow, DeleteRow, QueryFails, tables, In, NoRow, TypeOK
  <1>4. ActiveMethods(u)' \subseteq ActiveMethods(u)
    BY <1>1, <1>3 DEF ActiveMethods, In
  <1>5. Inserting(u)' \subseteq Inserting(u) /\ Adding(u)' = Adding(u)
    BY <1>1, <1>2 DEF Inserting, Adding, TypeOK
  <1> QED BY <1>4, <1>5, NoPlaceTaken

LEMMA StepPlaces == TypeOK /\ RouteInv /\ RowInv /\ PlacesInv /\ [Next]_vars => PlacesInv'
  <1> SUFFICES ASSUME TypeOK, RouteInv, RowInv, PlacesInv, [Next]_vars, NEW u \in User
               PROVE  Taken(u)' <= MaxMethods + Excess(u)'
    BY DEF PlacesInv
  <1>0. Taken(u) <= MaxMethods + Excess(u)
    BY DEF PlacesInv
  <1>1. CASE UNCHANGED vars
    BY <1>0, <1>1, NoPlaceTaken DEF vars, tables, ActiveMethods, In, Inserting, Adding
  <1>2. ASSUME NEW c \in Call,
               Receive(c) \/ InsertWallet(c) \/ Link(c) \/ Methods(c) \/ Payees(c) \/ QueryFails(c)
        PROVE  Taken(u)' <= MaxMethods + Excess(u)'
    BY <1>0, <1>2, InsertTakesItsPlace, CountTakesAPlace, ReceiveTakesNoPlace, OthersTakeNoPlace
       DEF Methods
  <1> QED BY <1>1, <1>2 DEF Next

(* Calls that race for the last payment method add at most one more for    *)
(* each of them but one, for every limit, whatever is deleted meanwhile.   *)
THEOREM MethodsOvershootStaysBounded == Spec => []OvershootIsBounded
  <1>1. Init => PlacesInv
    <2> SUFFICES ASSUME Init, NEW u \in User PROVE Taken(u) <= MaxMethods + Excess(u)
      BY DEF PlacesInv
    <2>1. ActiveMethods(u) = {i \in GivenId : Given[i].table = "method" /\ Given[i].user = u}
      BY ResourcesAssumption DEF Init, ActiveMethods, In, NoRow, Id
    <2>2. Inserting(u) = {}
      BY DEF Init, Inserting
    <2>3. Cardinality(ActiveMethods(u)) <= MaxMethods /\ Cardinality(Inserting(u)) = 0
      BY <2>1, <2>2, ResourcesAssumption, FS_EmptySet
    <2> QED BY <2>3, CardinalityFacts DEF Taken
  <1>2. ResourcesInv /\ PlacesInv /\ [Next]_vars => PlacesInv'
    BY StepPlaces DEF ResourcesInv
  <1>3. PlacesInv => OvershootIsBounded
    <2> SUFFICES ASSUME PlacesInv, NEW u \in User, Adding(u) # {}
                 PROVE  Cardinality(ActiveMethods(u)) <= MaxMethods + Cardinality(Adding(u)) - 1
      BY DEF OvershootIsBounded, Adding
    <2>1. Taken(u) <= MaxMethods + Cardinality(Adding(u)) - 1
      BY CardinalityFacts DEF PlacesInv, Excess
    <2> QED BY <2>1, CardinalityFacts DEF Taken
  <1> QED BY <1>1, <1>2, <1>3, ResourcesInvariantHolds, PTL DEF Spec
=============================================================================
