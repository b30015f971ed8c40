---------------------------- MODULE LedgerProofs ----------------------------
(***************************************************************************)
(* Theorems about Ledger, for every set of requests, accounts and users,   *)
(* every workload and every bound.                                         *)
(***************************************************************************)
EXTENDS LedgerInvariant, FiniteSetTheorems, WellFoundedInduction, TLAPS

-----------------------------------------------------------------------------
(* Operations and plans. *)

(* An operation names accounts, the ones it spends from and pays into      *)
(* among them, and asks for a natural amount.                              *)
LEMMA OperationFacts ==
  ASSUME NEW o \in Workload
  PROVE  /\ o.amount \in Nat /\ (IsMoney(o) => o.amount > 0)
         /\ o.kind \in Kinds
         /\ o.ids \in Seq(Account) /\ Len(o.ids) > 0
         /\ Names(o) \subseteq Account
         /\ Src(o) \in Names(o) /\ Dst(o) \in Names(o)
         /\ o # NoOp
         /\ o.kind \in SingleKinds /\ o.kind # "transfer" =>
              Src(o) = Dst(o) /\ Names(o) = {Src(o)}
         /\ o.kind = "transfer" => Names(o) = {Src(o), Dst(o)}
  <1>1. IsOperation(o)
    BY BankAssumption
  <1>2. o.kind # NoOp.kind
    BY <1>1 DEF IsOperation, NoOp, Kinds, MoneyKinds, UpdateKinds, DeleteKinds
  <1>3. /\ o.amount \in Nat /\ (IsMoney(o) => o.amount > 0)
        /\ o.kind \in Kinds
        /\ o.ids \in Seq(Account) /\ Len(o.ids) > 0
    BY <1>1 DEF IsOperation, IsMoney
  <1>4. /\ Names(o) \subseteq Account
        /\ Src(o) \in Names(o) /\ Dst(o) \in Names(o)
    BY <1>3 DEF Names, Src, Dst
  <1>5. o.kind \in SingleKinds /\ o.kind # "transfer" =>
          Src(o) = Dst(o) /\ Names(o) = {Src(o)}
    BY <1>1, <1>3 DEF IsOperation, Names, Src, Dst
  <1>6. o.kind = "transfer" => Names(o) = {Src(o), Dst(o)}
    BY <1>1, <1>3 DEF IsOperation, Names, Src, Dst, SingleKinds
  <1>7. QED
    BY <1>2, <1>3, <1>4, <1>5, <1>6

(* The plan of an operation is made of the accounts it names; unless it    *)
(* creates them, of all of them.                                           *)
LEMMA PlanFacts ==
  ASSUME NEW o \in Workload
  PROVE  /\ Plan(o) \in Seq(Account)
         /\ \A i \in 1..Len(Plan(o)) : Plan(o)[i] \in Names(o)
         /\ o.kind # "create" =>
              /\ Len(Plan(o)) > 0
              /\ \A a \in Names(o) : \E i \in 1..Len(Plan(o)) : Plan(o)[i] = a
  <1> USE OperationFacts
  <1>1. CASE o.kind = "create"
    BY <1>1 DEF Plan
  <1>2. CASE o.kind \notin {"create", "transfer"}
    BY <1>2 DEF Plan, Names
  <1>3. CASE o.kind = "transfer" /\ Src(o) = Dst(o)
    <2>1. Plan(o) = <<Src(o)>>
      BY <1>3 DEF Plan
    <2>2. QED
      BY <1>3, <2>1
  <1>4. CASE o.kind = "transfer" /\ Src(o) # Dst(o)
    <2>1. Plan(o) = <<Src(o), Dst(o)>> \/ Plan(o) = <<Dst(o), Src(o)>>
      BY <1>4 DEF Plan
    <2>2. Names(o) = {Src(o), Dst(o)} /\ Names(o) \subseteq Account
      BY <1>4
    <2>3. ASSUME NEW x \in Account, NEW y \in Account, Plan(o) = <<x, y>>,
                 Names(o) = {x, y}
          PROVE  /\ Plan(o) \in Seq(Account) /\ Len(Plan(o)) = 2
                 /\ \A i \in 1..2 : Plan(o)[i] \in Names(o)
                 /\ \A a \in Names(o) : a = Plan(o)[1] \/ a = Plan(o)[2]
      <3>1. Len(Plan(o)) = 2 /\ Plan(o)[1] = x /\ Plan(o)[2] = y
        BY <2>3
      <3>2. Plan(o) \in Seq(Account)
        BY <2>3
      <3>3. \A i \in 1..2 : i = 1 \/ i = 2
        OBVIOUS
      <3>4. QED
        BY <2>3, <3>1, <3>2, <3>3
    <2>4. QED
      BY <2>1, <2>2, <2>3
  <1>5. QED
    BY <1>1, <1>2, <1>3, <1>4

-----------------------------------------------------------------------------
(* The steps of a request, sorted by what they do to the state. *)

Refused(r) ==
  pc[r] \in {"check", "checkDest"} /\ \E code \in {"403", "404", "409"} : Refuse(r, code)
Aborted(r) ==
  pc[r] \in BeforeCommit /\ \E code \in {"404", "422", "500", "503"} : Abort(r, code)
PassCheck(r) ==
  /\ pc[r] = "check"
  /\ \A a \in Names(op[r]) :
       (op[r].kind = "transfer" => a = Src(op[r])) => Mine(r, a)
  /\ Proceed(r, IF op[r].kind = "transfer" THEN "checkDest" ELSE "lock")
PassDestination(r) ==
  pc[r] = "checkDest" /\ status[Dst(op[r])] = "open" /\ Proceed(r, "lock")
PassFunds(r) ==
  /\ pc[r] = "funds" /\ status[Src(op[r])] = "open"
  /\ op[r].amount <= pending[Src(op[r])]
  /\ Proceed(r, "debit")
SkipRow(r) ==
  /\ pc[r] = "lock" /\ RowGone(r) /\ IsMoney(op[r])
  /\ Advance(r)
  /\ UNCHANGED <<op, rows, journal, effects, response, crashes>>
CreditRow(r) ==
  LET b == pending[Dst(op[r])] + op[r].amount IN
  /\ pc[r] = "credit" /\ status[Dst(op[r])] = "open" /\ b <= MaxBalance
  /\ Write(r, Dst(op[r]), b)
  /\ recorded' = IF Debits(op[r]) THEN recorded ELSE [recorded EXCEPT ![r] = b]
  /\ Goto(r, "commit")

RequestStep(r) ==
  \/ Receive(r) \/ Refused(r) \/ Aborted(r)
  \/ PassCheck(r) \/ PassDestination(r) \/ PassFunds(r)
  \/ LockRow(r) \/ SkipRow(r) \/ Debit(r) \/ CreditRow(r)
  \/ CommitMoney(r) \/ CommitUpdate(r) \/ CommitDelete(r) \/ CommitCreate(r)
  \/ Notify(r) \/ NotifyFails(r) \/ Answer(r)

(* Every step of the ledger is one of these, a crash, or no step at all.   *)
LEMMA StepKinds ==
  ASSUME TypeOK, RouteInv, [Next]_vars
  PROVE  \/ \E r \in Request : RequestStep(r)
         \/ Crash
         \/ UNCHANGED vars
  <1> SUFFICES ASSUME NEW r \in Request, Receive(r) \/ Progress(r) \/ Fault(r)
               PROVE  RequestStep(r)
    BY DEF Next
  <1>0. pc[r] # "idle" => op[r] \in Workload
    BY DEF TypeOK, RouteInv
  <1>1. CASE Receive(r)
    BY <1>1 DEF RequestStep
  <1>2. CASE CheckSingle(r)
    <2>1. op[r].kind = "transfer" \/ Names(op[r]) = {Src(op[r])}
      BY <1>0, <1>2, OperationFacts DEF CheckSingle
    <2>2. Refused(r) \/ PassCheck(r)
      BY <1>2, <2>1 DEF CheckSingle, Refused, PassCheck
    <2>3. QED
      BY <2>2 DEF RequestStep
  <1>3. CASE CheckDestination(r)
    BY <1>3 DEF CheckDestination, Refused, PassDestination, RequestStep
  <1>4. CASE CheckBulk(r)
    BY <1>4 DEF CheckBulk, Refused, PassCheck, RequestStep
  <1>5. CASE LockRow(r)
    BY <1>5 DEF RequestStep
  <1>6. CASE MissRow(r)
    BY <1>6 DEF MissRow, Aborted, BeforeCommit, InTransaction, SkipRow, RequestStep
  <1>7. CASE CheckFunds(r)
    BY <1>7 DEF CheckFunds, Aborted, BeforeCommit, InTransaction, PassFunds, RequestStep
  <1>8. CASE Debit(r)
    BY <1>8 DEF RequestStep
  <1>9. CASE Credit(r)
    BY <1>9 DEF Credit, Aborted, BeforeCommit, InTransaction, CreditRow, RequestStep
  <1>10. CASE Commit(r) \/ Finish(r) \/ NotifyFails(r)
    BY <1>10 DEF Commit, Finish, RequestStep
  <1>11. CASE LockTimeout(r)
    BY <1>11 DEF LockTimeout, Blocked, Aborted, BeforeCommit, InTransaction, RequestStep
  <1>12. CASE DeadlockAbort(r)
    BY <1>12 DEF DeadlockAbort, Deadlocked, WaitCycle, Blocked, Aborted, BeforeCommit,
                 InTransaction, RequestStep
  <1>13. CASE QueryFails(r)
    BY <1>13 DEF QueryFails, Aborted, BeforeCommit, RequestStep
  <1>14. QED
    BY <1>1, <1>2, <1>3, <1>4, <1>5, <1>6, <1>7, <1>8, <1>9, <1>10, <1>11, <1>12,
       <1>13 DEF Progress, Check, Rows, Fault

(* The facts about operations, of a request that has arrived.              *)
LEMMA RequestFacts ==
  ASSUME TypeOK, RouteInv
  PROVE  \A r \in Request : pc[r] # "idle" =>
           /\ op[r] \in Workload
           /\ op[r].amount \in Nat /\ (IsMoney(op[r]) => op[r].amount > 0)
           /\ Names(op[r]) \subseteq Account
           /\ Src(op[r]) \in Names(op[r]) /\ Dst(op[r]) \in Names(op[r])
           /\ op[r].kind \in SingleKinds /\ op[r].kind # "transfer" =>
                Src(op[r]) = Dst(op[r]) /\ Names(op[r]) = {Src(op[r])}
           /\ op[r].kind = "transfer" => Names(op[r]) = {Src(op[r]), Dst(op[r])}
  <1> SUFFICES ASSUME NEW r \in Request, pc[r] # "idle"
               PROVE  op[r] \in Workload
    BY OperationFacts
  <1>1. QED
    BY DEF TypeOK, RouteInv

(* Every step preserves the types and the routes of the handlers.          *)
LEMMA RoutesPreserved ==
  ASSUME TypeOK, RouteInv, [Next]_vars
  PROVE  TypeOK' /\ RouteInv'
  <1> USE DEF TypeOK, RouteInv, PCs, Working, InTransaction, Responses
  <1>1. ASSUME NEW r \in Request, Receive(r)
        PROVE  TypeOK' /\ RouteInv'
    <2>1. PICK o \in Workload :
            op' = [op EXCEPT ![r] = o] /\ pc' = [pc EXCEPT ![r] = IF o.kind = "create" THEN "commit" ELSE "check"]
      BY <1>1 DEF Receive, Goto
    <2>2. o # NoOp
      BY OperationFacts
    <2>3. QED
      BY <1>1, <2>1, <2>2 DEF Receive, rows, journal, effects
  <1>2. ASSUME NEW r \in Request, Refused(r)
        PROVE  TypeOK' /\ RouteInv'
    BY <1>2 DEF Refused, Refuse, Respond, Goto, rows, journal, effects
  <1>3. ASSUME NEW r \in Request, Aborted(r)
        PROVE  TypeOK' /\ RouteInv'
    BY <1>3 DEF Aborted, Abort, Respond, Goto, Released, BeforeCommit, journal, effects
  <1>4. ASSUME NEW r \in Request, PassCheck(r) \/ PassDestination(r) \/ PassFunds(r)
        PROVE  TypeOK' /\ RouteInv'
    BY <1>4 DEF PassCheck, PassDestination, PassFunds, Proceed, Goto, rows, journal, effects
  <1>5. ASSUME NEW r \in Request, LockRow(r) \/ SkipRow(r)
        PROVE  TypeOK' /\ RouteInv'
    <2>1. PICK label \in {"lock", "funds", "credit", "commit"} :
            /\ pc[r] = "lock" /\ pc' = [pc EXCEPT ![r] = label]
            /\ label = "funds" => Debits(op[r])
            /\ label = "credit" => Credits(op[r])
      BY <1>5 DEF LockRow, SkipRow, Advance, AfterLocks, Goto
    <2>2. /\ locked' = [locked EXCEPT ![r] = locked[r] + 1]
          /\ lock' = [lock EXCEPT ![NextRow(r)] = r] \/ lock' = lock
      BY <1>5 DEF LockRow, SkipRow, Advance, rows
    <2>3. UNCHANGED <<op, status, balance, pending, journal, effects, response, crashes>>
      BY <1>5 DEF LockRow, SkipRow, rows
    <2>4. TypeOK'
      BY <2>1, <2>2, <2>3 DEF journal, effects
    <2>5. RouteInv'
      BY <2>1, <2>3
    <2>6. QED
      BY <2>4, <2>5
  <1>6. ASSUME NEW r \in Request, Debit(r)
        PROVE  TypeOK' /\ RouteInv'
    <2>1. op[r] \in Workload /\ op[r].amount \in Nat /\ Src(op[r]) \in Account
      BY <1>6, OperationFacts DEF Debit
    <2>2. pending[Src(op[r])] - op[r].amount \in Int
      BY <2>1
    <2>3. QED
      BY <1>6, <2>1, <2>2 DEF Debit, Write, Goto, effects, Credits, Debits
  <1>7. ASSUME NEW r \in Request, CreditRow(r)
        PROVE  TypeOK' /\ RouteInv'
    <2>1. op[r] \in Workload /\ op[r].amount \in Nat /\ Dst(op[r]) \in Account
      BY <1>7, OperationFacts DEF CreditRow
    <2>2. pending[Dst(op[r])] + op[r].amount \in Int
      BY <2>1
    <2>3. QED
      BY <1>7, <2>1, <2>2 DEF CreditRow, Write, Goto, effects
  <1>8. ASSUME NEW r \in Request, CommitMoney(r) \/ CommitUpdate(r) \/ CommitDelete(r)
        PROVE  TypeOK' /\ RouteInv'
    BY <1>8 DEF CommitMoney, CommitUpdate, CommitDelete, Released, Goto, effects
  <1>9. ASSUME NEW r \in Request, CommitCreate(r)
        PROVE  TypeOK' /\ RouteInv'
    BY <1>9 DEF CommitCreate, Goto, effects
  <1>10. ASSUME NEW r \in Request, Notify(r) \/ NotifyFails(r) \/ Answer(r)
         PROVE  TypeOK' /\ RouteInv'
    BY <1>10 DEF Notify, NotifyFails, Answer, Refuse, Respond, Goto, rows, journal, effects
  <1>11. CASE Crash
    BY <1>11, LedgerAssumption DEF Crash, journal, effects
  <1>12. CASE UNCHANGED vars
    BY <1>12 DEF vars
  <1>13. QED
    BY <1>1, <1>2, <1>3, <1>4, <1>5, <1>6, <1>7, <1>8, <1>9, <1>10, <1>11, <1>12,
       StepKinds DEF RequestStep

(* Settling and answering keep their order. *)
LEMMA SettledPreserved ==
  ASSUME TypeOK, RouteInv, SettledInv, [Next]_vars
  PROVE  SettledInv'
  <1> USE DEF TypeOK, RouteInv, SettledInv, BeforeCommit, InTransaction, Working
  <1>1. ASSUME NEW r \in Request, Receive(r)
        PROVE  SettledInv'
    BY <1>1 DEF Receive, Goto, journal
  <1>2. ASSUME NEW r \in Request, Refused(r) \/ Aborted(r)
        PROVE  SettledInv'
    <2>1. PICK code \in Responses : /\ pc' = [pc EXCEPT ![r] = "done"]
                                    /\ response' = [response EXCEPT ![r] = code]
                                    /\ code # "ok"
      BY <1>2 DEF Refused, Aborted, Refuse, Abort, Respond, Goto, Responses
    <2>2. r \notin settled /\ settled' = settled
      BY <1>2 DEF Refused, Aborted, Refuse, Abort, journal
    <2>3. QED
      BY <2>1, <2>2
  <1>3. ASSUME NEW r \in Request, PassCheck(r) \/ PassDestination(r) \/ PassFunds(r)
        PROVE  SettledInv'
    BY <1>3 DEF PassCheck, PassDestination, PassFunds, Proceed, Goto, journal
  <1>4. ASSUME NEW r \in Request, LockRow(r) \/ SkipRow(r) \/ Debit(r) \/ CreditRow(r)
        PROVE  SettledInv'
    <2>1. PICK label \in {"lock", "funds", "credit", "commit"} :
            pc' = [pc EXCEPT ![r] = label]
      BY <1>4 DEF LockRow, SkipRow, Debit, CreditRow, Advance, AfterLocks, Goto
    <2>2. r \notin settled /\ settled' = settled /\ response' = response
      BY <1>4 DEF LockRow, SkipRow, Debit, CreditRow, Write, journal
    <2>3. QED
      BY <2>1, <2>2
  <1>5. ASSUME NEW r \in Request,
               CommitMoney(r) \/ CommitUpdate(r) \/ CommitDelete(r) \/ CommitCreate(r)
        PROVE  SettledInv'
    BY <1>5 DEF CommitMoney, CommitUpdate, CommitDelete, CommitCreate, Goto
  <1>6. ASSUME NEW r \in Request, Notify(r) \/ NotifyFails(r) \/ Answer(r)
        PROVE  SettledInv'
    BY <1>6 DEF Notify, NotifyFails, Answer, Refuse, Respond, Goto, journal
  <1>7. CASE Crash
    BY <1>7 DEF Crash, journal
  <1>8. CASE UNCHANGED vars
    BY <1>8 DEF vars
  <1>9. QED
    BY <1>1, <1>2, <1>3, <1>4, <1>5, <1>6, <1>7, <1>8, StepKinds DEF RequestStep

(* How a step changes the existence of accounts: a deletion removes rows   *)
(* its transaction holds, a creation adds its own.                         *)
LEMMA StatusSteps ==
  ASSUME TypeOK, RouteInv, FreshInv, PlanInv, [Next]_vars, NEW a \in Account
  PROVE  /\ status'[a] = "unused" => status[a] = "unused"
         /\ status[a] = "deleted" => status'[a] = "deleted"
         /\ lock[a] = Nobody /\ status[a] = "open" => status'[a] = "open"
  <1>1. CASE UNCHANGED status
    BY <1>1
  <1>2. ASSUME NEW r \in Request, CommitDelete(r)
        PROVE  /\ status'[a] = (IF lock[a] = r THEN "deleted" ELSE status[a])
               /\ lock[a] = r => lock[a] # Nobody
    BY <1>2, LedgerAssumption DEF CommitDelete
  <1>3. ASSUME NEW r \in Request, CommitCreate(r)
        PROVE  /\ status'[a] = (IF a \in Names(op[r]) THEN "open" ELSE status[a])
               /\ a \in Names(op[r]) => status[a] = "unused"
    BY <1>3 DEF CommitCreate, FreshInv
  <1>4. CASE ~UNCHANGED status
    <2>1. \E r \in Request : CommitDelete(r) \/ CommitCreate(r)
      BY <1>4, StepKinds DEF RequestStep, Receive, Refused, Refuse, Aborted, Abort,
         PassCheck, PassDestination, PassFunds, Proceed, LockRow, SkipRow, Debit, CreditRow,
         Write, CommitMoney, CommitUpdate, Notify, NotifyFails, Answer, Crash, vars, rows
    <2>2. QED
      BY <1>2, <1>3, <2>1
  <1>5. QED
    BY <1>1, <1>4

(* What a request has checked stays true of the accounts it names: an      *)
(* account may go, but it never goes back to being nobody's.               *)
LEMMA OwnershipPreserved ==
  ASSUME TypeOK, RouteInv, SettledInv, OwnershipInv, FreshInv, PlanInv, FundsInv,
         [Next]_vars
  PROVE  OwnershipInv'
  <1> USE DEF OwnershipInv, Checked
  <1>0. \A a \in Account : status'[a] = "unused" => status[a] = "unused"
    BY StatusSteps
  <1>a. \A r \in Request : pc[r] # "idle" =>
          /\ op[r] \in Workload /\ Names(op[r]) \subseteq Account
          /\ Src(op[r]) \in Names(op[r]) /\ Dst(op[r]) \in Names(op[r])
          /\ op[r].kind = "transfer" => Names(op[r]) = {Src(op[r]), Dst(op[r])}
    BY RequestFacts
  <1>b. \A r \in Request : r \in settled => pc[r] # "idle"
    BY DEF SettledInv, TypeOK
  <1>1. ASSUME NEW r \in Request, Receive(r)
        PROVE  OwnershipInv'
    <2>1. /\ \A s \in Request \ {r} : op'[s] = op[s] /\ pc'[s] = pc[s]
          /\ pc'[r] \in {"check", "commit"}
          /\ pc'[r] = "commit" => op'[r].kind = "create"
          /\ status' = status /\ settled' = settled
          /\ r \notin settled
      BY <1>1, <1>b DEF Receive, Goto, rows, journal, TypeOK
    <2>2. QED
      BY <2>1 DEF InTransaction
  <1>2. ASSUME NEW r \in Request, UNCHANGED <<op, settled>>,
               \/ pc' = pc
               \/ \E label \in {"lock", "debit", "funds", "credit", "commit"} :
                    pc' = [pc EXCEPT ![r] = label] /\ pc[r] \in InTransaction
               \/ \E label \in {"done", "notify", "answer"} :
                    pc' = [pc EXCEPT ![r] = label]
        PROVE  OwnershipInv'
    BY <1>0, <1>2, <1>a, <1>b DEF TypeOK, InTransaction
  <1>3. ASSUME NEW r \in Request, Refused(r) \/ Aborted(r) \/ Notify(r)
                 \/ NotifyFails(r) \/ Answer(r)
        PROVE  OwnershipInv'
    BY <1>2, <1>3 DEF Refused, Aborted, Refuse, Abort, Respond, Goto, Notify,
       NotifyFails, Answer, journal
  <1>4. ASSUME NEW r \in Request, LockRow(r) \/ SkipRow(r) \/ PassFunds(r)
                 \/ Debit(r) \/ CreditRow(r)
        PROVE  OwnershipInv'
    BY <1>2, <1>4 DEF LockRow, SkipRow, PassFunds, Debit, CreditRow, Advance, AfterLocks,
       Write, Proceed, Goto, journal, InTransaction
  <1>5. ASSUME NEW r \in Request, PassCheck(r) \/ PassDestination(r)
        PROVE  OwnershipInv'
    <2>1. /\ op' = op /\ settled' = settled /\ status' = status
          /\ \A s \in Request \ {r} : pc'[s] = pc[s]
      BY <1>5 DEF PassCheck, PassDestination, Proceed, Goto, journal, rows, TypeOK
    <2>2. CASE PassCheck(r)
      <3>1. /\ pc'[r] = (IF op[r].kind = "transfer" THEN "checkDest" ELSE "lock")
            /\ op[r].kind = "transfer" => Checked(r, Src(op[r]))
            /\ op[r].kind # "transfer" => \A a \in Names(op[r]) : Checked(r, a)
            /\ pc[r] # "idle"
        BY <2>2, <1>a DEF PassCheck, Proceed, Goto, TypeOK, Mine
      <3>2. QED
        BY <2>1, <3>1, <1>a, <1>b DEF InTransaction
    <2>3. CASE PassDestination(r)
      <3>1. pc'[r] = "lock" /\ Checked(r, Src(op[r])) /\ status[Dst(op[r])] = "open"
            /\ op[r].kind = "transfer"
        BY <2>3 DEF PassDestination, Proceed, Goto, TypeOK, RouteInv
      <3>2. QED
        BY <2>1, <3>1, <1>a, <1>b DEF InTransaction
    <2>4. QED
      BY <1>5, <2>2, <2>3
  <1>6. ASSUME NEW r \in Request,
               CommitMoney(r) \/ CommitUpdate(r) \/ CommitDelete(r) \/ CommitCreate(r)
        PROVE  OwnershipInv'
    <2>1. /\ op' = op /\ settled' = settled \union {r}
          /\ pc'[r] \in {"notify", "answer"}
          /\ \A s \in Request \ {r} : pc'[s] = pc[s]
          /\ pc[r] = "commit"
      BY <1>6 DEF CommitMoney, CommitUpdate, CommitDelete, CommitCreate, Goto, TypeOK
    <2>2. IsMoney(op[r]) => status[Src(op[r])] # "unused"
      BY <2>1, <1>a DEF InTransaction, IsMoney, MoneyKinds
    <2>3. QED
      BY <2>1, <2>2, <1>0, <1>a, <1>b DEF InTransaction
  <1>7. CASE Crash
    BY <1>7, <1>0, <1>a, <1>b DEF Crash, InTransaction, Working, journal
  <1>8. CASE UNCHANGED vars
    BY <1>8 DEF vars
  <1>9. QED
    BY <1>1, <1>3, <1>4, <1>5, <1>6, <1>7, <1>8, StepKinds DEF RequestStep

(* New accounts stay free until they are created.                          *)
LEMMA FreshPreserved ==
  ASSUME TypeOK, RouteInv, FreshInv, PlanInv, [Next]_vars
  PROVE  FreshInv'
  <1> USE DEF FreshInv
  <1>1. ASSUME NEW r \in Request, Receive(r)
        PROVE  FreshInv'
    <2>1. PICK o \in Workload :
            /\ o.kind = "create" => Fresh(o)
            /\ op' = [op EXCEPT ![r] = o]
            /\ pc' = [pc EXCEPT ![r] = IF o.kind = "create" THEN "commit" ELSE "check"]
      BY <1>1 DEF Receive, Goto
    <2>2. UNCHANGED <<status, balance>>
      BY <1>1 DEF Receive, rows
    <2>3. op'[r] = o /\ \A s \in Request \ {r} : op'[s] = op[s] /\ pc'[s] = pc[s]
      BY <2>1 DEF TypeOK
    <2>4. \A s \in Request : op[s].kind = "create" /\ o.kind = "create" =>
            Names(op[s]) \intersect Names(o) = {}
      BY <2>1 DEF Fresh
    <2>5. pc'[r] = "commit" => o.kind = "create"
      BY <2>1 DEF TypeOK
    <2>6. QED
      BY <2>1, <2>2, <2>3, <2>4, <2>5 DEF Fresh
  <1>2. ASSUME NEW r \in Request, Refused(r) \/ Aborted(r) \/ Notify(r)
                 \/ NotifyFails(r) \/ Answer(r) \/ PassCheck(r) \/ PassDestination(r)
                 \/ PassFunds(r) \/ LockRow(r) \/ SkipRow(r) \/ Debit(r) \/ CreditRow(r)
        PROVE  FreshInv'
    <2>1. UNCHANGED <<op, status, balance>>
      BY <1>2 DEF Refused, Aborted, Refuse, Abort, Notify, NotifyFails, Answer, PassCheck,
         PassDestination, PassFunds, Proceed, LockRow, SkipRow, Debit, CreditRow, Write, rows
    <2>2. PICK label : /\ pc' = [pc EXCEPT ![r] = label]
                       /\ op[r].kind = "create" /\ label = "commit" => pc[r] = "commit"
      <3>1. CASE LockRow(r) \/ SkipRow(r) \/ Debit(r) \/ CreditRow(r)
        <4>1. op[r].kind # "create"
          BY <3>1 DEF LockRow, SkipRow, Debit, CreditRow, RouteInv, Debits, Credits
        <4>2. QED
          BY <3>1, <4>1 DEF LockRow, SkipRow, Advance, Debit, CreditRow, Goto
      <3>2. QED
        BY <1>2, <3>1 DEF Refused, Aborted, Refuse, Abort, Respond, Notify, NotifyFails,
           Answer, PassCheck, PassDestination, PassFunds, Proceed, Goto
    <2>3. QED
      BY <2>1, <2>2 DEF TypeOK
  <1>3. ASSUME NEW r \in Request, CommitMoney(r)
        PROVE  FreshInv'
    <2>1. /\ op' = op /\ status' = status
          /\ \A s \in Request : pc'[s] = "commit" => pc[s] = "commit"
          /\ \A a \in Account : status[a] = "unused" => balance'[a] = balance[a]
      BY <1>3 DEF CommitMoney, Goto, TypeOK, PlanInv
    <2>2. QED
      BY <2>1
  <1>4. ASSUME NEW r \in Request, CommitUpdate(r) \/ CommitDelete(r)
        PROVE  FreshInv'
    <2>1. /\ op' = op /\ balance' = balance
          /\ \A s \in Request : pc'[s] = "commit" => pc[s] = "commit"
          /\ \A a \in Account : status'[a] = "unused" <=> status[a] = "unused"
      BY <1>4, LedgerAssumption DEF CommitUpdate, CommitDelete, Goto, TypeOK, PlanInv
    <2>2. \A s \in Request : pc[s] = "commit" => Names(op[s]) \subseteq Account
      BY RequestFacts
    <2>3. QED
      BY <2>1, <2>2
  <1>5. ASSUME NEW r \in Request, CommitCreate(r)
        PROVE  FreshInv'
    <2>1. /\ op' = op
          /\ \A s \in Request : pc'[s] = "commit" => pc[s] = "commit" /\ s # r
          /\ \A a \in Account : /\ status'[a] = IF a \in Names(op[r]) THEN "open" ELSE status[a]
                                /\ balance'[a] = IF a \in Names(op[r]) THEN 0 ELSE balance[a]
          /\ op[r].kind = "create"
      BY <1>5 DEF CommitCreate, Goto, TypeOK
    <2>2. \A s \in Request : pc[s] = "commit" => Names(op[s]) \subseteq Account
      BY RequestFacts
    <2>3. QED
      BY <2>1, <2>2
  <1>6. CASE Crash
    BY <1>6 DEF Crash, Working, InTransaction
  <1>7. CASE UNCHANGED vars
    BY <1>7 DEF vars
  <1>8. QED
    BY <1>1, <1>2, <1>3, <1>4, <1>5, <1>6, <1>7, StepKinds DEF RequestStep

(* The rows a transaction holds are the existing ones of its plan so far.  *)
LEMMA PlanPreserved ==
  ASSUME TypeOK, RouteInv, OwnershipInv, FreshInv, PlanInv, [Next]_vars
  PROVE  PlanInv'
  <1> USE DEF PlanInv
  <1>a. \A r \in Request : pc[r] # "idle" /\ op[r].kind # "create" =>
          /\ Plan(op[r]) \in Seq(Account) /\ Len(Plan(op[r])) > 0
          /\ \A i \in 1..Len(Plan(op[r])) : Plan(op[r])[i] \in Names(op[r])
    BY RequestFacts, PlanFacts
  <1>b. \A r \in Request : op[r].kind = "create" => Len(Plan(op[r])) = 0
    BY DEF Plan
  (* A request that leaves its transaction, or was in none. *)
  <1>1. ASSUME NEW r \in Request, UNCHANGED <<op, locked>>,
               \E label \in {"done", "notify", "answer"} : pc' = [pc EXCEPT ![r] = label],
               \A a \in Account : lock'[a] = IF lock[a] = r THEN Nobody ELSE lock[a],
               \A a \in Account : status[a] = "deleted" => status'[a] = "deleted",
               \A a \in Account : status[a] = "open" /\ lock[a] # r => status'[a] = "open"
        PROVE  PlanInv'
    <2>1. pc'[r] \notin InTransaction /\ \A s \in Request \ {r} : pc'[s] = pc[s]
      BY <1>1 DEF TypeOK, InTransaction
    <2>2. \A s \in Request : pc[s] \in InTransaction => \A i \in 1..locked[s] :
            Plan(op[s])[i] \in Account
      <3> SUFFICES ASSUME NEW s \in Request, pc[s] \in InTransaction, NEW i \in 1..locked[s]
                   PROVE  Plan(op[s])[i] \in Account
        OBVIOUS
      <3>1. pc[s] # "idle" /\ i \in 1..Len(Plan(op[s]))
        BY DEF TypeOK, InTransaction
      <3>2. QED
        BY <3>1, <1>a, <1>b, RequestFacts
    <2>3. \A s \in Request, a \in Account : lock'[a] = s => s # r /\ lock[a] = s
      BY <1>1, LedgerAssumption
    <2>4. pc'[r] \notin {"idle", "check", "checkDest"}
      BY <1>1 DEF TypeOK
    <2>5. QED
      BY <1>1, <2>1, <2>2, <2>3, <2>4
  <1>2. ASSUME NEW r \in Request, Refused(r) \/ Notify(r) \/ NotifyFails(r) \/ Answer(r)
        PROVE  PlanInv'
    <2>1. \A a \in Account : lock[a] # r
      BY <1>2 DEF Refused, Notify, NotifyFails, Answer, InTransaction
    <2>2. QED
      BY <1>1, <1>2, <2>1 DEF Refused, Refuse, Respond, Notify, NotifyFails, Answer, Goto, rows
  <1>3. ASSUME NEW r \in Request, Aborted(r) \/ CommitMoney(r) \/ CommitUpdate(r)
        PROVE  PlanInv'
    BY <1>1, <1>3 DEF Aborted, Abort, Respond, CommitMoney, CommitUpdate, Goto, Released
  <1>4. ASSUME NEW r \in Request, CommitDelete(r)
        PROVE  PlanInv'
    BY <1>1, <1>4 DEF CommitDelete, Goto, Released
  <1>5. ASSUME NEW r \in Request, CommitCreate(r)
        PROVE  PlanInv'
    <2>1. \A a \in Account : lock[a] # r
      BY <1>5, <1>b DEF CommitCreate
    <2>2. /\ \A a \in Account : status[a] = "deleted" => status'[a] = "deleted"
          /\ \A a \in Account : status[a] = "open" => status'[a] = "open"
      BY <1>5 DEF CommitCreate, FreshInv
    <2>3. /\ UNCHANGED <<op, locked, lock>> /\ pc' = [pc EXCEPT ![r] = "answer"]
      BY <1>5 DEF CommitCreate, Goto
    <2>4. \A a \in Account : lock'[a] = IF lock[a] = r THEN Nobody ELSE lock[a]
      BY <2>1, <2>3
    <2>5. \E label \in {"done", "notify", "answer"} : pc' = [pc EXCEPT ![r] = label]
      BY <2>3
    <2>6. UNCHANGED <<op, locked>>
      BY <2>3
    <2>7. QED
      BY <1>1, <2>2, <2>4, <2>5, <2>6
  (* A request that moves on inside its transaction. *)
  <1>6. ASSUME NEW r \in Request, PassFunds(r) \/ Debit(r) \/ CreditRow(r)
        PROVE  PlanInv'
    <2>1. /\ UNCHANGED <<op, locked, lock, status>>
          /\ pc[r] \in InTransaction /\ pc[r] # "lock"
      BY <1>6 DEF PassFunds, Debit, CreditRow, Write, Proceed, rows, InTransaction
    <2>2. \E label \in {"debit", "credit", "commit"} : pc' = [pc EXCEPT ![r] = label]
      BY <1>6 DEF PassFunds, Debit, CreditRow, Proceed, Goto
    <2>3. QED
      BY <2>1, <2>2 DEF TypeOK, InTransaction
  <1>7. ASSUME NEW r \in Request, PassCheck(r) \/ PassDestination(r)
        PROVE  PlanInv'
    <2>1. /\ UNCHANGED <<op, locked, lock, status>>
          /\ locked[r] = 0 /\ pc[r] \in {"check", "checkDest"}
          /\ op[r].kind # "create"
      BY <1>7 DEF PassCheck, PassDestination, Proceed, rows, RouteInv
    <2>2. \E label \in {"lock", "checkDest"} : pc' = [pc EXCEPT ![r] = label]
      BY <1>7 DEF PassCheck, PassDestination, Proceed, Goto
    <2>3. QED
      BY <2>1, <2>2, <1>a DEF TypeOK, InTransaction
  (* A request that goes through the next row of its plan. *)
  <1>8. ASSUME NEW r \in Request, LockRow(r) \/ SkipRow(r)
        PROVE  PlanInv'
    <2> DEFINE a == NextRow(r)
               n == locked[r] + 1
    <2>1. /\ pc[r] = "lock" /\ op[r].kind # "create" /\ pc[r] # "idle"
          /\ n \in 1..Len(Plan(op[r])) /\ a = Plan(op[r])[n]
          /\ a \in Names(op[r]) /\ a \in Account
      <3>1. pc[r] = "lock" /\ op[r].kind # "create" /\ pc[r] # "idle"
        BY <1>8 DEF LockRow, SkipRow, RouteInv
      <3>2. n \in 1..Len(Plan(op[r])) /\ a = Plan(op[r])[n]
        BY <3>1, <1>a DEF TypeOK, InTransaction, NextRow
      <3>3. QED
        BY <3>1, <3>2, <1>a, RequestFacts
    <2>2. /\ UNCHANGED <<op, status>>
          /\ locked' = [locked EXCEPT ![r] = n]
          /\ pc' = [pc EXCEPT ![r] = IF n = Len(Plan(op[r])) THEN AfterLocks(op[r]) ELSE "lock"]
      BY <1>8 DEF LockRow, SkipRow, Advance, Goto, rows
    <2>3. \/ lock' = [lock EXCEPT ![a] = r] /\ status[a] = "open" /\ lock[a] \in {Nobody, r}
          \/ lock' = lock /\ IsMoney(op[r]) /\ status[a] = "deleted"
      <3>1. CASE LockRow(r)
        BY <3>1, <2>1, OwnershipInv DEF LockRow, RowGone
      <3>2. CASE SkipRow(r)
        <4>0. IsMoney(op[r]) /\ RowGone(r) /\ lock' = lock
          BY <3>2 DEF SkipRow, rows
        <4>1. status[a] # "open"
          BY <4>0 DEF RowGone, IsMoney, MoneyKinds
        <4>2. status[a] # "unused"
          <5>1. CASE op[r].kind = "transfer"
            <6>1. a = Src(op[r]) \/ a = Dst(op[r])
              BY <5>1, <2>1, RequestFacts
            <6>2. status[Src(op[r])] # "unused" /\ status[Dst(op[r])] # "unused"
              BY <5>1, <2>1 DEF OwnershipInv, Checked, InTransaction
            <6>3. QED
              BY <6>1, <6>2
          <5>2. CASE op[r].kind # "transfer"
            BY <5>2, <2>1 DEF OwnershipInv, Checked, InTransaction
          <5>3. QED
            BY <5>1, <5>2
        <4>3. QED
          BY <4>0, <4>1, <4>2, <2>1 DEF TypeOK
      <3>3. QED
        BY <1>8, <3>1, <3>2
    <2>4. AfterLocks(op[r]) \in InTransaction \ {"lock"}
      BY DEF AfterLocks, InTransaction
    <2>5. /\ pc'[r] \in InTransaction /\ locked'[r] = n
          /\ pc'[r] = "lock" => n < Len(Plan(op[r]))
          /\ pc'[r] # "lock" => n = Len(Plan(op[r]))
          /\ \A s \in Request \ {r} : pc'[s] = pc[s] /\ locked'[s] = locked[s]
      BY <2>1, <2>2, <2>4 DEF TypeOK, InTransaction
    <2>6. /\ \A b \in Account : lock'[b] = lock[b] \/ (b = a /\ lock'[b] = r /\ lock[b] \in {Nobody, r})
          /\ lock'[a] = r \/ (IsMoney(op[r]) /\ status[a] = "deleted")
          /\ lock'[a] # lock[a] => status[a] = "open"
      BY <2>1, <2>3 DEF TypeOK
    <2>7. \A s \in Request, b \in Account : lock[b] = s => lock'[b] = s
      BY <2>6, LedgerAssumption
    <2>8. \A s \in Request : pc'[s] \in InTransaction => \A i \in 1..locked'[s] :
             \/ lock'[Plan(op[s])[i]] = s
             \/ IsMoney(op[s]) /\ status[Plan(op[s])[i]] = "deleted"
      <3> SUFFICES ASSUME NEW s \in Request, pc'[s] \in InTransaction, NEW i \in 1..locked'[s]
                   PROVE  \/ lock'[Plan(op[s])[i]] = s
                          \/ IsMoney(op[s]) /\ status[Plan(op[s])[i]] = "deleted"
        OBVIOUS
      <3>1. CASE s = r /\ i = n
        BY <3>1, <2>1, <2>6
      <3>2. CASE ~(s = r /\ i = n)
        <4>1. pc[s] \in InTransaction /\ i \in 1..locked[s] /\ pc[s] # "idle"
          BY <3>2, <2>1, <2>5 DEF TypeOK, InTransaction
        <4>2. i \in 1..Len(Plan(op[s]))
          <5>1. locked[s] <= Len(Plan(op[s])) /\ locked[s] \in Nat
            BY <4>1, <1>a, <1>b DEF TypeOK
          <5>2. Len(Plan(op[s])) \in Nat
            BY <4>1, <1>a, <1>b
          <5>3. QED
            BY <4>1, <5>1, <5>2
        <4>3. Plan(op[s])[i] \in Account
          BY <4>1, <4>2, <1>a, <1>b, RequestFacts
        <4>4. QED
          BY <4>1, <4>3, <2>7
      <3>3. QED
        BY <3>1, <3>2
    <2>9. \A s \in Request, b \in Account : lock'[b] = s =>
            /\ pc'[s] \in InTransaction /\ status[b] = "open"
            /\ \E i \in 1..locked'[s] : b = Plan(op[s])[i]
      <3> SUFFICES ASSUME NEW s \in Request, NEW b \in Account, lock'[b] = s
                   PROVE  /\ pc'[s] \in InTransaction /\ status[b] = "open"
                          /\ \E i \in 1..locked'[s] : b = Plan(op[s])[i]
        OBVIOUS
      <3>1. CASE lock[b] = s
        <4>1. /\ pc[s] \in InTransaction /\ status[b] = "open"
              /\ \E i \in 1..locked[s] : b = Plan(op[s])[i]
          BY <3>1
        <4>2. locked[s] \in Nat /\ (locked'[s] = locked[s] \/ locked'[s] = locked[s] + 1)
          BY <2>5 DEF TypeOK
        <4>3. pc'[s] \in InTransaction
          BY <4>1, <2>5
        <4>4. QED
          BY <4>1, <4>2, <4>3
      <3>2. CASE lock[b] # s
        <4>1. b = a /\ s = r /\ status[a] = "open"
          BY <3>2, <2>6
        <4>2. QED
          BY <4>1, <2>1, <2>5
      <3>3. QED
        BY <3>1, <3>2
    <2>10. \A s \in Request : pc'[s] \in {"idle", "check", "checkDest"} => locked'[s] = 0
      BY <2>5 DEF InTransaction
    <2>11. QED
      BY <2>2, <2>5, <2>8, <2>9, <2>10
  <1>9. ASSUME NEW r \in Request, Receive(r)
        PROVE  PlanInv'
    <2>1. PICK o \in Workload :
            /\ op' = [op EXCEPT ![r] = o]
            /\ pc' = [pc EXCEPT ![r] = IF o.kind = "create" THEN "commit" ELSE "check"]
      BY <1>9 DEF Receive, Goto
    <2>2. UNCHANGED <<locked, lock, status>> /\ pc[r] = "idle" /\ locked[r] = 0
      BY <1>9 DEF Receive, rows
    <2>3. /\ op'[r] = o /\ pc'[r] = IF o.kind = "create" THEN "commit" ELSE "check"
          /\ \A s \in Request \ {r} : op'[s] = op[s] /\ pc'[s] = pc[s]
          /\ \A a \in Account : lock[a] # r
      BY <2>1, <2>2 DEF TypeOK, InTransaction
    <2>4. o.kind = "create" => Len(Plan(o)) = 0
      BY DEF Plan
    <2>5. QED
      BY <2>2, <2>3, <2>4 DEF InTransaction
  <1>10. CASE Crash
    <2>1. /\ \A r \in Request : pc'[r] \in {"idle", "done"} /\ (pc'[r] = "idle" => pc[r] = "idle")
          /\ \A a \in Account : lock'[a] = Nobody
          /\ UNCHANGED <<op, locked, status>>
      BY <1>10 DEF Crash, TypeOK, PCs
    <2>2. QED
      BY <2>1, LedgerAssumption DEF InTransaction
  <1>11. CASE UNCHANGED vars
    BY <1>11 DEF vars
  <1>12. QED
    BY <1>2, <1>3, <1>4, <1>5, <1>6, <1>7, <1>8, <1>9, <1>10, <1>11, StepKinds
       DEF RequestStep

(* Past the locks, a transaction holds every row it names that still exists. *)
LEMMA RowsHeld ==
  ASSUME TypeOK, RouteInv, PlanInv, NEW r \in Request,
         pc[r] \in InTransaction \ {"lock"}, op[r].kind # "create",
         NEW a \in Names(op[r])
  PROVE  lock[a] = r \/ (IsMoney(op[r]) /\ status[a] = "deleted")
  <1>1. op[r] \in Workload
    BY RequestFacts DEF InTransaction
  <1>2. PICK i \in 1..Len(Plan(op[r])) : Plan(op[r])[i] = a
    BY <1>1, PlanFacts
  <1>3. QED
    BY <1>2 DEF PlanInv

(* The drafts of the transactions, the funds they rely on and the committed *)
(* balances.                                                               *)
LEMMA MoneyPreserved ==
  ASSUME TypeOK, RouteInv, OwnershipInv, FreshInv, PlanInv, PendingInv, FundsInv,
         BalancesInColumn, [Next]_vars
  PROVE  PendingInv' /\ FundsInv' /\ BalancesInColumn'
  <1>a. \A r \in Request : pc[r] # "idle" =>
          /\ op[r].amount \in Nat /\ Names(op[r]) \subseteq Account
          /\ Src(op[r]) \in Account /\ Dst(op[r]) \in Account
    BY RequestFacts
  <1>b. /\ \A a \in Account : lock[a] \in Request \union {Nobody}
        /\ \A a \in Account : balance[a] \in 0..MaxBalance /\ pending[a] \in 0..MaxBalance
        /\ MaxBalance \in Nat /\ Nobody \notin Request
    BY BankAssumption, LedgerAssumption DEF TypeOK, BalancesInColumn, PendingInv
  <1>c. \A a \in Account : lock[a] = Nobody => pending[a] = balance[a]
    BY DEF PendingInv
  <1>d. \A r \in Request, a \in Account : lock[a] = r =>
          pc[r] \in InTransaction /\ status[a] = "open"
    BY DEF PlanInv
  (* The requests that do not take the step, and the rows they hold. *)
  <1>1. ASSUME NEW r \in Request,
               \A s \in Request \ {r} : /\ op'[s] = op[s] /\ pc'[s] = pc[s]
                                        /\ recorded'[s] = recorded[s],
               \A a \in Account, s \in Request \ {r} :
                 /\ lock'[a] = s <=> lock[a] = s
                 /\ lock[a] = s => balance'[a] = balance[a] /\ pending'[a] = pending[a]
        PROVE  \A s \in Request \ {r} : FundsHeld(s)' /\ \A a \in Account : RowDrafted(s, a)'
    <2> SUFFICES ASSUME NEW s \in Request \ {r}
                 PROVE  FundsHeld(s)' /\ \A a \in Account : RowDrafted(s, a)'
      OBVIOUS
    <2>1. /\ op'[s] = op[s] /\ pc'[s] = pc[s] /\ recorded'[s] = recorded[s]
          /\ \A a \in Account : lock'[a] = s <=> lock[a] = s
          /\ \A a \in Account : lock[a] = s => balance'[a] = balance[a] /\ pending'[a] = pending[a]
      BY <1>1
    <2>2. FundsHeld(s) /\ \A a \in Account : RowDrafted(s, a)
      BY DEF FundsInv, PendingInv
    <2>3. FundsHeld(s)'
      <3>1. pc[s] \in {"debit", "credit", "commit"} => Src(op[s]) \in Account /\ Dst(op[s]) \in Account
        BY <1>a
      <3>2. /\ Debited(s)' <=> Debited(s)
            /\ Debits(op'[s]) <=> Debits(op[s])
            /\ Credited(s)' <=> Credited(s)
            /\ Src(op'[s]) = Src(op[s]) /\ Dst(op'[s]) = Dst(op[s])
            /\ op'[s].amount = op[s].amount
        BY <2>1 DEF Debited, Credited
      <3>3. /\ Debited(s) => pc[s] \in {"debit", "credit", "commit"} /\ Debits(op[s])
            /\ Credited(s) => pc[s] \in {"debit", "credit", "commit"}
        BY DEF Debited, Credited
      <3>4. Debits(op[s]) /\ pc[s] \in {"debit", "credit", "commit"} =>
              /\ lock[Src(op[s])] = s /\ lock'[Src(op[s])] = s
              /\ balance'[Src(op[s])] = balance[Src(op[s])]
              /\ balance[Src(op[s])] >= op[s].amount
        BY <2>1, <2>2, <3>1 DEF FundsHeld
      <3>5. Credited(s) => lock[Dst(op[s])] = s /\ lock'[Dst(op[s])] = s
        BY <2>1, <2>2, <3>1, <3>3 DEF FundsHeld
      <3>6. Credited(s) /\ ~Debits(op[s]) => balance'[Src(op[s])] = balance[Src(op[s])]
        <4>1. Credited(s) /\ ~Debits(op[s]) => Src(op[s]) = Dst(op[s])
          BY <3>3, RequestFacts DEF Credited, Credits, Debits, SingleKinds
        <4>2. QED
          BY <2>1, <3>1, <3>3, <3>5, <4>1
      <3>7. QED
        BY <2>1, <2>2, <3>2, <3>3, <3>4, <3>5, <3>6 DEF FundsHeld
    <2>4. \A a \in Account : RowDrafted(s, a)'
      BY <2>1, <2>2 DEF RowDrafted, Drafted, Debited, Credited
    <2>5. QED
      BY <2>3, <2>4
  (* A request outside any transaction holds no row and relies on no funds. *)
  <1>2. ASSUME NEW r \in Request, pc[r] \notin InTransaction,
               UNCHANGED <<lock, balance, pending, recorded>>,
               \A s \in Request \ {r} : op'[s] = op[s] /\ pc'[s] = pc[s],
               pc'[r] \in {"debit", "credit", "commit"} => op'[r].kind = "create"
        PROVE  PendingInv' /\ FundsInv' /\ BalancesInColumn'
    <2>1. \A a \in Account : lock[a] # r
      BY <1>2, <1>d
    <2>2. \A s \in Request \ {r} : FundsHeld(s)' /\ \A a \in Account : RowDrafted(s, a)'
      BY <1>1, <1>2
    <2>3. FundsHeld(r)' /\ \A a \in Account : RowDrafted(r, a)'
      BY <1>2, <2>1 DEF FundsHeld, RowDrafted, Debited, Credited, Debits, Credits
    <2>4. QED
      BY <1>2, <1>b, <1>c, <2>2, <2>3 DEF PendingInv, FundsInv, BalancesInColumn
  <1>3. ASSUME NEW r \in Request, Receive(r)
        PROVE  PendingInv' /\ FundsInv' /\ BalancesInColumn'
    <2>1. /\ pc[r] \notin InTransaction
          /\ UNCHANGED <<lock, balance, pending, recorded>>
          /\ \A s \in Request \ {r} : op'[s] = op[s] /\ pc'[s] = pc[s]
          /\ pc'[r] \in {"debit", "credit", "commit"} => op'[r].kind = "create"
      BY <1>3 DEF Receive, Goto, rows, journal, InTransaction, TypeOK
    <2>2. QED
      BY <1>2, <2>1
  <1>4. ASSUME NEW r \in Request,
               \/ Refused(r) \/ PassCheck(r) \/ PassDestination(r)
               \/ Notify(r) \/ NotifyFails(r) \/ Answer(r)
        PROVE  PendingInv' /\ FundsInv' /\ BalancesInColumn'
    <2>1. PICK label \in {"checkDest", "lock", "answer", "done"} : pc' = [pc EXCEPT ![r] = label]
      BY <1>4 DEF Refused, Refuse, Respond, PassCheck, PassDestination, Proceed, Notify,
         NotifyFails, Answer, Goto
    <2>2. pc[r] \notin InTransaction /\ UNCHANGED <<op, lock, balance, pending, recorded>>
      BY <1>4 DEF Refused, Refuse, PassCheck, PassDestination, Proceed, Notify,
         NotifyFails, Answer, rows, journal, InTransaction
    <2>3. QED
      BY <1>2, <2>1, <2>2 DEF TypeOK
  (* The rows a transaction gives up keep their committed version, or take   *)
  (* the version it leaves in them.                                        *)
  <1>5. ASSUME NEW r \in Request, UNCHANGED <<op, recorded>>,
               \E label \in {"done", "notify", "answer"} : pc' = [pc EXCEPT ![r] = label],
               \A a \in Account : lock'[a] = IF lock[a] = r THEN Nobody ELSE lock[a],
               \A a \in Account : lock[a] = r =>
                 balance'[a] = pending'[a] /\ balance'[a] \in 0..MaxBalance,
               \A a \in Account : lock[a] # r =>
                 balance'[a] = balance[a] /\ pending'[a] = pending[a]
        PROVE  PendingInv' /\ FundsInv' /\ BalancesInColumn'
    <2>1. /\ pc'[r] \in {"done", "notify", "answer"}
          /\ \A s \in Request \ {r} : pc'[s] = pc[s]
          /\ \A a \in Account : lock'[a] # r
      BY <1>5, <1>b DEF TypeOK
    <2>2. \A s \in Request \ {r} : FundsHeld(s)' /\ \A a \in Account : RowDrafted(s, a)'
      BY <1>1, <1>5, <1>b, <2>1
    <2>3. FundsHeld(r)' /\ \A a \in Account : RowDrafted(r, a)'
      BY <2>1 DEF FundsHeld, RowDrafted, Debited, Credited
    <2>4. \A a \in Account : /\ lock'[a] = Nobody => pending'[a] = balance'[a]
                             /\ pending'[a] \in 0..MaxBalance /\ balance'[a] \in 0..MaxBalance
      BY <1>5, <1>b, <1>c
    <2>5. QED
      BY <2>2, <2>3, <2>4 DEF PendingInv, FundsInv, BalancesInColumn
  <1>6. ASSUME NEW r \in Request, Aborted(r)
        PROVE  PendingInv' /\ FundsInv' /\ BalancesInColumn'
    <2>1. /\ UNCHANGED <<op, recorded, balance>>
          /\ pc' = [pc EXCEPT ![r] = "done"]
          /\ \A a \in Account : /\ lock'[a] = IF lock[a] = r THEN Nobody ELSE lock[a]
                                /\ pending'[a] = IF lock[a] = r THEN balance[a] ELSE pending[a]
      BY <1>6 DEF Aborted, Abort, Respond, Goto, Released, journal
    <2>2. QED
      BY <1>5, <1>b, <2>1
  <1>7. ASSUME NEW r \in Request, CommitMoney(r)
        PROVE  PendingInv' /\ FundsInv' /\ BalancesInColumn'
    BY <1>5, <1>7, <1>b DEF CommitMoney, Goto, Released
  <1>8. ASSUME NEW r \in Request, CommitUpdate(r) \/ CommitDelete(r)
        PROVE  PendingInv' /\ FundsInv' /\ BalancesInColumn'
    <2>1. /\ UNCHANGED <<op, recorded, balance, pending>>
          /\ pc' = [pc EXCEPT ![r] = "answer"]
          /\ \A a \in Account : lock'[a] = IF lock[a] = r THEN Nobody ELSE lock[a]
      BY <1>8 DEF CommitUpdate, CommitDelete, Goto, Released
    <2>2. ~Debits(op[r]) /\ ~Credits(op[r])
      BY <1>8 DEF CommitUpdate, CommitDelete, UpdateKinds, DeleteKinds, Debits, Credits
    <2>3. \A a \in Account : lock[a] = r => pending[a] = balance[a]
      BY <2>2, <1>b DEF PendingInv, RowDrafted, Drafted, Debited, Credited
    <2>4. QED
      BY <1>5, <1>b, <2>1, <2>3
  <1>9. ASSUME NEW r \in Request, CommitCreate(r)
        PROVE  PendingInv' /\ FundsInv' /\ BalancesInColumn'
    <2>1. /\ UNCHANGED <<op, lock, recorded>> /\ pc' = [pc EXCEPT ![r] = "answer"]
          /\ op[r].kind = "create" /\ pc[r] = "commit"
          /\ \A a \in Account : /\ balance'[a] = IF a \in Names(op[r]) THEN 0 ELSE balance[a]
                                /\ pending'[a] = IF a \in Names(op[r]) THEN 0 ELSE pending[a]
      BY <1>9 DEF CommitCreate, Goto
    <2>2. \A a \in Names(op[r]) : status[a] = "unused"
      BY <2>1 DEF FreshInv
    <2>3. \A a \in Account, s \in Request : lock[a] = s => a \notin Names(op[r])
      BY <2>2, <1>d
    <2>4. \A a \in Account : lock[a] # r
      <3>1. Plan(op[r]) = <<>>
        BY <2>1 DEF Plan
      <3>2. locked[r] = 0
        BY <2>1, <3>1 DEF PlanInv, InTransaction
      <3>3. QED
        BY <3>2 DEF PlanInv
    <2>5. pc'[r] = "answer" /\ \A s \in Request \ {r} : pc'[s] = pc[s]
      BY <2>1 DEF TypeOK
    <2>6. \A s \in Request \ {r} : FundsHeld(s)' /\ \A a \in Account : RowDrafted(s, a)'
      BY <1>1, <2>1, <2>3, <2>5
    <2>7. FundsHeld(r)' /\ \A a \in Account : RowDrafted(r, a)'
      BY <2>1, <2>4, <2>5 DEF FundsHeld, RowDrafted, Debited, Credited
    <2>8. \A a \in Account : /\ lock'[a] = Nobody => pending'[a] = balance'[a]
                             /\ pending'[a] \in 0..MaxBalance /\ balance'[a] \in 0..MaxBalance
      BY <2>1, <1>b, <1>c
    <2>9. QED
      BY <2>6, <2>7, <2>8 DEF PendingInv, FundsInv, BalancesInColumn
  <1>10. ASSUME NEW r \in Request, LockRow(r) \/ SkipRow(r)
         PROVE  PendingInv' /\ FundsInv' /\ BalancesInColumn'
    <2>1. /\ UNCHANGED <<op, balance, pending, recorded>>
          /\ pc[r] = "lock"
          /\ pc' = [pc EXCEPT ![r] = "lock"] \/ pc' = [pc EXCEPT ![r] = AfterLocks(op[r])]
      BY <1>10 DEF LockRow, SkipRow, Advance, Goto, rows, journal
    <2>2. \A a \in Account : \/ lock'[a] = lock[a]
                             \/ lock'[a] = r /\ lock[a] \in {Nobody, r}
      BY <1>10 DEF LockRow, SkipRow, rows, TypeOK
    <2>3. /\ pc'[r] \in {"lock", AfterLocks(op[r])}
          /\ \A s \in Request \ {r} : pc'[s] = pc[s]
      BY <2>1 DEF TypeOK
    <2>4. \A s \in Request \ {r} : FundsHeld(s)' /\ \A a \in Account : RowDrafted(s, a)'
      BY <1>1, <1>b, <2>1, <2>2, <2>3
    <2>5. ~Debited(r) /\ ~Credited(r) /\ ~Debited(r)' /\ ~Credited(r)'
      BY <2>1, <2>3 DEF Debited, Credited, AfterLocks
    <2>6. FundsHeld(r)'
      BY <2>1, <2>3, <2>5 DEF FundsHeld, AfterLocks
    <2>7. \A a \in Account : RowDrafted(r, a)'
      BY <2>1, <2>2, <2>5, <1>b DEF RowDrafted, Drafted, PendingInv
    <2>8. \A a \in Account : lock'[a] = Nobody => pending'[a] = balance'[a]
      BY <2>1, <2>2, <1>b, <1>c
    <2>9. QED
      BY <1>b, <2>1, <2>4, <2>6, <2>7, <2>8 DEF PendingInv, FundsInv, BalancesInColumn
  <1>11. ASSUME NEW r \in Request, PassFunds(r)
         PROVE  PendingInv' /\ FundsInv' /\ BalancesInColumn'
    <2> DEFINE a == Src(op[r])
    <2>1. /\ UNCHANGED <<op, lock, balance, pending, recorded>>
          /\ pc[r] = "funds" /\ pc'[r] = "debit" /\ \A s \in Request \ {r} : pc'[s] = pc[s]
          /\ status[a] = "open" /\ op[r].amount <= pending[a] /\ Debits(op[r])
      BY <1>11 DEF PassFunds, Proceed, Goto, rows, journal, TypeOK, RouteInv
    <2>2. lock[a] = r /\ a \in Account
      BY <2>1, RowsHeld, RequestFacts DEF InTransaction, Debits
    <2>3. pending[a] = balance[a]
      BY <2>1, <2>2, <1>b DEF PendingInv, RowDrafted, Drafted, Debited, Credited
    <2>4. \A s \in Request \ {r} : FundsHeld(s)' /\ \A b \in Account : RowDrafted(s, b)'
      BY <1>1, <2>1
    <2>5. FundsHeld(r)'
      BY <2>1, <2>2, <2>3, <1>a, <1>b DEF FundsHeld, Debited, Credited
    <2>6. \A b \in Account : RowDrafted(r, b)'
      BY <2>1 DEF PendingInv, RowDrafted, Drafted, Debited, Credited
    <2>7. QED
      BY <1>b, <1>c, <2>1, <2>4, <2>5, <2>6 DEF PendingInv, FundsInv, BalancesInColumn
  <1>12. ASSUME NEW r \in Request, Debit(r)
         PROVE  PendingInv' /\ FundsInv' /\ BalancesInColumn'
    <2> DEFINE a == Src(op[r])
               b == pending[a] - op[r].amount
    <2>1. /\ UNCHANGED <<op, lock, balance>>
          /\ pc[r] = "debit" /\ \A s \in Request \ {r} : pc'[s] = pc[s]
          /\ pc'[r] = (IF Credits(op[r]) THEN "credit" ELSE "commit")
          /\ pending' = [pending EXCEPT ![a] = b]
          /\ recorded' = [recorded EXCEPT ![r] = b]
          /\ Debits(op[r])
      BY <1>12 DEF Debit, Write, Goto, TypeOK, RouteInv
    <2>2. a \in Account /\ op[r].amount \in Nat
      BY <2>1, <1>a
    <2>3. lock[a] = r /\ balance[a] >= op[r].amount
      BY <2>1 DEF FundsInv, FundsHeld
    <2>4. pending[a] = balance[a]
      BY <2>1, <2>2, <2>3, <1>b DEF PendingInv, RowDrafted, Drafted, Debited, Credited
    <2>5. b = balance[a] - op[r].amount /\ b \in 0..MaxBalance
      BY <2>2, <2>3, <2>4, <1>b
    <2>6. pending'[a] = b /\ recorded'[r] = b
          /\ (\A c \in Account \ {a} : pending'[c] = pending[c])
          /\ (\A s \in Request \ {r} : recorded'[s] = recorded[s])
      BY <2>1, <2>2 DEF TypeOK
    <2>7. \A s \in Request \ {r} : FundsHeld(s)' /\ \A c \in Account : RowDrafted(s, c)'
      BY <1>1, <2>1, <2>3, <2>6
    <2>8. FundsHeld(r)'
      BY <2>1, <2>3, <2>5, <2>6 DEF FundsHeld, Debited, Credited
    <2>9. ASSUME NEW c \in Account, lock[c] = r
          PROVE  pending'[c] = balance[c] + (IF c = a THEN 0 - op[r].amount ELSE 0)
      <3>1. CASE c = a
        BY <3>1, <2>2, <2>5, <2>6, <1>b
      <3>2. CASE c # a
        BY <3>2, <2>1, <2>6, <2>9, <1>b DEF PendingInv, RowDrafted, Drafted, Debited, Credited
      <3>3. QED
        BY <3>1, <3>2
    <2>10. \A c \in Account : Drafted(r, c)' = IF c = a THEN 0 - op[r].amount ELSE 0
      BY <2>1, <2>2 DEF Drafted, Debited, Credited
    <2>11. \A c \in Account : RowDrafted(r, c)'
      BY <2>1, <2>9, <2>10 DEF RowDrafted
    <2>12. \A c \in Account : /\ lock'[c] = Nobody => pending'[c] = balance'[c]
                              /\ pending'[c] \in 0..MaxBalance
      BY <1>b, <1>c, <2>1, <2>3, <2>5, <2>6
    <2>13. QED
      BY <1>b, <2>1, <2>7, <2>8, <2>11, <2>12 DEF PendingInv, FundsInv, BalancesInColumn
  <1>13. ASSUME NEW r \in Request, CreditRow(r)
         PROVE  PendingInv' /\ FundsInv' /\ BalancesInColumn'
    <2> DEFINE a == Dst(op[r])
               b == pending[a] + op[r].amount
    <2>1. /\ UNCHANGED <<op, lock, balance>>
          /\ pc[r] = "credit" /\ pc'[r] = "commit" /\ \A s \in Request \ {r} : pc'[s] = pc[s]
          /\ status[a] = "open" /\ b <= MaxBalance
          /\ pending' = [pending EXCEPT ![a] = b]
          /\ recorded' = IF Debits(op[r]) THEN recorded ELSE [recorded EXCEPT ![r] = b]
          /\ Credits(op[r])
      BY <1>13 DEF CreditRow, Write, Goto, TypeOK, RouteInv
    <2>2. a \in Account /\ op[r].amount \in Nat
      BY <2>1, <1>a
    <2>3. lock[a] = r
      BY <2>1, RowsHeld, RequestFacts DEF InTransaction, Credits
    <2>4. Debits(op[r]) => /\ lock[Src(op[r])] = r /\ balance[Src(op[r])] >= op[r].amount
                           /\ recorded[r] = balance[Src(op[r])] - op[r].amount
      BY <2>1 DEF FundsInv, FundsHeld, Debited
    <2>5. ~Debits(op[r]) => Src(op[r]) = a
      BY <2>1, RequestFacts DEF Credits, Debits, SingleKinds
    <2>6. b \in 0..MaxBalance
      BY <2>1, <2>2, <1>b
    <2>7. /\ pending'[a] = b
          /\ recorded'[r] = (IF Debits(op[r]) THEN recorded[r] ELSE b)
          /\ (\A c \in Account \ {a} : pending'[c] = pending[c])
          /\ (\A s \in Request \ {r} : recorded'[s] = recorded[s])
      BY <2>1, <2>2 DEF TypeOK
    <2>8. \A c \in Account : lock[c] = r => pending[c] = balance[c] + Drafted(r, c)
      BY DEF PendingInv, RowDrafted
    <2>9. /\ \A c \in Account : Drafted(r, c) = IF Debits(op[r]) /\ c = Src(op[r])
                                                THEN 0 - op[r].amount ELSE 0
          /\ \A c \in Account : Drafted(r, c)' = (IF c = a THEN op[r].amount ELSE 0)
                - (IF Debits(op[r]) /\ c = Src(op[r]) THEN op[r].amount ELSE 0)
      BY <2>1, <2>2 DEF Drafted, Debited, Credited
    <2>10. \A s \in Request \ {r} : FundsHeld(s)' /\ \A c \in Account : RowDrafted(s, c)'
      BY <1>1, <2>1, <2>3, <2>7
    <2>11. ~Debits(op[r]) => b = balance[Src(op[r])] + op[r].amount
      BY <2>2, <2>3, <2>5, <2>8, <2>9, <1>b
    <2>12. FundsHeld(r)'
      BY <2>1, <2>3, <2>4, <2>7, <2>11 DEF FundsHeld, Debited, Credited
    <2>13. \A c \in Account : RowDrafted(r, c)'
      <3> SUFFICES ASSUME NEW c \in Account, lock[c] = r
                   PROVE  pending'[c] = balance[c] + Drafted(r, c)'
        BY <2>1 DEF RowDrafted
      <3>1. CASE c = a
        BY <3>1, <2>2, <2>7, <2>8, <2>9, <1>b
      <3>2. CASE c # a
        BY <3>2, <2>2, <2>7, <2>8, <2>9, <1>b
      <3>3. QED
        BY <3>1, <3>2
    <2>14. \A c \in Account : /\ lock'[c] = Nobody => pending'[c] = balance'[c]
                              /\ pending'[c] \in 0..MaxBalance
      BY <1>b, <1>c, <2>1, <2>3, <2>6, <2>7
    <2>15. QED
      BY <1>b, <2>1, <2>10, <2>12, <2>13, <2>14 DEF PendingInv, FundsInv, BalancesInColumn
  <1>14. CASE Crash
    <2>1. /\ \A a \in Account : lock'[a] = Nobody
          /\ pending' = balance /\ balance' = balance
          /\ \A r \in Request : pc'[r] \in {"idle", "done"}
      BY <1>14 DEF Crash, TypeOK, PCs
    <2>2. QED
      BY <2>1, <1>b DEF PendingInv, RowDrafted, FundsInv, FundsHeld, Debited, Credited,
         BalancesInColumn
  <1>15. CASE UNCHANGED vars
    BY <1>15 DEF vars, PendingInv, RowDrafted, Drafted, FundsInv, FundsHeld, Debited,
       Credited, BalancesInColumn
  <1>16. QED
    BY <1>3, <1>4, <1>6, <1>7, <1>8, <1>9, <1>10, <1>11, <1>12, <1>13, <1>14, <1>15,
       StepKinds DEF RequestStep

(* The journal and the settled operations stay in step.                    *)
LEMMA JournalPreserved ==
  ASSUME TypeOK, RouteInv, SettledInv, OwnershipInv, FreshInv, PlanInv, FundsInv,
         JournalKept, [Next]_vars
  PROVE  JournalKept'
  <1> USE DEF JournalKept
  <1>a. \A r \in settled : r \in Request /\ op[r] \in Workload
    BY RequestFacts DEF SettledInv, TypeOK
  <1>b. \A r \in settled : IsMoney(op[r]) => Src(op[r]) \in Account
    BY <1>a, OperationFacts
  <1>1. ASSUME NEW r \in Request, Receive(r)
        PROVE  JournalKept'
    <2>1. r \notin settled
      BY <1>1 DEF Receive, SettledInv
    <2>2. \A s \in settled : op'[s] = op[s]
      BY <1>1, <1>a, <2>1 DEF Receive, TypeOK
    <2>3. UNCHANGED <<status, settled, posted>>
      BY <1>1 DEF Receive, rows, journal
    <2>4. QED
      BY <2>2, <2>3
  <1>2. ASSUME UNCHANGED <<op, status, settled, posted>>
        PROVE  JournalKept'
    BY <1>2
  <1>3. ASSUME NEW r \in Request, Refused(r) \/ Aborted(r) \/ PassCheck(r)
                 \/ PassDestination(r) \/ PassFunds(r)
        PROVE  JournalKept'
    BY <1>2, <1>3 DEF Refused, Refuse, Aborted, Abort, PassCheck, PassDestination,
       PassFunds, Proceed, rows, journal
  <1>4. ASSUME NEW r \in Request, LockRow(r) \/ SkipRow(r) \/ Debit(r) \/ CreditRow(r)
                 \/ Notify(r) \/ NotifyFails(r) \/ Answer(r)
        PROVE  JournalKept'
    BY <1>2, <1>4 DEF LockRow, SkipRow, Debit, CreditRow, Write, Notify, NotifyFails,
       Refuse, Answer, rows, journal
  <1>5. ASSUME NEW r \in Request, CommitMoney(r)
        PROVE  JournalKept'
    <2>1. /\ UNCHANGED <<op, status>> /\ IsMoney(op[r]) /\ pc[r] = "commit"
          /\ settled' = settled \union {r} /\ posted' = posted \union {r}
      BY <1>5 DEF CommitMoney
    <2>2. Src(op[r]) \in Account
      BY <2>1, RequestFacts
    <2>3. lock[Src(op[r])] = r
      <3>1. CASE Debits(op[r])
        BY <3>1, <2>1 DEF FundsInv, FundsHeld
      <3>2. CASE ~Debits(op[r])
        <4>1. Credits(op[r]) /\ Src(op[r]) = Dst(op[r])
          BY <3>2, <2>1, RequestFacts DEF IsMoney, MoneyKinds, Debits, Credits, SingleKinds
        <4>2. QED
          BY <4>1, <2>1 DEF FundsInv, FundsHeld, Credited
      <3>3. QED
        BY <3>1, <3>2
    <2>4. status[Src(op[r])] = "open"
      BY <2>2, <2>3 DEF PlanInv
    <2>5. QED
      BY <2>1, <2>4
  <1>6. ASSUME NEW r \in Request, CommitUpdate(r)
        PROVE  JournalKept'
    BY <1>6 DEF CommitUpdate, UpdateKinds, IsMoney, MoneyKinds
  <1>7. ASSUME NEW r \in Request, CommitDelete(r)
        PROVE  JournalKept'
    <2>1. /\ op' = op /\ settled' = settled \union {r} /\ ~IsMoney(op[r])
          /\ posted' = {t \in posted : lock[Src(op[t])] # r}
          /\ \A a \in Account : status'[a] = IF lock[a] = r THEN "deleted" ELSE status[a]
      BY <1>7 DEF CommitDelete, DeleteKinds, IsMoney, MoneyKinds
    <2>2. QED
      BY <2>1, <1>b
  <1>8. ASSUME NEW r \in Request, CommitCreate(r)
        PROVE  JournalKept'
    <2>1. /\ UNCHANGED <<op, posted>> /\ settled' = settled \union {r} /\ ~IsMoney(op[r])
          /\ \A a \in Account : status'[a] = IF a \in Names(op[r]) THEN "open" ELSE status[a]
          /\ \A a \in Names(op[r]) : status[a] = "unused"
      BY <1>8 DEF CommitCreate, IsMoney, MoneyKinds, FreshInv
    <2>2. \A s \in settled : IsMoney(op[s]) => status[Src(op[s])] # "unused"
      BY <1>a DEF OwnershipInv
    <2>3. QED
      BY <2>1, <2>2, <1>b
  <1>9. CASE Crash
    BY <1>2, <1>9 DEF Crash, journal
  <1>10. CASE UNCHANGED vars
    BY <1>2, <1>10 DEF vars
  <1>11. QED
    BY <1>1, <1>3, <1>4, <1>5, <1>6, <1>7, <1>8, <1>9, <1>10, StepKinds DEF RequestStep

-----------------------------------------------------------------------------
(* The invariant holds at the start: the opening balances fit their        *)
(* columns, nothing is locked and no request has arrived.                  *)
LEMMA InitInvariant == Init => LedgerInv
  <1> SUFFICES ASSUME Init
               PROVE  LedgerInv
    OBVIOUS
  <1> USE DEF Init
  <1>1. \A a \in Account : balance[a] \in 0..MaxBalance
    <2>1. 0 \in 0..MaxBalance
      BY BankAssumption
    <2>2. \A a \in Account : Opening[a] \in 0..MaxBalance
      BY LedgerAssumption
    <2>3. \A a \in Account : balance[a] = IF a \in Opened THEN Opening[a] ELSE 0
      OBVIOUS
    <2>4. QED
      BY <2>1, <2>2, <2>3
  <1>2. TypeOK
    BY <1>1, LedgerAssumption DEF TypeOK, PCs, Working, Responses
  <1>3. RouteInv /\ SettledInv /\ OwnershipInv /\ JournalKept
    BY DEF RouteInv, SettledInv, BeforeCommit, OwnershipInv, InTransaction, JournalKept
  <1>4. FreshInv
    BY DEF FreshInv, NoOp
  <1>5. PlanInv
    BY LedgerAssumption DEF PlanInv, InTransaction
  <1>6. PendingInv /\ FundsInv /\ BalancesInColumn
    BY <1>1, LedgerAssumption DEF PendingInv, RowDrafted, FundsInv, FundsHeld, Debited,
       Credited, BalancesInColumn
  <1>7. QED
    BY <1>2, <1>3, <1>4, <1>5, <1>6 DEF LedgerInv

(* The strengthened invariant of the ledger: TypeOK, BalancesInColumn and  *)
(* JournalKept among its conjuncts.                                        *)
THEOREM LedgerInvariantHolds == Spec => []LedgerInv
  <1>1. ASSUME LedgerInv, [Next]_vars
        PROVE  LedgerInv'
    BY <1>1, RoutesPreserved, SettledPreserved, OwnershipPreserved, FreshPreserved,
       PlanPreserved, MoneyPreserved, JournalPreserved DEF LedgerInv
  <1>2. QED
    BY <1>1, InitInvariant, PTL DEF Spec

(* The variables keep their types.                                         *)
THEOREM TypesHold == Spec => []TypeOK
  <1>1. LedgerInv => TypeOK
    BY DEF LedgerInv
  <1>2. QED
    BY <1>1, LedgerInvariantHolds, PTL

(* No interleaving of deposits, withdrawals, transfers, deletions, crashes *)
(* and timeouts overdraws an account or overflows its column.              *)
THEOREM NeverOverdrawn == Spec => []BalancesInColumn
  <1>1. LedgerInv => BalancesInColumn
    BY DEF LedgerInv
  <1>2. QED
    BY <1>1, LedgerInvariantHolds, PTL

(* The transactions table is exactly the settled money operations of the   *)
(* accounts that exist.                                                    *)
THEOREM JournalIsComplete == Spec => []JournalKept
  <1>1. LedgerInv => JournalKept
    BY DEF LedgerInv
  <1>2. QED
    BY <1>1, LedgerInvariantHolds, PTL

-----------------------------------------------------------------------------
(* The settled operations of the other requests and what they filed do not *)
(* change under the steps of a request that has not settled.               *)
LEMMA StepSettles ==
  ASSUME LedgerInv, [Next]_vars
  PROVE  /\ settled \subseteq settled'
         /\ \A r \in settled : op'[r] = op[r] /\ recorded'[r] = recorded[r]
         /\ \A r \in settled' \ settled :
              CommitMoney(r) \/ CommitUpdate(r) \/ CommitDelete(r) \/ CommitCreate(r)
  <1> USE DEF LedgerInv
  <1>1. ASSUME NEW r \in Request, Receive(r)
        PROVE  settled' = settled /\ \A s \in settled : op'[s] = op[s] /\ recorded'[s] = recorded[s]
    BY <1>1 DEF Receive, journal, SettledInv, TypeOK
  <1>2. ASSUME NEW r \in Request, Debit(r) \/ CreditRow(r)
        PROVE  settled' = settled /\ \A s \in settled : op'[s] = op[s] /\ recorded'[s] = recorded[s]
    <2>1. r \notin settled /\ settled' = settled /\ op' = op
      BY <1>2 DEF Debit, CreditRow, Write, SettledInv, BeforeCommit, InTransaction
    <2>2. \A s \in Request \ {r} : recorded'[s] = recorded[s]
      BY <1>2 DEF Debit, CreditRow, TypeOK
    <2>3. QED
      BY <2>1, <2>2 DEF TypeOK
  <1>4. ASSUME NEW r \in Request,
               CommitMoney(r) \/ CommitUpdate(r) \/ CommitDelete(r) \/ CommitCreate(r)
        PROVE  settled' = settled \union {r} /\ op' = op /\ recorded' = recorded
    BY <1>4 DEF CommitMoney, CommitUpdate, CommitDelete, CommitCreate
  <1>5. ASSUME NEW r \in Request,
               \/ Refused(r) \/ Aborted(r) \/ PassCheck(r) \/ PassDestination(r)
               \/ PassFunds(r) \/ LockRow(r) \/ SkipRow(r) \/ Notify(r)
               \/ NotifyFails(r) \/ Answer(r)
        PROVE  UNCHANGED <<op, recorded, settled>>
    BY <1>5 DEF Refused, Refuse, Aborted, Abort, PassCheck, PassDestination, PassFunds,
       Proceed, LockRow, SkipRow, Notify, NotifyFails, Answer, journal
  <1>6. CASE Crash \/ UNCHANGED vars
    BY <1>6 DEF Crash, vars, journal
  <1>7. ASSUME NEW r \in Request, RequestStep(r)
        PROVE  /\ settled \subseteq settled'
               /\ \A s \in settled : op'[s] = op[s] /\ recorded'[s] = recorded[s]
               /\ \A s \in settled' \ settled :
                    CommitMoney(s) \/ CommitUpdate(s) \/ CommitDelete(s) \/ CommitCreate(s)
    BY <1>1, <1>2, <1>4, <1>5, <1>7 DEF RequestStep
  <1>8. QED
    BY <1>6, <1>7, StepKinds

(* Between two commits of its holder, nobody sees a locked row change.     *)
THEOREM LockedRowsAreStable == Spec => Isolation
  <1>1. ASSUME LedgerInv, [Next]_vars
        PROVE  [\A a \in Account :
                  lock[a] # Nobody /\ (balance'[a] # balance[a] \/ status'[a] # status[a])
                    => lock[a] \in settled' \ settled]_vars
    <2> USE <1>1 DEF LedgerInv
    <2> SUFFICES ASSUME NEW a \in Account, lock[a] # Nobody,
                        balance'[a] # balance[a] \/ status'[a] # status[a]
                 PROVE  lock[a] \in settled' \ settled
      OBVIOUS
    <2>1. ASSUME NEW r \in Request, CommitMoney(r) \/ CommitDelete(r)
          PROVE  lock[a] \in settled' \ settled
      <3>1. lock[a] = r
        BY <2>1 DEF CommitMoney, CommitDelete
      <3>2. r \notin settled /\ r \in settled'
        BY <2>1 DEF CommitMoney, CommitDelete, SettledInv, BeforeCommit, InTransaction
      <3>3. QED
        BY <3>1, <3>2
    <2>2. ASSUME NEW r \in Request, CommitCreate(r)
          PROVE  FALSE
      <3>1. a \in Names(op[r])
        BY <2>2 DEF CommitCreate
      <3>2. status[a] = "unused"
        BY <2>2, <3>1 DEF CommitCreate, FreshInv
      <3>3. QED
        BY <3>2 DEF PlanInv, TypeOK
    <2>3. \E r \in Request : CommitMoney(r) \/ CommitDelete(r) \/ CommitCreate(r)
      BY StepKinds DEF RequestStep, Receive, Refused, Refuse, Aborted, Abort,
         PassCheck, PassDestination, PassFunds, Proceed, LockRow, SkipRow, Debit, CreditRow,
         Write, CommitUpdate, Notify, NotifyFails, Answer, Crash, vars, rows
    <2>4. QED
      BY <2>1, <2>2, <2>3
  <1>2. QED
    BY <1>1, LedgerInvariantHolds, PTL DEF Spec, Isolation

(* A deleted account stays deleted, and what it held stays what it held.   *)
THEOREM DeletedAccountsAreFrozen == Spec => ClosedIsFrozen
  <1>1. ASSUME LedgerInv, [Next]_vars
        PROVE  [\A a \in Account : status[a] = "deleted" =>
                  status'[a] = "deleted" /\ balance'[a] = balance[a]]_vars
    <2> USE <1>1 DEF LedgerInv
    <2> SUFFICES ASSUME NEW a \in Account, status[a] = "deleted"
                 PROVE  status'[a] = "deleted" /\ balance'[a] = balance[a]
      OBVIOUS
    <2>1. status'[a] = "deleted"
      BY StatusSteps
    <2>2. lock[a] = Nobody
      BY DEF PlanInv, TypeOK
    <2>3. ASSUME NEW r \in Request, CommitMoney(r)
          PROVE  balance'[a] = balance[a]
      BY <2>2, <2>3, LedgerAssumption DEF CommitMoney
    <2>4. ASSUME NEW r \in Request, CommitCreate(r)
          PROVE  balance'[a] = balance[a]
      BY <2>4 DEF CommitCreate, FreshInv
    <2>5. CASE ~\E r \in Request : CommitMoney(r) \/ CommitCreate(r)
      BY <2>5, StepKinds DEF RequestStep, Receive, Refused, Refuse, Aborted, Abort,
         PassCheck, PassDestination, PassFunds, Proceed, LockRow, SkipRow, Debit, CreditRow,
         Write, CommitUpdate, CommitDelete, Notify, NotifyFails, Answer, Crash, vars, rows
    <2>6. QED
      BY <2>1, <2>3, <2>4, <2>5
  <1>2. QED
    BY <1>1, LedgerInvariantHolds, PTL DEF Spec, ClosedIsFrozen

(* The commit of a money operation, seen from the committed state: the     *)
(* whole of its posting, and the balance it leaves in its source filed     *)
(* with it.                                                                *)
LEMMA MoneyCommitted ==
  ASSUME LedgerInv, NEW r \in Request, CommitMoney(r)
  PROVE  /\ r \notin settled /\ response[r] = "none" /\ op[r] \in Workload
         /\ status[Src(op[r])] = "open" /\ status[Dst(op[r])] = "open"
         /\ Owner[Src(op[r])] = op[r].user
         /\ Debits(op[r]) => balance[Src(op[r])] >= op[r].amount
         /\ \A a \in Account : balance'[a] = balance[a] + Posting(op[r], a)
         /\ recorded[r] = (IF Debits(op[r]) THEN balance[Src(op[r])] - op[r].amount
                                            ELSE balance[Src(op[r])] + op[r].amount)
  <1> USE DEF LedgerInv
  <1>1. pc[r] = "commit" /\ IsMoney(op[r])
    BY DEF CommitMoney
  <1>2. /\ op[r] \in Workload /\ op[r].amount \in Nat
        /\ Src(op[r]) \in Account /\ Dst(op[r]) \in Account
    BY <1>1, RequestFacts
  <1>3. r \notin settled /\ response[r] = "none"
    BY <1>1 DEF SettledInv, RouteInv, BeforeCommit, InTransaction
  <1>4. /\ Debits(op[r]) \/ Credits(op[r])
        /\ ~Credits(op[r]) \/ ~Debits(op[r]) => Src(op[r]) = Dst(op[r])
    BY <1>1, RequestFacts DEF IsMoney, MoneyKinds, Debits, Credits, SingleKinds
  <1>5. /\ Debits(op[r]) => /\ lock[Src(op[r])] = r
                            /\ balance[Src(op[r])] >= op[r].amount
                            /\ recorded[r] = balance[Src(op[r])] - op[r].amount
        /\ Credits(op[r]) => lock[Dst(op[r])] = r
        /\ ~Debits(op[r]) => recorded[r] = balance[Src(op[r])] + op[r].amount
    BY <1>1, <1>4 DEF FundsInv, FundsHeld, Debited, Credited
  <1>6. lock[Src(op[r])] = r /\ lock[Dst(op[r])] = r
    BY <1>4, <1>5
  <1>7. status[Src(op[r])] = "open" /\ status[Dst(op[r])] = "open"
    BY <1>2, <1>6 DEF PlanInv
  <1>8. Owner[Src(op[r])] = op[r].user
    <2>1. CASE op[r].kind = "transfer"
      BY <2>1, <1>1 DEF OwnershipInv, Checked, InTransaction
    <2>2. CASE op[r].kind # "transfer"
      BY <2>2, <1>1, RequestFacts DEF OwnershipInv, Checked, InTransaction, IsMoney, MoneyKinds
    <2>3. QED
      BY <2>1, <2>2
  <1>9. ASSUME NEW a \in Account
        PROVE  balance'[a] = balance[a] + Posting(op[r], a)
    <2>1. balance'[a] = IF lock[a] = r THEN pending[a] ELSE balance[a]
      BY DEF CommitMoney
    <2>2. CASE lock[a] = r
      BY <2>1, <2>2, <1>1 DEF PendingInv, RowDrafted, Drafted, Debited, Credited, Posting
    <2>3. CASE lock[a] # r
      <3>1. a # Src(op[r]) /\ a # Dst(op[r])
        BY <2>3, <1>6
      <3>2. Posting(op[r], a) = 0
        BY <3>1 DEF Posting
      <3>3. balance[a] \in Int
        BY DEF TypeOK
      <3>4. QED
        BY <2>1, <2>3, <3>2, <3>3
    <2>4. QED
      BY <2>2, <2>3
  <1>10. QED
    BY <1>2, <1>3, <1>5, <1>7, <1>8, <1>9

(* The resultingBalance a money operation files is the balance the others  *)
(* find in its account after the commit, unless a transfer names one       *)
(* account twice.                                                          *)
THEOREM RecordsTellTheBalance == Spec => RecordTellsBalance
  <1>1. ASSUME LedgerInv, [Next]_vars
        PROVE  [\A r \in settled' \ settled :
                  IsMoney(op[r]) /\ (op[r].kind = "transfer" => Src(op[r]) # Dst(op[r]))
                    => RecordsBalance(r)]_vars
    <2> SUFFICES ASSUME NEW r \in settled' \ settled, IsMoney(op[r]),
                        op[r].kind = "transfer" => Src(op[r]) # Dst(op[r])
                 PROVE  RecordsBalance(r)
      OBVIOUS
    <2>1. LedgerInv'
      BY <1>1, RoutesPreserved, SettledPreserved, OwnershipPreserved, FreshPreserved,
         PlanPreserved, MoneyPreserved, JournalPreserved DEF LedgerInv
    <2>2. r \in Request
      BY <2>1 DEF LedgerInv, TypeOK
    <2>3. CommitMoney(r)
      BY <1>1, StepSettles DEF CommitUpdate, CommitDelete, CommitCreate, IsMoney,
         MoneyKinds, UpdateKinds, DeleteKinds
    <2>4. op[r] \in Workload /\ Src(op[r]) \in Account /\ op[r].amount \in Nat
      BY <1>1, <2>2, <2>3, MoneyCommitted, OperationFacts
    <2>5. Posting(op[r], Src(op[r])) = IF Debits(op[r]) THEN 0 - op[r].amount ELSE op[r].amount
      BY <2>4, OperationFacts DEF Posting, Debits, Credits, IsMoney, MoneyKinds, SingleKinds
    <2>6. balance[Src(op[r])] \in Int
      BY <1>1, <2>4 DEF LedgerInv, TypeOK
    <2>7. QED
      BY <1>1, <2>2, <2>3, <2>4, <2>5, <2>6, MoneyCommitted DEF RecordsBalance
  <1>2. QED
    BY <1>1, LedgerInvariantHolds, PTL DEF Spec, RecordTellsBalance

-----------------------------------------------------------------------------
(* Sums over finite sets: SumFunctionOnSet of the community modules, which *)
(* recurses over subsets by a CHOOSE.                                      *)

(* t is a total of f over the subsets of S: nothing for the empty set, and *)
(* one more element adds its value, whichever it is.                       *)
IsTotal(t, f, S) ==
  /\ t \in [SUBSET S -> Int] /\ t[{}] = 0
  /\ \A T \in SUBSET S, x \in S : x \notin T => t[T \union {x}] = t[T] + f[x]

(* A non-empty set of finite sets has a smallest one.                      *)
LEMMA SmallestSet ==
  ASSUME NEW C, C # {}, \A T \in C : IsFiniteSet(T)
  PROVE  \E T \in C : \A U \in C : ~(Cardinality(U) < Cardinality(T))
  <1> DEFINE sizes == {Cardinality(T) : T \in C}
  <1>1. sizes \subseteq Nat /\ sizes # {}
    BY FS_CardinalityType
  <1>2. PICK m \in sizes : \A n \in sizes : ~(<<n, m>> \in OpToRel(<, Nat))
    BY <1>1, NatLessThanWellFounded, WFMin
  <1>3. \A n \in sizes : ~(n < m)
    BY <1>1, <1>2 DEF OpToRel
  <1> QED BY <1>3

(* A finite set without one of its elements is smaller.                    *)
LEMMA SmallerWithout ==
  ASSUME NEW S, IsFiniteSet(S), NEW x \in S
  PROVE  Cardinality(S \ {x}) < Cardinality(S)
  <1>1. Cardinality(S) \in Nat
    BY FS_CardinalityType
  <1>2. Cardinality(S \ {x}) = Cardinality(S) - 1
    BY FS_RemoveElement
  <1> QED BY <1>1, <1>2

(* Every finite set has a total: a smallest one without would have one     *)
(* from that of all its elements but one.                                  *)
LEMMA TotalExists ==
  ASSUME NEW S, IsFiniteSet(S), NEW f, \A x \in S : f[x] \in Int
  PROVE  \E t : IsTotal(t, f, S)
  <1> DEFINE bad == {T \in SUBSET S : ~\E t : IsTotal(t, f, T)}
  <1>1. SUFFICES ASSUME bad # {} PROVE FALSE
    OBVIOUS
  <1>2. \A T \in bad : IsFiniteSet(T)
    BY FS_Subset
  <1>3. PICK T \in bad : \A U \in bad : ~(Cardinality(U) < Cardinality(T))
    BY <1>1, <1>2, SmallestSet
  <1>4. CASE T = {}
    <2>1. IsTotal([U \in SUBSET {} |-> 0], f, {})
      BY DEF IsTotal
    <2> QED BY <1>3, <1>4, <2>1
  <1>5. CASE T # {}
    <2>1. PICK x \in T : TRUE
      BY <1>5
    <2> DEFINE R == T \ {x}
    <2>2. IsFiniteSet(T) /\ Cardinality(R) < Cardinality(T)
      BY <1>2, <2>1, SmallerWithout
    <2>3. R \in SUBSET S /\ R \notin bad
      BY <1>3, <2>2
    <2>4. PICK t : IsTotal(t, f, R)
      BY <2>3
    <2> DEFINE u == [U \in SUBSET T |-> IF x \in U THEN t[U \ {x}] + f[x] ELSE t[U]]
    <2> HIDE DEF R
    <2>5. x \notin R /\ T = R \union {x}
      BY <2>1 DEF R
    <2>6. /\ t \in [SUBSET R -> Int] /\ t[{}] = 0
          /\ \A U \in SUBSET R, y \in R : y \notin U => t[U \union {y}] = t[U] + f[y]
      BY <2>4 DEF IsTotal
    <2>7. \A y \in T : f[y] \in Int
      BY <1>3
    <2>8. \A U \in SUBSET T : U \ {x} \in SUBSET R /\ (x \notin U => U \in SUBSET R)
      BY <2>5
    <2>9. u \in [SUBSET T -> Int]
      BY <2>1, <2>6, <2>7, <2>8
    <2>10. u[{}] = 0
      BY <2>6
    <2>11. ASSUME NEW U \in SUBSET T, NEW y \in T, y \notin U
           PROVE  u[U \union {y}] = u[U] + f[y]
      <3>1. U \union {y} \in SUBSET T
        OBVIOUS
      <3>2. CASE y = x
        <4>1. (U \union {x}) \ {x} = U /\ x \in U \union {x} /\ x \notin U
          BY <3>2, <2>11
        <4> QED BY <3>1, <3>2, <4>1
      <3>3. CASE y # x /\ x \in U
        <4>1. (U \union {y}) \ {x} = (U \ {x}) \union {y} /\ x \in U \union {y}
          BY <3>3
        <4>2. y \in R /\ y \notin U \ {x} /\ U \ {x} \in SUBSET R
          BY <3>3, <2>5, <2>8, <2>11
        <4>3. t[(U \ {x}) \union {y}] = t[U \ {x}] + f[y]
          BY <4>2, <2>6
        <4>4. u[U \union {y}] = t[U \ {x}] + f[y] + f[x]
          BY <3>1, <4>1, <4>3
        <4>5. u[U] = t[U \ {x}] + f[x]
          BY <3>3
        <4>6. t[U \ {x}] \in Int /\ f[x] \in Int /\ f[y] \in Int
          BY <4>2, <2>6, <2>7, <2>1
        <4> QED BY <4>4, <4>5, <4>6
      <3>4. CASE y # x /\ x \notin U
        <4>1. x \notin U \union {y} /\ y \in R /\ U \in SUBSET R
          BY <3>4, <2>5, <2>8
        <4> QED BY <3>1, <3>4, <4>1, <2>6, <2>11
      <3> QED BY <3>2, <3>3, <3>4
    <2>12. IsTotal(u, f, T)
      BY <2>9, <2>10, <2>11 DEF IsTotal
    <2> QED BY <1>3, <2>12
  <1> QED BY <1>4, <1>5

(* What the sum of the community modules computes: its recursion, which    *)
(* takes the elements in an order of its own, has a solution and only one. *)
LEMMA SumIsTotal ==
  ASSUME NEW S, IsFiniteSet(S), NEW f, \A x \in S : f[x] \in Int,
         NEW t, IsTotal(t, f, S)
  PROVE  SumFunctionOnSet(f, S) = t[S]
  <1> DEFINE first(U) == CHOOSE x \in U : TRUE
             Solves(h) == h = [U \in SUBSET S |->
               IF U = {} THEN 0 ELSE f[first(U)] + h[U \ {first(U)}]]
  <1>1. \A U \in SUBSET S : U # {} =>
          /\ first(U) \in U /\ first(U) \in S /\ U \ {first(U)} \in SUBSET S
          /\ t[U] = f[first(U)] + t[U \ {first(U)}]
    <2> SUFFICES ASSUME NEW U \in SUBSET S, U # {}
                 PROVE  /\ first(U) \in U /\ first(U) \in S /\ U \ {first(U)} \in SUBSET S
                        /\ t[U] = f[first(U)] + t[U \ {first(U)}]
      OBVIOUS
    <2>1. first(U) \in U
      OBVIOUS
    <2> HIDE DEF first
    <2> DEFINE V == U \ {first(U)}
    <2>2. first(U) \in S /\ V \in SUBSET S /\ first(U) \notin V /\ V \union {first(U)} = U
      BY <2>1
    <2>3. t[U] = t[V] + f[first(U)] /\ t[V] \in Int /\ f[first(U)] \in Int
      BY <2>2 DEF IsTotal
    <2> QED BY <2>1, <2>2, <2>3
  <1>2. Solves(t)
    <2>1. t = [U \in SUBSET S |-> t[U]] /\ t[{}] = 0
      BY DEF IsTotal
    <2> QED BY <1>1, <2>1
  <1>3. ASSUME NEW h, Solves(h) PROVE h[S] = t[S]
    <2> DEFINE bad == {U \in SUBSET S : h[U] # t[U]}
    <2> SUFFICES ASSUME bad # {} PROVE FALSE
      OBVIOUS
    <2>1. \A U \in bad : IsFiniteSet(U)
      BY FS_Subset
    <2>2. PICK U \in bad : \A V \in bad : ~(Cardinality(V) < Cardinality(U))
      BY <2>1, SmallestSet
    <2>3. U # {}
      BY <1>3, <2>2 DEF IsTotal
    <2>4. /\ first(U) \in U /\ U \ {first(U)} \in SUBSET S
          /\ t[U] = f[first(U)] + t[U \ {first(U)}]
      BY <1>1, <2>2, <2>3
    <2>5. h[U] = f[first(U)] + h[U \ {first(U)}]
      BY <1>3, <2>2, <2>3
    <2> HIDE DEF first
    <2>6. Cardinality(U \ {first(U)}) < Cardinality(U)
      BY <2>1, <2>2, <2>4, SmallerWithout
    <2> QED BY <2>2, <2>4, <2>5, <2>6
  <1> HIDE DEF Solves
  <1>4. SumFunctionOnSet(f, S) = (CHOOSE h : Solves(h))[S]
    BY DEF SumFunctionOnSet, FoldFunctionOnSet, MapThenFoldSet, Solves
  <1> QED BY <1>2, <1>3, <1>4

(* Nothing adds up to zero, and integers to an integer.                    *)
LEMMA SumOfNothing ==
  ASSUME NEW f
  PROVE  SumFunctionOnSet(f, {}) = 0
  <1>1. IsFiniteSet({})
    BY FS_EmptySet
  <1>2. PICK t : IsTotal(t, f, {})
    BY <1>1, TotalExists
  <1> QED BY <1>1, <1>2, SumIsTotal DEF IsTotal

LEMMA SumIsInteger ==
  ASSUME NEW S, IsFiniteSet(S), NEW f, \A y \in S : f[y] \in Int
  PROVE  SumFunctionOnSet(f, S) \in Int
  <1>1. PICK t : IsTotal(t, f, S)
    BY TotalExists
  <1>2. SumFunctionOnSet(f, S) = t[S]
    BY <1>1, SumIsTotal
  <1> QED BY <1>1, <1>2 DEF IsTotal

(* One more element adds its value.                                       *)
LEMMA SumWithOneMore ==
  ASSUME NEW S, IsFiniteSet(S), NEW x, x \notin S,
         NEW f, \A y \in S \union {x} : f[y] \in Int
  PROVE  SumFunctionOnSet(f, S \union {x}) = SumFunctionOnSet(f, S) + f[x]
  <1> DEFINE R == S \union {x}
  <1>1. IsFiniteSet(R)
    BY FS_AddElement
  <1>2. PICK t : IsTotal(t, f, R)
    BY <1>1, TotalExists
  <1> DEFINE u == [T \in SUBSET S |-> t[T]]
  <1>3. IsTotal(u, f, S)
    <2>1. SUBSET S \subseteq SUBSET R /\ S \subseteq R /\ {} \in SUBSET S
      OBVIOUS
    <2>2. \A T \in SUBSET S, y \in S : T \union {y} \in SUBSET S
      OBVIOUS
    <2> HIDE DEF R
    <2> QED BY <1>2, <2>1, <2>2 DEF IsTotal
  <1>4. SumFunctionOnSet(f, R) = t[R] /\ SumFunctionOnSet(f, S) = u[S]
    BY <1>1, <1>2, <1>3, SumIsTotal
  <1>5. t[R] = t[S] + f[x]
    BY <1>2 DEF IsTotal
  <1> QED BY <1>4, <1>5

(* The sum over a set depends on the values there only.                    *)
LEMMA SameSum ==
  ASSUME NEW S, IsFiniteSet(S), NEW f, NEW g,
         \A x \in S : f[x] \in Int /\ g[x] = f[x]
  PROVE  SumFunctionOnSet(g, S) = SumFunctionOnSet(f, S)
  <1>1. PICK t : IsTotal(t, f, S)
    BY TotalExists
  <1>2. IsTotal(t, g, S)
    BY <1>1 DEF IsTotal
  <1> QED BY <1>1, <1>2, SumIsTotal

(* The sums of two functions add up to the sum of the sums.                *)
LEMMA SumOfSums ==
  ASSUME NEW S, IsFiniteSet(S), NEW f \in [S -> Int], NEW g \in [S -> Int],
         NEW h \in [S -> Int], \A x \in S : h[x] = f[x] + g[x]
  PROVE  SumFunction(h) = SumFunction(f) + SumFunction(g)
  <1>1. PICK t : IsTotal(t, f, S)
    BY TotalExists
  <1>2. PICK u : IsTotal(u, g, S)
    BY TotalExists
  <1> DEFINE v == [T \in SUBSET S |-> t[T] + u[T]]
  <1>3. /\ t \in [SUBSET S -> Int] /\ u \in [SUBSET S -> Int]
        /\ t[{}] = 0 /\ u[{}] = 0
    BY <1>1, <1>2 DEF IsTotal
  <1>4. ASSUME NEW T \in SUBSET S, NEW x \in S, x \notin T
        PROVE  v[T \union {x}] = v[T] + h[x]
    <2>1. T \union {x} \in SUBSET S
      OBVIOUS
    <2>2. t[T \union {x}] = t[T] + f[x] /\ u[T \union {x}] = u[T] + g[x]
      BY <1>1, <1>2, <1>4 DEF IsTotal
    <2>3. t[T] \in Int /\ u[T] \in Int /\ f[x] \in Int /\ g[x] \in Int
      BY <1>3
    <2> QED BY <2>1, <2>2, <2>3
  <1>5. IsTotal(v, h, S)
    <2>1. v \in [SUBSET S -> Int] /\ v[{}] = 0
      BY <1>3
    <2> HIDE DEF v
    <2> QED BY <1>4, <2>1 DEF IsTotal
  <1>6. /\ SumFunctionOnSet(f, S) = t[S] /\ SumFunctionOnSet(g, S) = u[S]
        /\ SumFunctionOnSet(h, S) = v[S]
    BY <1>1, <1>2, <1>5, SumIsTotal
  <1> QED BY <1>6 DEF SumFunction

(* A function that is zero but at one place sums up to its value there.    *)
LEMMA SumOfOne ==
  ASSUME NEW S, IsFiniteSet(S), NEW y \in S, NEW n \in Int
  PROVE  SumFunction([x \in S |-> IF x = y THEN n ELSE 0]) = n
  <1> DEFINE f == [x \in S |-> IF x = y THEN n ELSE 0]
             t == [T \in SUBSET S |-> IF y \in T THEN n ELSE 0]
  <1>1. IsTotal(t, f, S)
    BY DEF IsTotal
  <1>2. SumFunctionOnSet(f, S) = t[S]
    BY <1>1, SumIsTotal
  <1> QED BY <1>2 DEF SumFunction

-----------------------------------------------------------------------------
(* The audit trail. *)

(* The postings of settled operations to an account are integers.          *)
LEMMA PostingFacts ==
  ASSUME LedgerInv, NEW a \in Account
  PROVE  /\ PostingsTo(a) \in [MoneySettled -> Int]
         /\ InitialBalance(a) \in Int /\ balance[a] \in Int
  <1> USE DEF LedgerInv
  <1>1. ASSUME NEW r \in MoneySettled
        PROVE  Posting(op[r], a) \in Int
    <2>1. r \in Request /\ pc[r] # "idle"
      BY DEF MoneySettled, SettledInv, TypeOK
    <2>2. op[r].amount \in Nat
      BY <2>1, RequestFacts
    <2> QED BY <2>2 DEF Posting
  <1>2. InitialBalance(a) \in Int
    BY LedgerAssumption, BankAssumption DEF InitialBalance
  <1>3. balance[a] \in Int
    BY DEF TypeOK
  <1> QED BY <1>1, <1>2, <1>3 DEF PostingsTo

(* The same of the state that a step reaches.                              *)
PostingsAreIntegers == \A a \in Account : PostingsTo(a) \in [MoneySettled -> Int]

LEMMA PostingsNext == LedgerInv' => PostingsAreIntegers'
  <1>1. LedgerInv => PostingsAreIntegers
    BY PostingFacts DEF PostingsAreIntegers
  <1> QED BY <1>1, PTL

(* What a step settles: one request or none; of the settled requests, it   *)
(* changes nothing.  No balance moves but by the commit of a money         *)
(* operation.                                                              *)
LEMMA SettledBy ==
  ASSUME LedgerInv, [Next]_vars
  PROVE  /\ \E r : settled' \subseteq settled \union {r}
         /\ \/ \E r \in Request : CommitMoney(r)
            \/ /\ MoneySettled' = MoneySettled
               /\ balance' = balance
  <1> USE DEF LedgerInv
  <1>1. ASSUME NEW r \in Request, CommitMoney(r)
        PROVE  settled' \subseteq settled \union {r}
    BY <1>1 DEF CommitMoney
  <1>2. ASSUME NEW r \in Request, CommitUpdate(r) \/ CommitDelete(r) \/ CommitCreate(r)
        PROVE  /\ settled' \subseteq settled \union {r}
               /\ MoneySettled' = MoneySettled /\ balance' = balance
    <2>1. settled' = settled \union {r} /\ op' = op /\ ~IsMoney(op[r])
      BY <1>2 DEF CommitUpdate, CommitDelete, CommitCreate, UpdateKinds, DeleteKinds,
         IsMoney, MoneyKinds
    <2>2. MoneySettled' = MoneySettled
      BY <2>1 DEF MoneySettled
    <2>3. CASE CommitUpdate(r) \/ CommitDelete(r)
      BY <2>1, <2>2, <2>3 DEF CommitUpdate, CommitDelete
    <2>4. CASE CommitCreate(r)
      <3>1. \A a \in Names(op[r]) : a \in Account => balance[a] = 0
        BY <2>4 DEF CommitCreate, FreshInv
      <3>2. balance' = [a \in Account |-> balance[a]]
        BY <2>4, <3>1 DEF CommitCreate
      <3> QED BY <2>1, <2>2, <3>2 DEF TypeOK
    <2> QED BY <1>2, <2>3, <2>4
  <1>3. CASE settled' = settled /\ balance' = balance
    <2>1. \A r \in settled : op'[r] = op[r]
      BY StepSettles
    <2>2. MoneySettled' = MoneySettled
      BY <1>3, <2>1 DEF MoneySettled
    <2> QED BY <1>3, <2>2
  <1>4. \/ \E r \in Request :
             CommitMoney(r) \/ CommitUpdate(r) \/ CommitDelete(r) \/ CommitCreate(r)
        \/ settled' = settled /\ balance' = balance
    BY StepKinds DEF RequestStep, Receive, Refused, Refuse, Aborted, Abort, PassCheck,
       PassDestination, PassFunds, Proceed, LockRow, SkipRow, Debit, CreditRow, Write,
       Notify, NotifyFails, Answer, Crash, vars, rows, journal
  <1> QED BY <1>1, <1>2, <1>3, <1>4

(* At any time only finitely many requests have settled.                   *)
LEMMA FiniteSettled ==
  ASSUME LedgerInv, [Next]_vars, IsFiniteSet(settled)
  PROVE  IsFiniteSet(settled')
  <1>1. PICK r : settled' \subseteq settled \union {r}
    BY SettledBy
  <1>2. IsFiniteSet(settled \union {r})
    BY FS_AddElement
  <1> QED BY <1>1, <1>2, FS_Subset

(* The audit trail needs of the settled requests that they are finitely    *)
(* many, so that what they posted has a sum.                               *)
AuditInv == IsFiniteSet(settled) /\ AuditTrail

LEMMA AuditPreserved ==
  ASSUME LedgerInv, LedgerInv', [Next]_vars, AuditInv
  PROVE  AuditInv'
  <1>1. IsFiniteSet(settled')
    BY FiniteSettled DEF AuditInv
  <1>2. IsFiniteSet(MoneySettled)
    BY FS_Subset DEF AuditInv, MoneySettled
  <1>3. ASSUME NEW a \in Account
        PROVE  balance'[a] = InitialBalance(a) + SumFunction(PostingsTo(a)')
    <2> DEFINE f == PostingsTo(a)
               g == PostingsTo(a)'
    <2>1. balance[a] = InitialBalance(a) + SumFunction(f)
      BY DEF AuditInv, AuditTrail
    <2>2. f \in [MoneySettled -> Int] /\ g \in [MoneySettled' -> Int]
          /\ InitialBalance(a) \in Int
      BY PostingFacts, PostingsNext DEF PostingsAreIntegers
    <2>3. \A r \in MoneySettled : op'[r] = op[r]
      BY StepSettles DEF MoneySettled
    <2>4. SumFunction(f) = SumFunctionOnSet(f, MoneySettled)
          /\ SumFunction(g) = SumFunctionOnSet(g, MoneySettled')
      BY <2>2 DEF SumFunction
    <2>5. CASE MoneySettled' = MoneySettled /\ balance' = balance
      <3>1. g = f
        BY <2>3, <2>5 DEF PostingsTo
      <3> QED BY <2>1, <2>5, <3>1
    <2>6. ASSUME NEW r \in Request, CommitMoney(r)
          PROVE  balance'[a] = InitialBalance(a) + SumFunction(g)
      <3>1. /\ r \notin MoneySettled /\ MoneySettled' = MoneySettled \union {r}
            /\ g[r] = Posting(op[r], a)
        <4>1. r \notin settled
          BY <2>6, MoneyCommitted
        <4>2. settled' = settled \union {r} /\ op' = op /\ IsMoney(op[r])
          BY <2>6 DEF CommitMoney
        <4>3. MoneySettled' = MoneySettled \union {r}
          BY <4>2 DEF MoneySettled
        <4> QED BY <4>1, <4>2, <4>3 DEF MoneySettled, PostingsTo
      <3>2. \A s \in MoneySettled : f[s] \in Int /\ g[s] = f[s]
        BY <2>2, <2>3, <3>1 DEF PostingsTo
      <3> HIDE DEF f, g
      <3>3. SumFunctionOnSet(g, MoneySettled) = SumFunctionOnSet(f, MoneySettled)
        BY <1>2, <3>2, SameSum
      <3>4. SumFunctionOnSet(g, MoneySettled') = SumFunctionOnSet(g, MoneySettled) + g[r]
        <4>1. \A s \in MoneySettled \union {r} : g[s] \in Int
          BY <2>2, <3>1
        <4> QED BY <1>2, <3>1, <4>1, SumWithOneMore
      <3>5. SumFunctionOnSet(f, MoneySettled) \in Int /\ g[r] \in Int
        BY <1>2, <2>2, <3>1, <3>2, SumIsInteger
      <3>6. balance'[a] = balance[a] + g[r]
        BY <2>6, <3>1, MoneyCommitted
      <3> QED BY <2>1, <2>2, <2>4, <3>3, <3>4, <3>5, <3>6
    <2> QED BY <2>5, <2>6, SettledBy
  <1> QED BY <1>1, <1>3 DEF AuditInv, AuditTrail, InitialBalance

(* Whatever interleaves, fails or crashes, every balance is the opening    *)
(* one and exactly what the settled deposits, withdrawals and transfers    *)
(* posted to it: none is lost, doubled or left behind by a rollback.       *)
THEOREM BalancesAddUp == Spec => []AuditTrail
  <1>1. Init => AuditInv
    <2> SUFFICES ASSUME Init PROVE AuditInv
      OBVIOUS
    <2>1. settled = {} /\ IsFiniteSet(settled)
      BY FS_EmptySet DEF Init
    <2>2. ASSUME NEW a \in Account
          PROVE  balance[a] = InitialBalance(a) + SumFunction(PostingsTo(a))
      <3>1. balance[a] = InitialBalance(a) /\ InitialBalance(a) \in Int
        BY LedgerAssumption, BankAssumption DEF Init, InitialBalance
      <3>2. DOMAIN PostingsTo(a) = {}
        BY <2>1 DEF PostingsTo, MoneySettled
      <3>3. SumFunction(PostingsTo(a)) = 0
        BY <3>2, SumOfNothing DEF SumFunction
      <3> QED BY <3>1, <3>3
    <2> QED BY <2>1, <2>2 DEF AuditInv, AuditTrail
  <1>2. AuditInv => AuditTrail
    BY DEF AuditInv
  <1> QED BY <1>1, <1>2, AuditPreserved, LedgerInvariantHolds, PTL DEF Spec

-----------------------------------------------------------------------------
(* The money in the bank. *)

(* What an operation brings into the bank: a transfer brings nothing.      *)
Net(o) == (IF Credits(o) THEN o.amount ELSE 0) - (IF Debits(o) THEN o.amount ELSE 0)
Nets == [r \in MoneySettled |-> Net(op[r])]
InitialBalances == [a \in Account |-> InitialBalance(a)]

(* All the money there is, is what there was at first and what deposits    *)
(* brought in and withdrawals took out.                                    *)
MoneyConserved == SumFunction(balance) = SumFunction(InitialBalances) + SumFunction(Nets)

(* The postings of an operation to all the accounts add up to its net.     *)
LEMMA PostingsSum ==
  ASSUME IsFiniteSet(Account), NEW o \in Workload
  PROVE  SumFunction([a \in Account |-> Posting(o, a)]) = Net(o)
  <1> DEFINE in == [a \in Account |->
                      IF a = Dst(o) THEN (IF Credits(o) THEN o.amount ELSE 0) ELSE 0]
             out == [a \in Account |->
                      IF a = Src(o) THEN (IF Debits(o) THEN 0 - o.amount ELSE 0) ELSE 0]
             all == [a \in Account |-> Posting(o, a)]
  <1>1. o.amount \in Nat /\ Src(o) \in Account /\ Dst(o) \in Account
    BY OperationFacts
  <1>2. in \in [Account -> Int] /\ out \in [Account -> Int] /\ all \in [Account -> Int]
        /\ \A a \in Account : all[a] = in[a] + out[a]
    BY <1>1 DEF Posting
  <1>3. SumFunction(in) = IF Credits(o) THEN o.amount ELSE 0
    <2> DEFINE n == IF Credits(o) THEN o.amount ELSE 0
    <2>1. n \in Int
      BY <1>1
    <2> HIDE DEF n
    <2>2. SumFunction([a \in Account |-> IF a = Dst(o) THEN n ELSE 0]) = n
      BY <1>1, <2>1, SumOfOne
    <2> QED BY <2>2 DEF n
  <1>4. SumFunction(out) = IF Debits(o) THEN 0 - o.amount ELSE 0
    <2> DEFINE n == IF Debits(o) THEN 0 - o.amount ELSE 0
    <2>1. n \in Int
      BY <1>1
    <2> HIDE DEF n
    <2>2. SumFunction([a \in Account |-> IF a = Src(o) THEN n ELSE 0]) = n
      BY <1>1, <2>1, SumOfOne
    <2> QED BY <2>2 DEF n
  <1> HIDE DEF in, out, all
  <1>5. SumFunction(all) = SumFunction(in) + SumFunction(out)
    BY <1>2, SumOfSums
  <1> QED BY <1>1, <1>3, <1>4, <1>5 DEF Net, all

(* What the settled operations brought are integers.                       *)
NetsAreIntegers == Nets \in [MoneySettled -> Int]
LEMMA NetFacts == LedgerInv => NetsAreIntegers
  <1> SUFFICES ASSUME LedgerInv, NEW r \in MoneySettled
               PROVE  Net(op[r]) \in Int
    BY DEF NetsAreIntegers, Nets
  <1>1. r \in Request /\ pc[r] # "idle"
    BY DEF MoneySettled, SettledInv, TypeOK, LedgerInv
  <1>2. op[r].amount \in Nat
    BY <1>1, RequestFacts DEF LedgerInv
  <1> QED BY <1>2 DEF Net

LEMMA NetsNext == LedgerInv' => NetsAreIntegers'
  BY NetFacts, PTL

(* The commit of a money operation adds its net to the money in the bank;  *)
(* no other step changes any balance.                                      *)
LEMMA MoneyPreservedInAll ==
  ASSUME IsFiniteSet(Account), LedgerInv, LedgerInv', [Next]_vars,
         IsFiniteSet(settled), MoneyConserved
  PROVE  MoneyConserved'
  <1>1. IsFiniteSet(MoneySettled)
    BY FS_Subset DEF MoneySettled
  <1>2. Nets \in [MoneySettled -> Int] /\ Nets' \in [MoneySettled' -> Int]
    BY NetFacts, NetsNext DEF NetsAreIntegers
  <1>3. \A r \in MoneySettled : op'[r] = op[r]
    BY StepSettles DEF MoneySettled
  <1>4. CASE MoneySettled' = MoneySettled /\ balance' = balance
    <2>1. Nets' = Nets
      BY <1>3, <1>4 DEF Nets
    <2> QED BY <1>4, <2>1 DEF MoneyConserved
  <1>5. ASSUME NEW r \in Request, CommitMoney(r)
        PROVE  MoneyConserved'
    <2>1. /\ r \notin settled /\ op[r] \in Workload
          /\ \A a \in Account : balance'[a] = balance[a] + Posting(op[r], a)
      BY <1>5, MoneyCommitted
    <2>2. settled' = settled \union {r} /\ op' = op /\ IsMoney(op[r])
      BY <1>5 DEF CommitMoney
    <2>3. /\ r \notin MoneySettled /\ MoneySettled' = MoneySettled \union {r}
          /\ Nets'[r] = Net(op[r])
      BY <2>1, <2>2 DEF MoneySettled, Nets
    <2>4. SumFunction(Nets') = SumFunction(Nets) + Net(op[r])
      <3> DEFINE f == Nets
                 g == Nets'
      <3>1. \A s \in MoneySettled : f[s] \in Int /\ g[s] = f[s]
        BY <1>2, <1>3, <2>3 DEF Nets
      <3>2. SumFunction(f) = SumFunctionOnSet(f, MoneySettled)
            /\ SumFunction(g) = SumFunctionOnSet(g, MoneySettled')
        BY <1>2 DEF SumFunction
      <3>3. f \in [MoneySettled -> Int] /\ g \in [MoneySettled' -> Int]
            /\ g[r] = Net(op[r])
        BY <1>2, <2>3
      <3> HIDE DEF f, g
      <3>4. SumFunctionOnSet(g, MoneySettled) = SumFunctionOnSet(f, MoneySettled)
        BY <1>1, <3>1, SameSum
      <3>5. \A s \in MoneySettled \union {r} : g[s] \in Int
        BY <2>3, <3>3
      <3>6. SumFunctionOnSet(g, MoneySettled') = SumFunctionOnSet(g, MoneySettled) + g[r]
        BY <1>1, <2>3, <3>5, SumWithOneMore
      <3>7. SumFunction(g) = SumFunction(f) + Net(op[r])
        BY <3>2, <3>3, <3>4, <3>6
      <3> QED BY <3>7 DEF f, g
    <2>5. SumFunction(balance') = SumFunction(balance) + Net(op[r])
      <3> DEFINE p == [a \in Account |-> Posting(op[r], a)]
      <3>1. SumFunction(p) = Net(op[r])
        BY <2>1, PostingsSum
      <3>2. balance \in [Account -> Int] /\ balance' \in [Account -> Int]
        BY DEF LedgerInv, TypeOK
      <3>3. p \in [Account -> Int] /\ \A a \in Account : balance'[a] = balance[a] + p[a]
        BY <2>1, OperationFacts DEF Posting
      <3> HIDE DEF p
      <3>4. SumFunction(balance') = SumFunction(balance) + SumFunction(p)
        BY <3>2, <3>3, SumOfSums
      <3> QED BY <3>1, <3>4
    <2>6. SumFunction(Nets) \in Int /\ SumFunction(InitialBalances) \in Int /\ Net(op[r]) \in Int
      <3>1. InitialBalances \in [Account -> Int]
        BY LedgerAssumption, BankAssumption DEF InitialBalances, InitialBalance
      <3>2. Net(op[r]) \in Int
        BY <2>1, OperationFacts DEF Net
      <3> QED BY <1>1, <1>2, <3>1, <3>2, SumIsInteger DEF SumFunction
    <2>7. InitialBalances' = InitialBalances
      BY DEF InitialBalances, InitialBalance
    <2> QED BY <2>4, <2>5, <2>6, <2>7 DEF MoneyConserved
  <1> QED BY <1>4, <1>5, SettledBy

(* Over finitely many accounts, the money in the bank is what was there at *)
(* first, plus the settled deposits, minus the settled withdrawals: no     *)
(* transfer, deletion, timeout or crash makes or destroys any.             *)
THEOREM MoneyIsConserved ==
  ASSUME IsFiniteSet(Account)
  PROVE  Spec => []MoneyConserved
  <1> DEFINE Inv == IsFiniteSet(settled) /\ MoneyConserved
  <1>1. Init => Inv
    <2> SUFFICES ASSUME Init PROVE Inv
      OBVIOUS
    <2>1. settled = {} /\ IsFiniteSet(settled)
      BY FS_EmptySet DEF Init
    <2>2. DOMAIN Nets = {}
      BY <2>1 DEF Nets, MoneySettled
    <2>3. SumFunction(Nets) = 0
      BY <2>2, SumOfNothing DEF SumFunction
    <2>4. balance = InitialBalances
      BY DEF Init, InitialBalances, InitialBalance
    <2>5. InitialBalances \in [Account -> Int]
      BY LedgerAssumption, BankAssumption DEF InitialBalances, InitialBalance
    <2>6. SumFunction(InitialBalances) \in Int
      BY <2>5, SumIsInteger DEF SumFunction
    <2> QED BY <2>1, <2>3, <2>4, <2>6 DEF MoneyConserved
  <1>2. ASSUME Inv, LedgerInv, LedgerInv', [Next]_vars
        PROVE  Inv'
    BY <1>2, MoneyPreservedInAll, FiniteSettled
  <1>3. Inv => MoneyConserved
    OBVIOUS
  <1> QED BY <1>1, <1>2, <1>3, LedgerInvariantHolds, PTL DEF Spec

-----------------------------------------------------------------------------
(* The ledger implements the abstract one. *)

Filed == [r \in Request |->
            IF r \in settled /\ IsMoney(op[r]) THEN recorded[r] ELSE 0]
BankVars == <<op, status, balance, settled, Filed, response>>

(* A step that settles nothing leaves what is filed as it is.              *)
LEMMA FiledUnchanged ==
  ASSUME LedgerInv, [Next]_vars, settled' = settled
  PROVE  Filed' = Filed
  <1>1. \A r \in settled : op'[r] = op[r] /\ recorded'[r] = recorded[r]
    BY StepSettles
  <1>2. QED
    BY <1>1 DEF Filed

(* Nothing but its own rows is locked by a transaction about to commit, and *)
(* if it does not move money it holds every row it names.                  *)
LEMMA NamedRows ==
  ASSUME LedgerInv, NEW r \in Request, pc[r] = "commit",
         op[r].kind \in UpdateKinds \union DeleteKinds, NEW a \in Account
  PROVE  lock[a] = r <=> a \in Names(op[r])
  <1> USE DEF LedgerInv
  <1>1. op[r].kind # "create" /\ ~IsMoney(op[r]) /\ pc[r] \in InTransaction \ {"lock"}
        /\ pc[r] # "idle"
    BY DEF UpdateKinds, DeleteKinds, IsMoney, MoneyKinds, InTransaction
  <1>2. ASSUME a \in Names(op[r])
        PROVE  lock[a] = r
    BY <1>1, <1>2, RowsHeld
  <1>3. ASSUME lock[a] = r
        PROVE  a \in Names(op[r])
    <2>1. PICK i \in 1..locked[r] : a = Plan(op[r])[i]
      BY <1>3 DEF PlanInv
    <2>2. locked[r] = Len(Plan(op[r]))
      BY <1>1 DEF PlanInv
    <2>3. QED
      BY <1>1, <2>1, <2>2, RequestFacts, PlanFacts
  <1>4. QED
    BY <1>2, <1>3

(* Every step of the ledger is a step of the abstract ledger or changes    *)
(* nothing it can see.                                                     *)
LEMMA StepImplements ==
  ASSUME LedgerInv, LedgerInv', [Next]_vars
  PROVE  [Bank!Next]_(Bank!vars)
  <1> USE DEF LedgerInv
  <1>a. Bank!vars = BankVars /\ Bank!vars' = BankVars'
    BY DEF Bank!vars, BankVars, Filed
  <1>b. \A r \in Request : pc[r] \notin {"idle", "done"} => op[r] # NoOp /\ response[r] = "none"
    BY DEF RouteInv
  <1>1. ASSUME NEW r \in Request, Receive(r)
        PROVE  Bank!Submit(r)
    <2>1. op[r] = NoOp /\ UNCHANGED <<status, balance, settled, response>>
      BY <1>1 DEF Receive, RouteInv, rows, journal
    <2>2. Filed' = Filed
      BY <2>1, FiledUnchanged
    <2>3. \E o \in Workload : op' = [op EXCEPT ![r] = o]
      BY <1>1 DEF Receive
    <2>4. QED
      BY <2>1, <2>2, <2>3 DEF Bank!Submit, Bank!NoOp, NoOp, Filed
  <1>2. ASSUME NEW r \in Request, Refused(r) \/ Aborted(r) \/ NotifyFails(r) \/ Answer(r)
        PROVE  \E code \in {"ok", "500"} \union Bank!Refusals : Bank!Answer(r, code)
    <2>1. UNCHANGED <<op, status, balance, settled>>
      BY <1>2 DEF Refused, Refuse, Aborted, Abort, NotifyFails, Answer, rows, journal
    <2>2. Filed' = Filed
      BY <2>1, FiledUnchanged
    <2>3. op[r] # NoOp /\ response[r] = "none"
      BY <1>2, <1>b DEF Refused, Aborted, NotifyFails, Answer, BeforeCommit, InTransaction
    <2>4. PICK code \in {"ok", "500", "403", "404", "409", "422", "503"} :
            /\ response' = [response EXCEPT ![r] = code]
            /\ code = "ok" => r \in settled
            /\ code \in {"403", "404", "409", "422", "503"} => r \notin settled
      BY <1>2 DEF Refused, Refuse, Aborted, Abort, NotifyFails, Answer, Respond, SettledInv,
         BeforeCommit
    <2>5. QED
      BY <2>1, <2>2, <2>3, <2>4 DEF Bank!Answer, Bank!Refusals, Bank!NoOp, NoOp, Filed
  <1>3. ASSUME NEW r \in Request,
               CommitMoney(r) \/ CommitUpdate(r) \/ CommitDelete(r) \/ CommitCreate(r)
        PROVE  /\ pc[r] = "commit" /\ r \notin settled
               /\ Bank!Settling(r)
               /\ Filed' = [Filed EXCEPT ![r] = IF IsMoney(op[r]) THEN recorded[r] ELSE 0]
    <2>1. /\ pc[r] = "commit" /\ settled' = settled \union {r}
          /\ UNCHANGED <<op, response, recorded>>
      BY <1>3 DEF CommitMoney, CommitUpdate, CommitDelete, CommitCreate
    <2>2. op[r] # NoOp /\ response[r] = "none" /\ r \notin settled
      BY <2>1, <1>b DEF SettledInv, BeforeCommit, InTransaction
    <2>3. Filed' = [Filed EXCEPT ![r] = IF IsMoney(op[r]) THEN recorded[r] ELSE 0]
      BY <2>1 DEF Filed
    <2>4. QED
      BY <2>1, <2>2, <2>3 DEF Bank!Settling, Bank!NoOp, NoOp
  <1>4. ASSUME NEW r \in Request, CommitMoney(r)
        PROVE  Bank!Post(r)
    <2>1. IsMoney(op[r]) /\ status' = status
      BY <1>4 DEF CommitMoney
    <2>2. balance' = [a \in Account |-> balance[a] + Posting(op[r], a)]
      <3>1. \A a \in Account : balance'[a] = balance[a] + Posting(op[r], a)
        BY <1>4, MoneyCommitted
      <3>2. balance' \in [Account -> Int]
        BY DEF TypeOK
      <3>3. QED
        BY <3>1, <3>2
    <2>3. \A a \in Account : balance'[a] \in 0..MaxBalance
      BY DEF BalancesInColumn
    <2>4. /\ Bank!Src(op[r]) = Src(op[r]) /\ Bank!Dst(op[r]) = Dst(op[r])
          /\ Bank!Debits(op[r]) = Debits(op[r]) /\ Bank!IsMoney(op[r]) = IsMoney(op[r])
          /\ \A a \in Account : Bank!Posting(op[r], a) = Posting(op[r], a)
      BY DEF Bank!Src, Bank!Dst, Bank!Debits, Bank!Credits, Bank!IsMoney, Bank!MoneyKinds,
         Bank!Posting, Src, Dst, Debits, Credits, IsMoney, MoneyKinds, Posting
    <2>5. balance' = [a \in Account |-> balance[a] + Bank!Posting(op[r], a)]
      BY <2>2, <2>4
    <2>6. /\ status[Src(op[r])] = "open" /\ status[Dst(op[r])] = "open"
          /\ Owner[Src(op[r])] = op[r].user
          /\ Debits(op[r]) => balance[Src(op[r])] >= op[r].amount
          /\ recorded[r] = IF Debits(op[r]) THEN balance[Src(op[r])] - op[r].amount
                           ELSE balance[Src(op[r])] + op[r].amount
      BY <1>4, MoneyCommitted
    <2>7. Filed' = [Filed EXCEPT ![r] = IF Debits(op[r])
                      THEN balance[Src(op[r])] - op[r].amount
                      ELSE balance[Src(op[r])] + op[r].amount]
      BY <1>3, <1>4, <2>1, <2>6
    <2>8. QED
      BY <1>3, <1>4, <2>1, <2>3, <2>4, <2>5, <2>6, <2>7 DEF Bank!Post, Filed
  <1>5. ASSUME NEW r \in Request, CommitUpdate(r) \/ CommitDelete(r)
        PROVE  /\ \A a \in Names(op[r]) : status[a] = "open" /\ Owner[a] = op[r].user
               /\ op[r].kind \in UpdateKinds \union DeleteKinds
    <2>1. pc[r] = "commit" /\ op[r].kind \in UpdateKinds \union DeleteKinds
      BY <1>5 DEF CommitUpdate, CommitDelete
    <2>2. \A a \in Names(op[r]) : a \in Account /\ lock[a] = r
      BY <2>1, NamedRows, RequestFacts
    <2>3. \A a \in Names(op[r]) : Owner[a] = op[r].user
      BY <2>1 DEF OwnershipInv, Checked, InTransaction, UpdateKinds, DeleteKinds
    <2>4. QED
      BY <2>1, <2>2, <2>3 DEF PlanInv
  <1>6. ASSUME NEW r \in Request, CommitUpdate(r) \/ CommitDelete(r) \/ CommitCreate(r)
        PROVE  Filed' = Filed
    <2>1. ~IsMoney(op[r])
      BY <1>6 DEF CommitUpdate, CommitDelete, CommitCreate, UpdateKinds, DeleteKinds,
         IsMoney, MoneyKinds
    <2>2. QED
      BY <1>3, <1>6, <2>1 DEF Filed
  <1>7. ASSUME NEW r \in Request, CommitUpdate(r)
        PROVE  Bank!Rename(r)
    BY <1>3, <1>5, <1>6, <1>7 DEF CommitUpdate, Bank!Rename, Bank!UpdateKinds, UpdateKinds,
       Bank!Names, Names, Filed
  <1>8. ASSUME NEW r \in Request, CommitDelete(r)
        PROVE  Bank!Close(r)
    <2>1. status' = [a \in Account |-> IF a \in Names(op[r]) THEN "deleted" ELSE status[a]]
      BY <1>8, NamedRows DEF CommitDelete
    <2>2. op[r].kind \in DeleteKinds /\ balance' = balance
      BY <1>8 DEF CommitDelete
    <2>3. QED
      BY <1>3, <1>5, <1>6, <1>8, <2>1, <2>2 DEF Bank!Close, Bank!DeleteKinds, DeleteKinds,
         Bank!Names, Names, Filed
  <1>9. ASSUME NEW r \in Request, CommitCreate(r)
        PROVE  Bank!Open(r)
    BY <1>3, <1>6, <1>9 DEF CommitCreate, FreshInv, Bank!Open, Bank!Names, Names, Filed
  <1>10. ASSUME NEW r \in Request, PassCheck(r) \/ PassDestination(r) \/ PassFunds(r)
                 \/ LockRow(r) \/ SkipRow(r) \/ Debit(r) \/ CreditRow(r) \/ Notify(r)
         PROVE  UNCHANGED BankVars
    <2>1. UNCHANGED <<op, status, balance, settled, response>>
      BY <1>10 DEF PassCheck, PassDestination, PassFunds, Proceed, LockRow, SkipRow, Debit,
         CreditRow, Write, Notify, rows, journal
    <2>2. QED
      BY <2>1, FiledUnchanged DEF BankVars
  <1>11. ASSUME Crash
         PROVE  Bank!Vanish
    <2> DEFINE R == {r \in Request : pc[r] \in Working}
    <2>1. UNCHANGED <<op, status, balance, settled>>
          /\ response' = [r \in Request |-> IF r \in R THEN "lost" ELSE response[r]]
      BY <1>11 DEF Crash, journal
    <2>2. Filed' = Filed
      BY <2>1, FiledUnchanged
    <2>3. R \in SUBSET {r \in Request : op[r] # NoOp /\ response[r] = "none"}
      BY <1>b DEF Working, InTransaction
    <2>4. QED
      BY <2>1, <2>2, <2>3 DEF Bank!Vanish, Bank!NoOp, NoOp, Filed
  <1>12. ASSUME UNCHANGED vars
         PROVE  UNCHANGED BankVars
    BY <1>12 DEF vars, BankVars, Filed
  <1>13. ASSUME NEW r \in Request, RequestStep(r)
         PROVE  Bank!Next \/ UNCHANGED BankVars
    BY <1>1, <1>2, <1>4, <1>7, <1>8, <1>9, <1>10, <1>13 DEF RequestStep, Bank!Next
  <1>14. Bank!Next \/ UNCHANGED BankVars
    <2>1. Bank!Vanish => Bank!Next
      BY DEF Bank!Next
    <2>2. QED
      BY <1>11, <1>12, <1>13, <2>1, StepKinds
  <1>15. QED
    BY <1>a, <1>14

(* What clients see of their money is what the abstract ledger shows: each *)
(* request takes effect at most once, at one instant, or not at all, and   *)
(* the answer agrees.                                                      *)
THEOREM LedgerImplementsBank == Spec => BankSpec
  <1>1. Init => Bank!Init
    BY DEF Init, Bank!Init, Bank!NoOp, NoOp, IsMoney, MoneyKinds
  <1>2. QED
    BY <1>1, StepImplements, LedgerInvariantHolds, PTL DEF Spec, BankSpec, Bank!Spec

-----------------------------------------------------------------------------
(* The order of the locks. *)

(* A transaction that takes its rows in the order of their ids.            *)
Ascending(o) ==
  \A i, j \in 1..Len(Plan(o)) : i < j => Plan(o)[i] <= Plan(o)[j]

(* Every operation on single accounts is one: transfer sorts its rows.     *)
LEMMA SinglesAscend ==
  ASSUME NEW o \in Workload, o.kind \notin {"bulkUpdate", "bulkDelete"}
  PROVE  Ascending(o)
  <1> USE OperationFacts
  <1>1. CASE o.kind = "create"
    BY <1>1 DEF Plan, Ascending
  <1>2. CASE o.kind = "transfer"
    <2>1. Src(o) \in Nat /\ Dst(o) \in Nat
      BY BankAssumption
    <2>2. \/ Plan(o) = <<Src(o)>>
          \/ Src(o) < Dst(o) /\ Plan(o) = <<Src(o), Dst(o)>>
          \/ Dst(o) < Src(o) /\ Plan(o) = <<Dst(o), Src(o)>>
      BY <1>2, <2>1 DEF Plan
    <2>3. QED
      BY <2>1, <2>2 DEF Ascending
  <1>3. CASE o.kind \in SingleKinds /\ o.kind # "transfer"
    <2>1. Len(o.ids) = 1
      BY <1>3, BankAssumption DEF IsOperation
    <2>2. QED
      BY <1>3, <2>1 DEF Plan, Ascending, SingleKinds
  <1>4. QED
    BY <1>1, <1>2, <1>3 DEF Kinds, MoneyKinds, UpdateKinds, DeleteKinds, SingleKinds

(* So is a bulk request that names its accounts in order.                  *)
LEMMA BulkMayAscend ==
  ASSUME NEW o \in Workload, o.kind \in {"bulkUpdate", "bulkDelete"}, ~OutOfOrder(o)
  PROVE  Ascending(o)
  <1> DEFINE ids == o.ids
  <1>1. ids \in Seq(Account)
    BY BankAssumption DEF IsOperation
  <1>2. Plan(o) = ids
    BY DEF Plan
  <1>3. ~(\E i, j \in 1..Len(ids) : i < j /\ ids[i] > ids[j])
    BY DEF OutOfOrder
  <1> HIDE DEF ids
  <1>4. \A i \in 1..Len(ids) : ids[i] \in Nat
    <2>1. Account \subseteq Nat
      BY BankAssumption
    <2>2. \A i \in 1..Len(ids) : ids[i] \in Account
      BY <1>1
    <2> QED BY <2>1, <2>2
  <1>5. \A i, j \in 1..Len(ids) : i < j => ids[i] <= ids[j]
    BY <1>3, <1>4
  <1> QED BY <1>2, <1>5 DEF Ascending

(* A transaction that waits, and is waited for, waits for a row after the  *)
(* one that is waited for.                                                 *)
LEMMA WaitsUpwards ==
  ASSUME LedgerInv, NEW s \in Request, NEW t \in Request, Ascending(op[s]),
         Blocked(s), Blocked(t), lock[NextRow(t)] = s
  PROVE  /\ NextRow(s) \in Nat /\ NextRow(t) \in Nat
         /\ NextRow(t) < NextRow(s)
  <1> USE DEF LedgerInv
  <1>1. pc[s] = "lock" /\ pc[t] = "lock"
    BY DEF Blocked
  <1>2. op[s] \in Workload /\ op[t] \in Workload
    BY <1>1, RequestFacts
  <1>3. /\ locked[s] \in Nat /\ locked[s] < Len(Plan(op[s]))
        /\ locked[t] \in Nat /\ locked[t] < Len(Plan(op[t]))
    BY <1>1 DEF PlanInv, InTransaction, TypeOK
  <1>4. NextRow(s) \in Account /\ NextRow(t) \in Account
    BY <1>2, <1>3, PlanFacts DEF NextRow
  <1>5. PICK i \in 1..locked[s] : NextRow(t) = Plan(op[s])[i]
    BY <1>4 DEF PlanInv
  <1>6. NextRow(t) <= NextRow(s)
    <2>1. i \in 1..Len(Plan(op[s])) /\ locked[s] + 1 \in 1..Len(Plan(op[s])) /\ i < locked[s] + 1
      BY <1>2, <1>3, <1>5, PlanFacts
    <2>2. QED
      BY <1>2, <1>5, <2>1 DEF Ascending, NextRow
  <1>7. NextRow(t) # NextRow(s)
    BY DEF Blocked
  <1>8. NextRow(s) \in Nat /\ NextRow(t) \in Nat
    BY <1>4, BankAssumption
  <1>9. QED
    BY <1>6, <1>7, <1>8

LessThan == {ss \in Nat \X Nat : ss[1] < ss[2]}
LEMMA LessThanFacts ==
  /\ IsWellFoundedOn(LessThan, Nat)
  /\ \A x, y \in Nat : y < x => <<y, x>> \in LessThan
  <1>1. IsWellFoundedOn(LessThan, Nat)
    BY NatLessThanWellFounded, Zenon DEF LessThan, OpToRel
  <1>2. \A x, y \in Nat : y < x => <<y, x>> \in LessThan
    BY DEF LessThan
  <1>3. QED
    BY <1>1, <1>2

(* Transactions that all take their rows in the order of their ids do not  *)
(* wait for one another: of the rows they wait for, one would be the       *)
(* least.                                                                  *)
LEMMA AscentsNeverCycle ==
  ASSUME LedgerInv, NEW S \in SUBSET Request, NEW r \in S, \A s \in S : Ascending(op[s])
  PROVE  ~WaitCycle(S)
  <1> SUFFICES ASSUME WaitCycle(S)
               PROVE  FALSE
    OBVIOUS
  <1> DEFINE T == {NextRow(s) : s \in S}
  <1>1. \A s \in S : \E t \in S :
          NextRow(s) \in Nat /\ NextRow(t) \in Nat /\ NextRow(t) < NextRow(s)
    BY WaitsUpwards DEF WaitCycle
  <1>2. T \subseteq Nat /\ T # {}
    BY <1>1
  <1>3. \E x \in T : \A y \in T : ~(<<y, x>> \in LessThan)
    <2> HIDE DEF T
    <2>1. QED
      BY <1>2, LessThanFacts, WFMin
  <1>4. PICK s \in S : \A y \in T : ~(<<y, NextRow(s)>> \in LessThan)
    BY <1>3
  <1>5. QED
    BY <1>1, <1>4, LessThanFacts

(* The consistent lock ordering prevents the deadlocks it can prevent: for *)
(* any accounts and any number of requests, a cycle of waiting             *)
(* transactions has a bulk request in it that names its accounts out of    *)
(* order; money operations and operations on one account never deadlock    *)
(* among themselves.                                                       *)
THEOREM CyclesNeedBulk == Spec => []DeadlocksNeedBulk
  <1>1. LedgerInv => DeadlocksNeedBulk
    <2> SUFFICES ASSUME LedgerInv, NEW S \in SUBSET Request, NEW r \in S, WaitCycle(S),
                        \A s \in S : ~OutOfOrder(op[s])
                 PROVE  FALSE
      BY DEF DeadlocksNeedBulk
    <2>1. ASSUME NEW s \in S PROVE Ascending(op[s])
      <3>1. pc[s] = "lock" /\ ~OutOfOrder(op[s])
        BY DEF WaitCycle, Blocked
      <3>2. op[s] \in Workload
        BY <3>1, RequestFacts DEF LedgerInv
      <3>3. CASE op[s].kind \in {"bulkUpdate", "bulkDelete"}
        BY <3>1, <3>2, <3>3, BulkMayAscend
      <3>4. CASE op[s].kind \notin {"bulkUpdate", "bulkDelete"}
        BY <3>2, <3>4, SinglesAscend
      <3> QED BY <3>3, <3>4
    <2> QED BY <2>1, AscentsNeverCycle
  <1> QED BY <1>1, LedgerInvariantHolds, PTL
=============================================================================
