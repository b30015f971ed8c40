------------------------------- MODULE Ledger -------------------------------
(***************************************************************************)
(* The money core of the API: transactions.service.ts, accounts.service.ts *)
(* and bulk.service.ts run by one Node.js process against PostgreSQL.      *)
(*                                                                         *)
(* A step is what the code does between two awaits: the requests           *)
(* interleave at every query.  PostgreSQL (READ COMMITTED) is modelled by  *)
(* what the code uses of it: a row lock per account, the uncommitted       *)
(* version of a locked row that only its holder sees, COMMIT and ROLLBACK, *)
(* the lock timeout, the deadlock detector and the transaction timeout.    *)
(***************************************************************************)
EXTENDS BankOperations, FiniteSets, Functions

CONSTANTS
  Request,    \* the requests clients send, each at most once
  Nobody,     \* the holder of a row no transaction has locked
  Opened,     \* the accounts that exist at the start
  Opening,    \* their opening balances
  MaxCrashes  \* bound: how many times the server process may die

ASSUME LedgerAssumption ==
  /\ Nobody \notin Request
  /\ Opened \subseteq Account
  /\ Opening \in [Account -> 0..MaxBalance]
  /\ MaxCrashes \in Nat

VARIABLES
  op,         \* op[r]: the operation request r asks for
  pc,         \* pc[r]: where the handler of r is
  locked,     \* locked[r]: how many rows of its plan r has been through
  lock,       \* lock[a]: the request whose transaction locks account row a
  status,     \* status[a]: "unused", "open" or "deleted", as committed
  balance,    \* balance[a]: the committed balance
  pending,    \* pending[a]: the balance as the holder of the row sees it
  recorded,   \* recorded[r]: resultingBalance of r's transaction row
  settled,    \* history: the requests whose database work committed
  posted,     \* the requests whose row is in the transactions table
  notified,   \* the requests that have a notification
  announced,  \* the requests whose webhook event was dispatched
  response,   \* response[r]: the answer sent to the client
  crashes     \* how many times the process has died

request == <<op, pc, locked, response>>
rows == <<lock, status, balance, pending>>
journal == <<recorded, settled, posted>>
effects == <<notified, announced>>
vars == <<op, pc, locked, lock, status, balance, pending, recorded, settled,
          posted, notified, announced, response, crashes>>

InTransaction == {"lock", "funds", "debit", "credit", "commit"}
Working == {"check", "checkDest", "notify", "answer"} \union InTransaction
PCs == {"idle", "done"} \union Working
Responses == {"none", "ok", "403", "404", "409", "422", "500", "503", "lost"}

Init ==
  /\ op = [r \in Request |-> NoOp]
  /\ pc = [r \in Request |-> "idle"]
  /\ locked = [r \in Request |-> 0]
  /\ lock = [a \in Account |-> Nobody]
  /\ status = [a \in Account |-> IF a \in Opened THEN "open" ELSE "unused"]
  /\ balance = [a \in Account |-> IF a \in Opened THEN Opening[a] ELSE 0]
  /\ pending = balance
  /\ recorded = [r \in Request |-> 0]
  /\ settled = {} /\ posted = {} /\ notified = {} /\ announced = {}
  /\ response = [r \in Request |-> "none"]
  /\ crashes = 0

-----------------------------------------------------------------------------
(* The definitions marked "Slip" are wrong on purpose: each is its         *)
(* neighbour with a plausible slip of the code, and shows what the         *)
(* properties catch.  No specification uses them.                          *)

(* Slip: the rows are taken in the order of the request. *)
PlanUnsorted(o) == IF o.kind = "create" THEN <<>> ELSE o.ids

(* Which rows a transaction locks, in which order: a transfer sorts its    *)
(* two accounts ("ORDER BY id FOR UPDATE"), a bulk request takes them as   *)
(* its items come, an INSERT of new accounts locks none.                   *)
Plan(o) ==
  IF o.kind = "create" THEN <<>>
  ELSE IF o.kind # "transfer" THEN o.ids
  ELSE IF Src(o) = Dst(o) THEN <<Src(o)>>
  ELSE IF Src(o) < Dst(o) THEN <<Src(o), Dst(o)>> ELSE <<Dst(o), Src(o)>>

(* Where the handler goes once the rows are locked. *)
AfterLocks(o) ==
  IF Debits(o) THEN "funds" ELSE IF Credits(o) THEN "credit" ELSE "commit"

NextRow(r) == Plan(op[r])[locked[r] + 1]

(* The row exists and belongs to another transaction: the query waits.     *)
Blocked(r) ==
  /\ pc[r] = "lock" /\ status[NextRow(r)] = "open"
  /\ lock[NextRow(r)] \notin {Nobody, r}

(* A cycle of the waits-for graph (each waiter waits for one holder): a    *)
(* set of waiters that wait for one another, everyone waited for.          *)
WaitCycle(S) ==
  \A s \in S : /\ Blocked(s) /\ lock[NextRow(s)] \in S
               /\ \E t \in S : Blocked(t) /\ lock[NextRow(t)] = s
Deadlocked(r) == \E S \in SUBSET Request : r \in S /\ WaitCycle(S)

Goto(r, label) == pc' = [pc EXCEPT ![r] = label]
Respond(r, code) ==
  /\ response' = [response EXCEPT ![r] = code]
  /\ Goto(r, "done")

(* Committing or rolling back releases every row r holds; the other        *)
(* transactions' rows are left alone.                                      *)
Released(r) == [a \in Account |-> IF lock[a] = r THEN Nobody ELSE lock[a]]

(* Slip: the connection goes back to the pool without a ROLLBACK. *)
AbortWithoutRollback(r, code) ==
  /\ Respond(r, code)
  /\ UNCHANGED <<op, locked, rows, journal, effects, crashes>>

(* ROLLBACK: the pending versions are discarded, the error is answered.    *)
Abort(r, code) ==
  /\ lock' = Released(r)
  /\ pending' = [a \in Account |-> IF lock[a] = r THEN balance[a] ELSE pending[a]]
  /\ Respond(r, code)
  /\ UNCHANGED <<op, locked, status, balance, journal, effects, crashes>>

(* A handler that answers before it has opened a transaction. *)
Refuse(r, code) ==
  /\ Respond(r, code)
  /\ UNCHANGED <<op, locked, rows, journal, effects, crashes>>

Proceed(r, label) ==
  /\ Goto(r, label)
  /\ UNCHANGED <<op, locked, rows, journal, effects, response, crashes>>

-----------------------------------------------------------------------------
(* A request arrives.  A new account gets a random UUID: an id that no     *)
(* account has and no other request was given.                             *)
Fresh(o) ==
  \A a \in Names(o) : /\ status[a] = "unused"
                      /\ \A r \in Request : op[r].kind = "create" => a \notin Names(op[r])

Receive(r) ==
  /\ pc[r] = "idle"
  /\ \E o \in Workload :
       /\ o.kind = "create" => Fresh(o)
       /\ op' = [op EXCEPT ![r] = o]
       /\ Goto(r, IF o.kind = "create" THEN "commit" ELSE "check")
  /\ UNCHANGED <<locked, rows, journal, effects, response, crashes>>

(* The reads before the transaction: plain SELECTs, which take no lock and *)
(* see the committed rows of that moment only.                             *)
Mine(r, a) == status[a] = "open" /\ Owner[a] = op[r].user

CheckSingle(r) ==
  LET a == Src(op[r]) IN
  /\ pc[r] = "check" /\ op[r].kind \in SingleKinds
  /\ \/ status[a] # "open" /\ Refuse(r, "404")
     \/ status[a] = "open" /\ Owner[a] # op[r].user /\ Refuse(r, "403")
     \/ /\ Mine(r, a) /\ op[r].kind = "delete" /\ balance[a] # 0
        /\ Refuse(r, "409")
     \/ /\ Mine(r, a) /\ (op[r].kind = "delete" => balance[a] = 0)
        /\ Proceed(r, IF op[r].kind = "transfer" THEN "checkDest" ELSE "lock")

CheckDestination(r) ==
  /\ pc[r] = "checkDest"
  /\ \/ status[Dst(op[r])] # "open" /\ Refuse(r, "404")
     \/ status[Dst(op[r])] = "open" /\ Proceed(r, "lock")

CheckBulk(r) ==
  /\ pc[r] = "check" /\ op[r].kind \in {"bulkUpdate", "bulkDelete"}
  /\ \/ (\E a \in Names(op[r]) : ~Mine(r, a)) /\ Refuse(r, "404")
     \/ (\A a \in Names(op[r]) : Mine(r, a)) /\ Proceed(r, "lock")

-----------------------------------------------------------------------------
(* Inside the transaction. *)
Advance(r) ==
  /\ locked' = [locked EXCEPT ![r] = @ + 1]
  /\ Goto(r, IF locked[r] + 1 = Len(Plan(op[r])) THEN AfterLocks(op[r]) ELSE "lock")

(* An UPDATE or DELETE of a batch that finds no row: the row was deleted   *)
(* since the check, or by an earlier item of the same bulk deletion.       *)
RowGone(r) ==
  \/ status[NextRow(r)] # "open"
  \/ op[r].kind = "bulkDelete" /\ lock[NextRow(r)] = r

(* Slip: SELECT without FOR UPDATE, which waits for nobody. *)
LockRowWithoutWaiting(r) ==
  /\ pc[r] = "lock" /\ ~RowGone(r)
  /\ lock' = [lock EXCEPT ![NextRow(r)] = r]
  /\ Advance(r)
  /\ UNCHANGED <<op, status, balance, pending, journal, effects, response, crashes>>

LockRow(r) ==
  LET a == NextRow(r) IN
  /\ pc[r] = "lock" /\ ~RowGone(r)
  /\ lock[a] \in {Nobody, r}
  /\ lock' = [lock EXCEPT ![a] = r]
  /\ Advance(r)
  /\ UNCHANGED <<op, status, balance, pending, journal, effects, response, crashes>>

(* SELECT ... FOR UPDATE returns nothing for a row that is gone and goes   *)
(* on; an UPDATE or DELETE by id fails with P2025.                         *)
MissRow(r) ==
  /\ pc[r] = "lock" /\ RowGone(r)
  /\ \/ ~IsMoney(op[r]) /\ Abort(r, "404")
     \/ /\ IsMoney(op[r]) /\ Advance(r)
        /\ UNCHANGED <<op, rows, journal, effects, response, crashes>>

(* Slip: the funds are not looked at again under the lock. *)
CheckFundsNotAgain(r) ==
  /\ pc[r] = "funds"
  /\ IF status[Src(op[r])] = "open" THEN Proceed(r, "debit") ELSE Abort(r, "500")

(* The balance is read under the lock.  If the source row is gone,         *)
(* locked[0] is undefined and the handler throws a TypeError.              *)
CheckFunds(r) ==
  LET a == Src(op[r]) IN
  /\ pc[r] = "funds"
  /\ \/ status[a] # "open" /\ Abort(r, "500")
     \/ status[a] = "open" /\ op[r].amount > pending[a] /\ Abort(r, "422")
     \/ status[a] = "open" /\ op[r].amount <= pending[a] /\ Proceed(r, "debit")

(* An atomic increment of one row, which returns the row it leaves. *)
Write(r, a, b) ==
  /\ pending' = [pending EXCEPT ![a] = b]
  /\ UNCHANGED <<op, locked, lock, status, balance, settled, posted, effects,
                 response, crashes>>

(* Slip: the balance recorded is the one before the debit. *)
DebitRecordingTooEarly(r) ==
  LET a == Src(op[r]) IN
  /\ pc[r] = "debit"
  /\ Write(r, a, pending[a] - op[r].amount)
  /\ recorded' = [recorded EXCEPT ![r] = pending[a]]
  /\ Goto(r, IF Credits(op[r]) THEN "credit" ELSE "commit")

Debit(r) ==
  LET a == Src(op[r])
      b == pending[a] - op[r].amount IN
  /\ pc[r] = "debit"
  /\ Write(r, a, b)
  /\ recorded' = [recorded EXCEPT ![r] = b]
  /\ Goto(r, IF Credits(op[r]) THEN "credit" ELSE "commit")

Credit(r) ==
  LET a == Dst(op[r])
      b == pending[a] + op[r].amount IN
  /\ pc[r] = "credit"
  /\ \/ status[a] # "open" /\ Abort(r, "404")
     \/ status[a] = "open" /\ b > MaxBalance /\ Abort(r, "500")
     \/ /\ status[a] = "open" /\ b <= MaxBalance
        /\ Write(r, a, b)
        /\ recorded' = IF Debits(op[r]) THEN recorded
                                        ELSE [recorded EXCEPT ![r] = b]
        /\ Goto(r, "commit")

(* The transactions row is inserted and the transaction commits. *)
CommitMoney(r) ==
  /\ pc[r] = "commit" /\ IsMoney(op[r])
  /\ balance' = [a \in Account |-> IF lock[a] = r THEN pending[a] ELSE balance[a]]
  /\ lock' = Released(r)
  /\ settled' = settled \union {r}
  /\ posted' = posted \union {r}
  /\ Goto(r, "notify")
  /\ UNCHANGED <<op, locked, status, pending, recorded, effects, response, crashes>>

CommitUpdate(r) ==
  /\ pc[r] = "commit" /\ op[r].kind \in UpdateKinds
  /\ lock' = Released(r)
  /\ settled' = settled \union {r}
  /\ Goto(r, "answer")
  /\ UNCHANGED <<op, locked, status, balance, pending, recorded, posted, effects,
                 response, crashes>>

(* Slip: the relation does not cascade. *)
CommitDeleteAlone(r) ==
  /\ pc[r] = "commit" /\ op[r].kind \in DeleteKinds
  /\ status' = [a \in Account |-> IF lock[a] = r THEN "deleted" ELSE status[a]]
  /\ lock' = Released(r)
  /\ settled' = settled \union {r}
  /\ Goto(r, "answer")
  /\ UNCHANGED <<op, locked, balance, pending, recorded, posted, effects, response, crashes>>

(* Deleting an account deletes its transactions (onDelete: Cascade). *)
CommitDelete(r) ==
  /\ pc[r] = "commit" /\ op[r].kind \in DeleteKinds
  /\ status' = [a \in Account |-> IF lock[a] = r THEN "deleted" ELSE status[a]]
  /\ lock' = Released(r)
  /\ settled' = settled \union {r}
  /\ posted' = {t \in posted : lock[Src(op[t])] # r}
  /\ Goto(r, "answer")
  /\ UNCHANGED <<op, locked, balance, pending, recorded, effects, response, crashes>>

CommitCreate(r) ==
  LET new == Names(op[r]) IN
  /\ pc[r] = "commit" /\ op[r].kind = "create"
  /\ status' = [a \in Account |-> IF a \in new THEN "open" ELSE status[a]]
  /\ balance' = [a \in Account |-> IF a \in new THEN 0 ELSE balance[a]]
  /\ pending' = [a \in Account |-> IF a \in new THEN 0 ELSE pending[a]]
  /\ settled' = settled \union {r}
  /\ Goto(r, "answer")
  /\ UNCHANGED <<op, locked, lock, recorded, posted, effects, response, crashes>>

-----------------------------------------------------------------------------
(* After the commit: one more INSERT, awaited, whose failure is answered   *)
(* like any other error although the money has moved.                      *)
Notify(r) ==
  /\ pc[r] = "notify"
  /\ notified' = notified \union {r}
  /\ Goto(r, "answer")
  /\ UNCHANGED <<op, locked, rows, journal, announced, response, crashes>>

NotifyFails(r) ==
  /\ pc[r] = "notify"
  /\ Refuse(r, "500")

(* The webhook event is dispatched without waiting, and the answer sent.   *)
Dispatches(o) == IsMoney(o) \/ (o.kind = "create" /\ Len(o.ids) = 1)

Answer(r) ==
  /\ pc[r] = "answer"
  /\ announced' = IF Dispatches(op[r]) THEN announced \union {r} ELSE announced
  /\ Respond(r, "ok")
  /\ UNCHANGED <<op, locked, rows, journal, notified, crashes>>

-----------------------------------------------------------------------------
(* What PostgreSQL, Prisma and the machine may do to a request. *)

(* SET LOCAL lock_timeout: only the money transactions set it.  The error  *)
(* is answered 503 when it carries the code 55P03 and 500 when Prisma has  *)
(* wrapped it in a code of its own.                                        *)
LockTimeout(r) ==
  /\ Blocked(r) /\ IsMoney(op[r])
  /\ \E code \in {"500", "503"} : Abort(r, code)

(* The deadlock detector aborts one transaction of a cycle (40P01). *)
DeadlockAbort(r) == Deadlocked(r) /\ Abort(r, "500")

(* Any query may fail, or the interactive transaction may outlive the ten  *)
(* seconds Prisma gives it.                                                *)
QueryFails(r) ==
  /\ pc[r] \in {"check", "checkDest"} \union InTransaction
  /\ Abort(r, "500")

(* Slip: what the dead transactions wrote stays. *)
CrashWithoutRollback ==
  /\ crashes < MaxCrashes
  /\ crashes' = crashes + 1
  /\ lock' = [a \in Account |-> Nobody]
  /\ pc' = [r \in Request |-> IF pc[r] \in Working THEN "done" ELSE pc[r]]
  /\ response' = [r \in Request |-> IF pc[r] \in Working THEN "lost" ELSE response[r]]
  /\ UNCHANGED <<op, locked, status, balance, pending, journal, effects>>

(* The process dies: connections close, so that PostgreSQL rolls back, and *)
(* nobody answers the requests that were being served.                     *)
Crash ==
  /\ crashes < MaxCrashes
  /\ crashes' = crashes + 1
  /\ lock' = [a \in Account |-> Nobody]
  /\ pending' = balance
  /\ pc' = [r \in Request |-> IF pc[r] \in Working THEN "done" ELSE pc[r]]
  /\ response' = [r \in Request |-> IF pc[r] \in Working THEN "lost" ELSE response[r]]
  /\ UNCHANGED <<op, locked, status, balance, journal, effects>>

-----------------------------------------------------------------------------
Check(r) == CheckSingle(r) \/ CheckDestination(r) \/ CheckBulk(r)
Rows(r) == LockRow(r) \/ MissRow(r) \/ CheckFunds(r) \/ Debit(r) \/ Credit(r)
Commit(r) == CommitMoney(r) \/ CommitUpdate(r) \/ CommitDelete(r) \/ CommitCreate(r)
Finish(r) == Notify(r) \/ Answer(r)
Fault(r) == LockTimeout(r) \/ NotifyFails(r) \/ QueryFails(r)

Progress(r) == Check(r) \/ Rows(r) \/ Commit(r) \/ Finish(r) \/ DeadlockAbort(r)

Next ==
  \/ \E r \in Request : Receive(r) \/ Progress(r) \/ Fault(r)
  \/ Crash

Spec == Init /\ [][Next]_vars

(* Node.js runs every callback that is due and PostgreSQL answers every    *)
(* query that is not waiting for a lock; nobody has to send a request, and *)
(* no fault has to happen.  In particular no lock timeout has to.          *)
FairSpec == Spec /\ \A r \in Request : WF_vars(Progress(r))

-----------------------------------------------------------------------------
(* The type of the state. *)
TypeOK ==
  /\ op \in [Request -> Workload \union {NoOp}]
  /\ pc \in [Request -> PCs]
  /\ locked \in [Request -> Nat]
  /\ lock \in [Account -> Request \union {Nobody}]
  /\ status \in [Account -> {"unused", "open", "deleted"}]
  /\ balance \in [Account -> Int]
  /\ pending \in [Account -> Int]
  /\ recorded \in [Request -> Int]
  /\ settled \subseteq Request /\ posted \subseteq Request
  /\ notified \subseteq Request /\ announced \subseteq Request
  /\ response \in [Request -> Responses]
  /\ crashes \in 0..MaxCrashes

(* However the requests interleave, no committed balance is negative and   *)
(* none outgrows its column: the funds are checked under the row lock that *)
(* the debit and the commit still hold (transactions.service.ts, withdraw  *)
(* and transfer).                                                          *)
BalancesInColumn == \A a \in Account : balance[a] \in 0..MaxBalance

(* The transactions table holds exactly the settled money operations whose *)
(* source account still exists: no record of an account outlives it, and   *)
(* none is lost while it lives (the cascade of the schema against the      *)
(* inserts of concurrent transactions).                                    *)
JournalKept ==
  posted = {r \in settled : IsMoney(op[r]) /\ status[Src(op[r])] = "open"}

(* Every account's balance is its opening balance and what the settled     *)
(* operations posted to it, nothing lost and nothing counted twice: no     *)
(* update is lost between concurrent deposits, withdrawals and transfers,  *)
(* and none survives a rollback.                                           *)
InitialBalance(a) == IF a \in Opened THEN Opening[a] ELSE 0
MoneySettled == {r \in settled : IsMoney(op[r])}
PostingsTo(a) == [r \in MoneySettled |-> Posting(op[r], a)]
AuditTrail ==
  \A a \in Account : balance[a] = InitialBalance(a) + SumFunction(PostingsTo(a))

(* A request that names an account behind one with a greater id. *)
OutOfOrder(o) ==
  /\ o.kind \in {"bulkUpdate", "bulkDelete"}
  /\ \E i, j \in 1..Len(o.ids) : i < j /\ o.ids[i] > o.ids[j]

(* Transactions wait for one another in a cycle only when one of them is a *)
(* bulk request that names its accounts out of order: transfers in         *)
(* opposite directions, and transfers beside renames and deletions of one  *)
(* account, never do, since transfer locks the account with the lower id   *)
(* first.  bulkUpdate and bulkDelete lock as their items come, so that a   *)
(* transfer can deadlock with one of these: the "deadlock prevention via   *)
(* consistent lock ordering" is one among transfers only.                  *)
DeadlocksNeedBulk ==
  \A S \in SUBSET Request :
    S # {} /\ WaitCycle(S) => \E s \in S : OutOfOrder(op[s])

(* A row that a transaction has locked changes, in what the others see,    *)
(* only in the step that commits that transaction.                         *)
Isolation ==
  [][\A a \in Account :
       lock[a] # Nobody /\ (balance'[a] # balance[a] \/ status'[a] # status[a])
         => lock[a] \in settled' \ settled]_vars

(* A deleted account is never credited, debited or brought back, whatever  *)
(* the operations that had passed their checks while it existed.           *)
ClosedIsFrozen ==
  [][\A a \in Account : status[a] = "deleted" =>
       status'[a] = "deleted" /\ balance'[a] = balance[a]]_vars

(* resultingBalance is the balance the operation leaves in its (source)    *)
(* account, as the others see it from the commit on; but for a transfer    *)
(* from an account to itself, which records the balance it left for the    *)
(* time between its two halves.                                            *)
RecordsBalance(r) == recorded[r] = balance'[Src(op[r])]
RecordTellsBalance ==
  [][\A r \in settled' \ settled :
       IsMoney(op[r]) /\ (op[r].kind = "transfer" => Src(op[r]) # Dst(op[r]))
         => RecordsBalance(r)]_vars

(* "For any account with a non-zero balance, attempting to delete it SHALL *)
(* return a 409 Conflict response and the account SHALL remain in the      *)
(* system": an account that is gone held nothing when it went.             *)
NoMoneyDeleted == \A a \in Account : status[a] = "deleted" => balance[a] = 0

(* Every request that arrives is answered, or its connection is cut.       *)
EveryRequestAnswered ==
  \A r \in Request : op[r] # NoOp ~> response[r] # "none"

(* What the requests do to the money is what the abstract ledger allows:   *)
(* the record is filed when the transaction commits.                       *)
Bank == INSTANCE AbstractLedger WITH
  recorded <- [r \in Request |->
                 IF r \in settled /\ IsMoney(op[r]) THEN recorded[r] ELSE 0]
BankSpec == Bank!Spec
=============================================================================
