--------------------------- MODULE LedgerInvariant ---------------------------
(***************************************************************************)
(* The inductive invariant behind the theorems of LedgerProofs: what is    *)
(* true of a request, of the rows it holds and of their pending versions   *)
(* at each point of its handler.                                           *)
(***************************************************************************)
EXTENDS Ledger

BeforeCommit == {"check", "checkDest"} \union InTransaction

(* A handler only reaches the labels its operation passes through, and the *)
(* client is answered at the end, never before.                            *)
RouteInv ==
  \A r \in Request :
    /\ (pc[r] = "idle") <=> (op[r] = NoOp)
    /\ (pc[r] = "done") <=> (response[r] # "none")
    /\ pc[r] \in {"funds", "debit"} => Debits(op[r])
    /\ pc[r] = "credit" => Credits(op[r])
    /\ pc[r] = "checkDest" => op[r].kind = "transfer"
    /\ pc[r] \in {"check", "lock"} => op[r].kind # "create"
    /\ pc[r] = "notify" => IsMoney(op[r])

(* An operation has settled once its transaction has committed and not     *)
(* before; the refusals are answers of requests that have not settled.     *)
SettledInv ==
  /\ \A r \in Request :
       /\ pc[r] \in {"notify", "answer"} => r \in settled
       /\ pc[r] \in {"idle"} \union BeforeCommit => r \notin settled
       /\ response[r] = "ok" => r \in settled
       /\ response[r] \in {"403", "404", "409", "422", "503"} => r \notin settled

(* Past its checks a request names accounts that exist or existed, and the *)
(* one it spends from or changes is its own.                               *)
Checked(r, a) == status[a] # "unused" /\ Owner[a] = op[r].user
OwnershipInv ==
  \A r \in Request :
    /\ pc[r] = "checkDest" => Checked(r, Src(op[r]))
    /\ pc[r] \in InTransaction /\ op[r].kind = "transfer" =>
         Checked(r, Src(op[r])) /\ status[Dst(op[r])] # "unused"
    /\ pc[r] \in InTransaction /\ op[r].kind \notin {"transfer", "create"} =>
         \A a \in Names(op[r]) : Checked(r, a)
    /\ r \in settled /\ IsMoney(op[r]) => status[Src(op[r])] # "unused"

(* The ids of accounts being created are free and nobody else's.           *)
FreshInv ==
  /\ \A a \in Account : status[a] = "unused" => balance[a] = 0
  /\ \A r \in Request : pc[r] = "commit" /\ op[r].kind = "create" =>
       \A a \in Names(op[r]) : status[a] = "unused"
  /\ \A r, s \in Request :
       op[r].kind = "create" /\ op[s].kind = "create" /\ r # s
         => Names(op[r]) \intersect Names(op[s]) = {}

(* The rows of the plan up to locked[r] are locked by r or, if it moves    *)
(* money, gone; r locks no other row, and nobody outside a transaction     *)
(* locks anything.                                                         *)
PlanInv ==
  /\ \A r \in Request : pc[r] \in InTransaction =>
       /\ pc[r] = "lock" => locked[r] < Len(Plan(op[r]))
       /\ pc[r] # "lock" => locked[r] = Len(Plan(op[r]))
       /\ \A i \in 1..locked[r] :
            \/ lock[Plan(op[r])[i]] = r
            \/ IsMoney(op[r]) /\ status[Plan(op[r])[i]] = "deleted"
  /\ \A r \in Request : pc[r] \in {"idle", "check", "checkDest"} => locked[r] = 0
  /\ \A r \in Request, a \in Account : lock[a] = r =>
       /\ pc[r] \in InTransaction /\ status[a] = "open"
       /\ \E i \in 1..locked[r] : a = Plan(op[r])[i]

(* How far the pending version of a row is from the committed one: by what *)
(* its holder has already debited and credited.                            *)
Debited(r) == Debits(op[r]) /\ pc[r] \in {"credit", "commit"}
Credited(r) == Credits(op[r]) /\ pc[r] = "commit"
Drafted(r, a) ==
  (IF Credited(r) /\ a = Dst(op[r]) THEN op[r].amount ELSE 0)
    - (IF Debited(r) /\ a = Src(op[r]) THEN op[r].amount ELSE 0)
RowDrafted(r, a) == lock[a] = r => pending[a] = balance[a] + Drafted(r, a)
PendingInv ==
  \A a \in Account :
    /\ lock[a] = Nobody => pending[a] = balance[a]
    /\ \A r \in Request : RowDrafted(r, a)
    /\ pending[a] \in 0..MaxBalance

(* The row a request debits or has debited is locked by it and covers the  *)
(* amount; the row it has credited is locked by it; what it will file is   *)
(* the balance it leaves in its account.                                   *)
FundsHeld(r) ==
  /\ Debits(op[r]) /\ pc[r] \in {"debit", "credit", "commit"} =>
       lock[Src(op[r])] = r /\ balance[Src(op[r])] >= op[r].amount
  /\ Debited(r) => recorded[r] = balance[Src(op[r])] - op[r].amount
  /\ Credited(r) => lock[Dst(op[r])] = r
  /\ Credited(r) /\ ~Debits(op[r]) =>
       recorded[r] = balance[Src(op[r])] + op[r].amount
FundsInv == \A r \in Request : FundsHeld(r)

LedgerInv ==
  /\ TypeOK /\ RouteInv /\ SettledInv /\ OwnershipInv /\ FreshInv
  /\ PlanInv /\ PendingInv /\ FundsInv /\ BalancesInColumn /\ JournalKept
=============================================================================
