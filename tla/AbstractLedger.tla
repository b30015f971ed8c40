--------------------------- MODULE AbstractLedger ---------------------------
(***************************************************************************)
(* What the ledger promises, with no locks, no database transactions and   *)
(* no crashes in sight.  A request settles at most once and in one atomic  *)
(* step that reads the accounts as they are at that instant; the answer    *)
(* comes after the settlement and tells the truth about it: a success was  *)
(* settled, a refusal never was nor ever will be.  Only "error" and "lost" *)
(* leave the client in doubt.                                              *)
(*                                                                         *)
(* The promise is the one the code can keep.  It lets Close take an        *)
(* account that holds money: see NoMoneyDeleted in Ledger.                 *)
(***************************************************************************)
EXTENDS BankOperations

CONSTANTS
  Request,   \* the requests clients send, each at most once
  Opened,    \* the accounts that exist at the start
  Opening    \* their opening balances

VARIABLES
  op,        \* op[r]: what request r asks, NoOp until it is sent
  status,    \* status[a]: "unused", "open" or "deleted"
  balance,   \* balance[a]: the money in account a
  settled,   \* the requests that have taken effect
  recorded,  \* recorded[r]: the resultingBalance filed with r's settlement
  response   \* response[r]: "none" until the client is answered

vars == <<op, status, balance, settled, recorded, response>>

Refusals == {"403", "404", "409", "422", "503"}

Init ==
  /\ op = [r \in Request |-> NoOp]
  /\ status = [a \in Account |-> IF a \in Opened THEN "open" ELSE "unused"]
  /\ balance = [a \in Account |-> IF a \in Opened THEN Opening[a] ELSE 0]
  /\ settled = {}
  /\ recorded = [r \in Request |-> 0]
  /\ response = [r \in Request |-> "none"]

Submit(r) ==
  /\ op[r] = NoOp
  /\ \E o \in Workload : op' = [op EXCEPT ![r] = o]
  /\ UNCHANGED <<status, balance, settled, recorded, response>>

Settling(r) ==
  /\ op[r] # NoOp /\ response[r] = "none" /\ r \notin settled
  /\ settled' = settled \union {r}
  /\ UNCHANGED <<op, response>>

(* A money operation moves its amount, all of it or nothing, between open  *)
(* accounts of which the source is the caller's, never below zero and      *)
(* never beyond the column, and files the balance it left in the source.   *)
(* (A transfer from an account to itself files the balance between its two *)
(* halves: see RecordTellsBalance in Ledger.)                              *)
Post(r) ==
  /\ Settling(r) /\ IsMoney(op[r])
  /\ status[Src(op[r])] = "open" /\ status[Dst(op[r])] = "open"
  /\ Owner[Src(op[r])] = op[r].user
  /\ Debits(op[r]) => balance[Src(op[r])] >= op[r].amount
  /\ balance' = [a \in Account |-> balance[a] + Posting(op[r], a)]
  /\ \A a \in Account : balance'[a] \in 0..MaxBalance
  /\ recorded' = [recorded EXCEPT ![r] = IF Debits(op[r])
                    THEN balance[Src(op[r])] - op[r].amount
                    ELSE balance[Src(op[r])] + op[r].amount]
  /\ UNCHANGED status

Open(r) ==
  /\ Settling(r) /\ op[r].kind = "create"
  /\ \A a \in Names(op[r]) : status[a] = "unused"
  /\ status' = [a \in Account |-> IF a \in Names(op[r]) THEN "open" ELSE status[a]]
  /\ balance' = [a \in Account |-> IF a \in Names(op[r]) THEN 0 ELSE balance[a]]
  /\ UNCHANGED recorded

Rename(r) ==
  /\ Settling(r) /\ op[r].kind \in UpdateKinds
  /\ \A a \in Names(op[r]) : status[a] = "open" /\ Owner[a] = op[r].user
  /\ UNCHANGED <<status, balance, recorded>>

Close(r) ==
  /\ Settling(r) /\ op[r].kind \in DeleteKinds
  /\ \A a \in Names(op[r]) : status[a] = "open" /\ Owner[a] = op[r].user
  /\ status' = [a \in Account |-> IF a \in Names(op[r]) THEN "deleted" ELSE status[a]]
  /\ UNCHANGED <<balance, recorded>>

Answer(r, code) ==
  /\ op[r] # NoOp /\ response[r] = "none"
  /\ code = "ok" => r \in settled
  /\ code \in Refusals => r \notin settled
  /\ response' = [response EXCEPT ![r] = code]
  /\ UNCHANGED <<op, status, balance, settled, recorded>>

(* The server dies: any of the requests not yet answered never will be.    *)
Vanish ==
  \E R \in SUBSET {r \in Request : op[r] # NoOp /\ response[r] = "none"} :
    /\ response' = [r \in Request |-> IF r \in R THEN "lost" ELSE response[r]]
    /\ UNCHANGED <<op, status, balance, settled, recorded>>

Next ==
  \/ \E r \in Request :
       \/ Submit(r) \/ Post(r) \/ Open(r) \/ Rename(r) \/ Close(r)
       \/ \E code \in {"ok", "500"} \union Refusals : Answer(r, code)
  \/ Vanish

Spec == Init /\ [][Next]_vars
=============================================================================
