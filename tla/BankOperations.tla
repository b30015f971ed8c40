--------------------------- MODULE BankOperations ---------------------------
(***************************************************************************)
(* The operations a client can ask of the ledger: the money operations of  *)
(* transactions.service.ts, the account operations of accounts.service.ts  *)
(* and the bulk operations of bulk.service.ts.  An operation is a record   *)
(*   [kind, user, ids, amount]                                             *)
(* where "ids" are the accounts it names, in the order the request names   *)
(* them: one for a deposit, a withdrawal, a rename or a deletion, source   *)
(* and destination for a transfer, and the whole list for a bulk request.  *)
(***************************************************************************)
EXTENDS Integers, Sequences

CONSTANTS
  Account,     \* account ids; the order on ids is the order on integers
  User,        \* user ids
  Owner,       \* Owner[a]: the user account a belongs to, if it is created
  MaxBalance,  \* the largest value a balance column holds, Decimal(12, 2)
  Workload     \* the operations the clients may send

MoneyKinds == {"deposit", "withdraw", "transfer"}
UpdateKinds == {"update", "bulkUpdate"}
DeleteKinds == {"delete", "bulkDelete"}
SingleKinds == {"deposit", "withdraw", "transfer", "update", "delete"}
Kinds == MoneyKinds \union UpdateKinds \union DeleteKinds \union {"create"}

(* Request bodies that pass validation (transactions.schema.ts,            *)
(* bulk.schema.ts): a positive amount for money, at least one id.          *)
IsOperation(o) ==
  /\ o.kind \in Kinds /\ o.user \in User
  /\ o.amount \in Nat /\ (o.kind \in MoneyKinds => o.amount > 0)
  /\ o.ids \in Seq(Account) /\ Len(o.ids) > 0
  /\ o.kind \in SingleKinds => Len(o.ids) = (IF o.kind = "transfer" THEN 2 ELSE 1)
  /\ o.kind = "create" => \A i \in 1..Len(o.ids) : Owner[o.ids[i]] = o.user

(* Ids are integers, so that "ORDER BY id" is <; every account has an      *)
(* owner; balances are bounded by the width of the column.                 *)
ASSUME BankAssumption ==
  /\ Account \subseteq Nat
  /\ Owner \in [Account -> User]
  /\ MaxBalance \in Nat
  /\ \A o \in Workload : IsOperation(o)

NoOp == [kind |-> "none", user |-> "nobody", ids |-> <<>>, amount |-> 0]

IsMoney(o) == o.kind \in MoneyKinds
Debits(o)  == o.kind \in {"withdraw", "transfer"}
Credits(o) == o.kind \in {"deposit", "transfer"}
Src(o) == o.ids[1]
Dst(o) == o.ids[Len(o.ids)]
Names(o) == {o.ids[i] : i \in 1..Len(o.ids)}

(* What operation o adds to the balance of account a when it takes effect. *)
Posting(o, a) ==
  (IF Credits(o) /\ a = Dst(o) THEN o.amount ELSE 0)
    - (IF Debits(o) /\ a = Src(o) THEN o.amount ELSE 0)
=============================================================================
