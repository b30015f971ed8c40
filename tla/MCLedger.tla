------------------------------ MODULE MCLedger ------------------------------
(* Instances of Ledger for TLC: up to four accounts of two users, small     *)
(* amounts, and one workload per question.                                 *)
EXTENDS LedgerInvariant, TLC

CONSTANTS r1, r2, r3, alice, bob

RequestSymmetry == Permutations(Request)

(* Account 2 is Bob's, the others are Alice's; 3 or 4 is yet to be opened. *)
MCUser == {alice, bob}
MCOwner == [a \in Account |-> IF a = 2 THEN bob ELSE alice]
MCOpening == [a \in Account |-> IF a = 1 THEN 2 ELSE IF a = 2 THEN 1 ELSE 0]
EmptyOpening == [a \in Account |-> 0]

Op(k, u, s, n) == [kind |-> k, user |-> u, ids |-> s, amount |-> n]

(* Deposits, withdrawals and transfers both ways, one deposit on an        *)
(* account of somebody else.                                               *)
MoneyWork ==
  {Op("deposit", alice, <<1>>, 1), Op("withdraw", alice, <<1>>, 2),
   Op("withdraw", bob, <<2>>, 1), Op("deposit", alice, <<2>>, 1),
   Op("transfer", alice, <<1, 2>>, 2), Op("transfer", bob, <<2, 1>>, 1)}

(* Accounts come and go under the money. *)
ClosingWork ==
  {Op("create", alice, <<3>>, 0), Op("delete", alice, <<3>>, 0),
   Op("bulkDelete", alice, <<3, 1>>, 0), Op("bulkDelete", bob, <<2, 2>>, 0),
   Op("deposit", alice, <<3>>, 1), Op("withdraw", alice, <<1>>, 2),
   Op("transfer", alice, <<1, 3>>, 1), Op("transfer", bob, <<2, 1>>, 1)}

(* Renames lock rows in the order of the request. *)
RenameWork ==
  {Op("bulkUpdate", alice, <<3, 1>>, 0), Op("update", alice, <<1>>, 0),
   Op("transfer", alice, <<1, 3>>, 1), Op("transfer", alice, <<3, 1>>, 1),
   Op("deposit", alice, <<1>>, 1)}

SafetyWork == MoneyWork \union ClosingWork \union {Op("update", alice, <<1>>, 0)}
BankWork == MoneyWork \union ClosingWork \union RenameWork \union
            {Op("transfer", alice, <<1, 1>>, 1), Op("create", alice, <<4>>, 0)}

(* A deposit meets a deletion. *)
DeleteRaceWork == {Op("delete", alice, <<3>>, 0), Op("deposit", alice, <<3>>, 1)}
=============================================================================
