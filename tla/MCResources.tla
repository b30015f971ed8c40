----------------------------- MODULE MCResources -----------------------------
(* Wallets, payment methods and beneficiaries of two users, for TLC. *)
EXTENDS Resources, TLC

CONSTANTS u1, u2, w1, w2, m1, b1, p1, unknown

Users == {u1, u2}
AllPayees == {p1}
GivenIds == {w1, w2, m1, b1, unknown}

Rows == [i \in GivenIds |->
           IF i \in {w1, w2} THEN [table |-> "wallet", user |-> u1, payee |-> NoPayee]
           ELSE IF i = m1 THEN [table |-> "method", user |-> u1, payee |-> NoPayee]
           ELSE IF i = b1 THEN [table |-> "payee", user |-> u2, payee |-> p1]
           ELSE NoRow]

(* The ids that a call does not use are those of no row. *)
Ask(kinds, users, targets, wallets, payees) ==
  [kind : kinds, user : users, target : targets, wallet : wallets, payee : payees]

Requests ==
  Ask({"newWallet"}, {u1}, {unknown}, {unknown}, {NoPayee})
  \union Ask({"newMethod"}, Users, {unknown}, {unknown}, {NoPayee})
  \union Ask({"link"}, {u1}, {m1, unknown}, {w1, w2}, {NoPayee})
  \union Ask({"link"}, {u2}, {m1}, {w1, unknown}, {NoPayee})
  \union Ask({"deleteMethod"}, Users, {m1}, {unknown}, {NoPayee})
  \union Ask({"addPayee"}, Users, {unknown}, {unknown}, AllPayees)
  \union Ask({"dropPayee"}, Users, {b1} \union Call, {unknown}, {NoPayee})

Symmetry == Permutations(Call)
=============================================================================
