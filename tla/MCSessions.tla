----------------------------- MODULE MCSessions -----------------------------
(* Instances of Sessions for TLC: Alice is enrolled and logged in; Bob     *)
(* registers, under an address typed in two ways and with two passwords;   *)
(* the third, pp, differs from p behind what bcrypt reads of it.           *)
EXTENDS Sessions, TLC

CONSTANTS c1, c2, c3, alice, bob, aliceTyped, bobTyped, BobTyped, p, q, pp, t1, t2, t3, t4

MCLower == [a \in Address |-> IF a = aliceTyped THEN alice ELSE bob]
MCHash == [w \in Password |-> IF w = pp THEN p ELSE w]
MCFirst == [u \in User |-> p]
MCIssuedTo == [t \in Token |-> alice]

Ask(k, a, w) == [kind |-> k, address |-> a, password |-> w, token |-> NoToken]
MCWorkload ==
  {Ask("register", bobTyped, p), Ask("register", BobTyped, q),
   Ask("login", bobTyped, p), Ask("login", BobTyped, q), Ask("login", bobTyped, pp),
   Ask("login", aliceTyped, p), Ask("login", aliceTyped, q)}

Symmetry == Permutations(Call) \union Permutations(Token \ Issued)
=============================================================================
