---------------------------- MODULE MCSdkClient ----------------------------
(* Instances of SdkClient for TLC: two calls in flight on one client,      *)
(* which is Alice's and may be logged in already.                          *)
EXTENDS SdkClient, TLC

CONSTANTS k1, k2, alice, p, t0, t1, t2

MCCall == Task \X Legs
MCLower == [a \in Address |-> a]
MCHash == [w \in Password |-> w]
MCFirst == [u \in User |-> p]
MCIssuedTo == [t \in Token |-> alice]

MCCredentials == [kind |-> "login", address |-> alice, password |-> p, token |-> NoToken]
MCWorkload == {MCCredentials}

Wish(k) == [kind |-> k, with |-> NoCredentials]
LoginAgain == [kind |-> "login", with |-> MCCredentials]
EveryWish == {Wish("call"), Wish("raw"), Wish("refresh"), LoginAgain}

Symmetry == Permutations(Task) \union Permutations(Token \ Issued)
=============================================================================
