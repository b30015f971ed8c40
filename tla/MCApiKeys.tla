------------------------------ MODULE MCApiKeys ------------------------------
(* Instances of ApiKeys for TLC: Alice and Bob, two keys that share their  *)
(* first characters, one legacy key, and keys to be generated.             *)
EXTENDS ApiKeys, TLC

CONSTANTS c1, c2, c3, alice, bob, ka, kb, kl, n1, n2, n3

MCPrefix == [k \in Key |-> IF k \in {ka, kb} THEN "aaaaaaaa" ELSE IF k = kl THEN "llllllll" ELSE "nnnnnnnn"]
MCIssuer == [k \in Key |-> IF k = kb THEN bob ELSE alice]

Ask(k, cred, u, t) == [kind |-> k, cred |-> cred, user |-> u, target |-> t]
MCWorkload ==
  {Ask("use", ka, alice, ka), Ask("use", kb, bob, ka), Ask("use", kl, alice, ka),
   Ask("generate", Jwt, alice, ka), Ask("generate", ka, alice, ka),
   Ask("revoke", Jwt, alice, ka), Ask("revoke", ka, alice, kl), Ask("revoke", kb, bob, ka)}

CallSymmetry == Permutations(Call)
NewKeySymmetry == Permutations({n1, n2, n3})
Symmetry == CallSymmetry \union NewKeySymmetry
=============================================================================
