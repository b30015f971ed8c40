------------------------------- MODULE MCApi --------------------------------
(***************************************************************************)
(* One request is any method of the SDK for either credential, or one with *)
(* a flaw; two more are lists that ask to be held, so that three of one    *)
(* address meet a limit of one per window.                                 *)
(***************************************************************************)
EXTENDS Api, TLC

CONSTANTS r1, r2, r3, a1, boss, clerk

Ask(m, cred, flaw, hold) ==
  [name |-> m.name, verb |-> m.verb, path |-> m.path, handler |-> m.handler,
   cred |-> cred, flaw |-> flaw, hold |-> hold, from |-> a1,
   account |-> m.name # "getTransactionByReference"]
Plain(verb, path) == [name |-> None, verb |-> verb, path |-> path, handler |-> None]

Sweep == {Ask(m, c, "none", FALSE) : m \in SdkMethods, c \in {boss, clerk}}
Listing == Method("listAccounts", "GET", <<"accounts">>, "listAccounts")
Held == {Ask(Listing, boss, "none", TRUE)}
Odd == {Ask(Plain("POST", <<"v1", "test", "reset">>), c, "none", h) : c \in {clerk, Nobody}, h \in BOOLEAN}
       \union {Ask(Plain("GET", <<v, p>>), Nobody, "none", FALSE) : v \in {"v2", "v3"}, p \in {"health", "accounts"}}
       \union {Ask(Plain("POST", <<"v1", "bulk", "create">>), clerk, f, FALSE) : f \in {"huge", "garbled", "delay", "body"}}
       \union {Ask(Plain("POST", <<"v1", "accounts">>), clerk, "body", FALSE),
               Ask(Plain("POST", <<"v1", "files", "upload">>), clerk, "file", FALSE)}
MCWorkload == [r \in Request |-> IF r = r1 THEN Sweep \union Odd \union Held ELSE Held]

Symmetry == Permutations({r2, r3})
=============================================================================
