------------------------------- MODULE ApiKeys -------------------------------
(***************************************************************************)
(* API keys: generateApiKey and revokeApiKey of auth.service.ts behind the *)
(* X-API-Key branch of middleware/auth.ts.  Calls interleave at every      *)
(* query and at every bcrypt computation, which runs on another thread.    *)
(*                                                                         *)
(* A key is known by its secret: bcrypt compares equal exactly for the key *)
(* itself.  Its first eight characters, which the middleware looks it up   *)
(* by, may be those of another key; a legacy key has none stored.          *)
(***************************************************************************)
EXTENDS Integers, FiniteSets

CONSTANTS
  Call,      \* the calls clients make, each once
  User,
  Key,       \* the secrets: those given out and those that will be
  Prefix,    \* Prefix[k]: the first characters of k
  Legacy,    \* the keys stored without their prefix
  Issued,    \* the keys that exist at the start
  Issuer,    \* Issuer[k]: the user k was issued to
  Workload,  \* the calls clients may make
  MaxKeys    \* MAX_API_KEYS_PER_USER, 5 in the code

(* The user of calls nobody has authenticated, and the credential of a     *)
(* call that presents a JWT.                                               *)
CONSTANTS Nobody, Jwt

Kinds == {"use", "generate", "revoke"}
ActiveAtStart(u) == {k \in Issued : Issuer[k] = u}

ASSUME ApiKeysAssumption ==
  /\ Legacy \subseteq Issued /\ Issued \subseteq Key
  /\ Issuer \in [Key -> User] /\ Nobody \notin User /\ Jwt \notin Key
  /\ Workload \subseteq [kind : Kinds, cred : Key \union {Jwt}, user : User, target : Key]
  /\ IsFiniteSet(Call) /\ IsFiniteSet(Key)
  /\ MaxKeys \in Nat /\ Call # {}
  /\ \A u \in User : Cardinality(ActiveAtStart(u)) <= MaxKeys

VARIABLES
  op,          \* op[c]: what call c asks: kind, credential, the user a JWT
               \* names, the key to revoke
  pc,          \* pc[c]: where the middleware or the handler is
  candidates,  \* candidates[c]: the keys found and not yet compared
  actor,       \* actor[c]: req.user
  state,       \* state[k]: "unused", "active" or "revoked"
  owner,       \* owner[k]: the user the row of k belongs to
  response,    \* response[c]: the status of the answer
  stale,       \* history: stale[c]: c presents a key whose revocation had
               \* been answered when c was sent
  failed       \* history: the calls that met a failing query

keys == <<state, owner>>
keyVars == <<op, pc, candidates, actor, state, owner, response, stale, failed>>

Scanning == {"prefix", "comparePrefix", "legacy", "compareLegacy"}
Handling == {"use", "count", "insert", "find", "update"}
PCs == {"idle", "done"} \union Scanning \union Handling
NoCall == [kind |-> "none", cred |-> Jwt]

KeysInit ==
  /\ op = [c \in Call |-> NoCall]
  /\ pc = [c \in Call |-> "idle"]
  /\ candidates = [c \in Call |-> {}]
  /\ actor = [c \in Call |-> Nobody]
  /\ state = [k \in Key |-> IF k \in Issued THEN "active" ELSE "unused"]
  /\ owner = [k \in Key |-> IF k \in Issued THEN Issuer[k] ELSE Nobody]
  /\ response = [c \in Call |-> "none"]
  /\ stale = [c \in Call |-> FALSE]
  /\ failed = {}

-----------------------------------------------------------------------------
Goto(c, label) == pc' = [pc EXCEPT ![c] = label]
Respond(c, code) ==
  /\ response' = [response EXCEPT ![c] = code]
  /\ Goto(c, "done")

(* Where the router takes an authenticated call. *)
Handler(o) ==
  IF o.kind = "generate" THEN "count" ELSE IF o.kind = "revoke" THEN "find" ELSE "use"

(* The keys whose owners have been told that they are revoked. *)
KnownRevoked ==
  {op[d].target : d \in {d \in Call : op[d].kind = "revoke" /\ response[d] = "ok"}}

(* The bearer of a JWT is known at once; a key has to be looked up. *)
Receive(c) ==
  /\ pc[c] = "idle"
  /\ \E o \in Workload :
       /\ op' = [op EXCEPT ![c] = o]
       /\ stale' = [stale EXCEPT ![c] = o.cred \in KnownRevoked]
       /\ IF o.cred = Jwt
            THEN actor' = [actor EXCEPT ![c] = o.user] /\ Goto(c, Handler(o))
            ELSE Goto(c, "prefix") /\ UNCHANGED actor
  /\ UNCHANGED <<candidates, keys, response, failed>>

-----------------------------------------------------------------------------
(* authenticateWithApiKey: two lookups of keys that are not revoked, each  *)
(* followed by the comparison of the keys found, one by one.               *)
Found(c) ==
  IF pc[c] = "prefix"
  THEN {k \in Key : state[k] = "active" /\ k \notin Legacy /\ Prefix[k] = Prefix[op[c].cred]}
  ELSE {k \in Key : state[k] = "active" /\ k \in Legacy}

LookUp(c) ==
  /\ pc[c] \in {"prefix", "legacy"}
  /\ candidates' = [candidates EXCEPT ![c] = Found(c)]
  /\ Goto(c, IF pc[c] = "prefix" THEN "comparePrefix" ELSE "compareLegacy")
  /\ UNCHANGED <<op, actor, keys, response, stale, failed>>

Compare(c) ==
  /\ pc[c] \in {"comparePrefix", "compareLegacy"}
  /\ \E k \in candidates[c] :
       IF k = op[c].cred
       THEN /\ actor' = [actor EXCEPT ![c] = owner[k]]
            /\ Goto(c, Handler(op[c]))
            /\ UNCHANGED candidates
       ELSE /\ candidates' = [candidates EXCEPT ![c] = @ \ {k}]
            /\ UNCHANGED <<pc, actor>>
  /\ UNCHANGED <<op, keys, response, stale, failed>>

(* Slip: legacy keys are forgotten. *)
ExhaustAtOnce(c) ==
  /\ pc[c] \in {"comparePrefix", "compareLegacy"} /\ candidates[c] = {}
  /\ Respond(c, "401")
  /\ UNCHANGED <<op, candidates, actor, keys, stale, failed>>

Exhaust(c) ==
  /\ candidates[c] = {}
  /\ \/ pc[c] = "comparePrefix" /\ Goto(c, "legacy") /\ UNCHANGED response
     \/ pc[c] = "compareLegacy" /\ Respond(c, "401")
  /\ UNCHANGED <<op, candidates, actor, keys, stale, failed>>

-----------------------------------------------------------------------------
(* The handlers. *)
Use(c) ==
  /\ pc[c] = "use"
  /\ Respond(c, "ok")
  /\ UNCHANGED <<op, candidates, actor, keys, stale, failed>>

ActiveKeys(u) == {k \in Key : state[k] = "active" /\ owner[k] = u}

(* Slip: one key too many is let through. *)
CountOffByOne(c) ==
  /\ pc[c] = "count"
  /\ \/ Cardinality(ActiveKeys(actor[c])) > MaxKeys /\ Respond(c, "422")
     \/ Cardinality(ActiveKeys(actor[c])) <= MaxKeys /\ Goto(c, "insert") /\ UNCHANGED response
  /\ UNCHANGED <<op, candidates, actor, keys, stale, failed>>

Count(c) ==
  /\ pc[c] = "count"
  /\ \/ Cardinality(ActiveKeys(actor[c])) >= MaxKeys /\ Respond(c, "422")
     \/ Cardinality(ActiveKeys(actor[c])) < MaxKeys /\ Goto(c, "insert") /\ UNCHANGED response
  /\ UNCHANGED <<op, candidates, actor, keys, stale, failed>>

(* A new key, random and so none that a client has presented before, is    *)
(* hashed and stored with its prefix.                                      *)
Insert(c) ==
  /\ pc[c] = "insert"
  /\ \E k \in Key :
       /\ state[k] = "unused" /\ \A d \in Call : op[d].cred # k
       /\ state' = [state EXCEPT ![k] = "active"]
       /\ owner' = [owner EXCEPT ![k] = actor[c]]
  /\ Respond(c, "ok")
  /\ UNCHANGED <<op, candidates, actor, stale, failed>>

(* The key exists, is the caller's and is active, or the answer is 404.    *)
Find(c) ==
  LET k == op[c].target IN
  /\ pc[c] = "find"
  /\ \/ state[k] = "active" /\ owner[k] = actor[c] /\ Goto(c, "update") /\ UNCHANGED response
     \/ ~(state[k] = "active" /\ owner[k] = actor[c]) /\ Respond(c, "404")
  /\ UNCHANGED <<op, candidates, actor, keys, stale, failed>>

(* Slip: revokedAt is set, isRevoked is not. *)
UpdateDateOnly(c) ==
  /\ pc[c] = "update"
  /\ Respond(c, "ok")
  /\ UNCHANGED <<op, candidates, actor, keys, stale, failed>>

Update(c) ==
  /\ pc[c] = "update"
  /\ state' = [state EXCEPT ![op[c].target] = "revoked"]
  /\ Respond(c, "ok")
  /\ UNCHANGED <<op, candidates, actor, owner, stale, failed>>

(* A failing query is answered 401 by the middleware, 500 by a handler.    *)
QueryFails(c) ==
  /\ pc[c] \in Scanning \union Handling
  /\ Respond(c, IF pc[c] \in Scanning THEN "401" ELSE "500")
  /\ failed' = failed \union {c}
  /\ UNCHANGED <<op, candidates, actor, keys, stale>>

-----------------------------------------------------------------------------
Authenticate(c) == LookUp(c) \/ Compare(c) \/ Exhaust(c)
Handle(c) == Use(c) \/ Count(c) \/ Insert(c) \/ Find(c) \/ Update(c)

KeysNext == \E c \in Call : Receive(c) \/ Authenticate(c) \/ Handle(c) \/ QueryFails(c)

KeysSpec == KeysInit /\ [][KeysNext]_keyVars

-----------------------------------------------------------------------------
(* The type of the state.                                                  *)
KeysTypeOK ==
  /\ op \in [Call -> Workload \union {NoCall}]
  /\ pc \in [Call -> PCs]
  /\ candidates \in [Call -> SUBSET Key]
  /\ actor \in [Call -> User \union {Nobody}]
  /\ state \in [Key -> {"unused", "active", "revoked"}]
  /\ owner \in [Key -> User \union {Nobody}]
  /\ response \in [Call -> {"none", "ok", "401", "404", "422", "500"}]
  /\ stale \in [Call -> BOOLEAN]
  /\ failed \subseteq Call

(* The limit is checked before the key is hashed and stored, and nothing   *)
(* holds it meanwhile: calls in flight together may each add the last key. *)
(* They cannot go further than that: one key more for each call but one.   *)
OvershootIsBounded ==
  \A u \in User : Cardinality(ActiveKeys(u)) <= MaxKeys + Cardinality(Call) - 1

(* A call sent after the client was told that its key is revoked is never  *)
(* let through, whatever lookups and revocations are under way.            *)
RevokedKeyRefused == \A c \in Call : stale[c] => response[c] \in {"none", "401"}

(* A call that presents a key acts for the user the key was issued to,     *)
(* even where several keys share their first characters.                   *)
ActsForOwner ==
  \A c \in Call : actor[c] # Nobody /\ op[c].cred # Jwt => actor[c] = owner[op[c].cred]

(* A key that is active is never refused: unless a query failed, a 401     *)
(* means that the key is not, or is no longer, active.                     *)
ActiveKeyAccepted ==
  \A c \in Call : response[c] = "401" /\ c \notin failed => state[op[c].cred] # "active"
=============================================================================
