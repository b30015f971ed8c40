---------------------------- MODULE AccessProofs ----------------------------
(***************************************************************************)
(* Theorems about what lets a request in.  Those about ApiKeys hold for    *)
(* any calls, users and keys, any shared prefixes and any limit; those     *)
(* about RateLimiter for all limits, windows, addresses and bounds: what   *)
(* the store keeps, what passes in a window's length of time, and why a    *)
(* request is refused.  The two share no state; a limiter stands before    *)
(* the authentication.                                                     *)
(***************************************************************************)
EXTENDS ApiKeys, RateLimiter, FiniteSetTheorems, TLAPS

(* API keys.                                                               *)

(* A handler serves the kind of call it is for; the answer comes last.     *)
KeyRouted(c) ==
  /\ pc[c] \in {"find", "update"} => op[c].kind = "revoke"
  /\ pc[c] \in {"count", "insert"} => op[c].kind = "generate"
  /\ pc[c] = "use" => op[c].kind = "use"
  /\ (pc[c] = "idle") <=> (op[c] = NoCall)
  /\ (pc[c] = "done") <=> (response[c] # "none")
  /\ pc[c] = "idle" => actor[c] = Nobody /\ candidates[c] = {} /\ ~stale[c]
  /\ pc[c] \in Scanning => op[c].cred \in Key /\ actor[c] = Nobody

(* What is known of the key a call presents.                               *)
Presented(c) ==
  /\ \A k \in candidates[c] : state[k] # "unused"
  /\ actor[c] # Nobody /\ op[c].cred # Jwt =>
       state[op[c].cred] # "unused" /\ actor[c] = owner[op[c].cred]
  /\ stale[c] => /\ op[c].cred \in Key /\ state[op[c].cred] = "revoked"
                    /\ op[c].cred \notin candidates[c]
                    /\ pc[c] \in Scanning \union {"done"}
                    /\ response[c] \in {"none", "401"}
  /\ pc[c] = "update" => state[op[c].target] # "unused"
  /\ op[c].kind = "revoke" /\ response[c] = "ok" => state[op[c].target] = "revoked"

(* An active key is ahead of the scan: among the candidates or among those *)
(* of the second lookup.                                                   *)
Ahead(c) ==
  /\ pc[c] = "comparePrefix" /\ state[op[c].cred] = "active" /\ op[c].cred \notin Legacy =>
       op[c].cred \in candidates[c]
  /\ pc[c] \in {"legacy", "compareLegacy"} /\ state[op[c].cred] = "active" =>
       op[c].cred \in Legacy
  /\ pc[c] = "compareLegacy" /\ state[op[c].cred] = "active" => op[c].cred \in candidates[c]
  /\ response[c] = "401" /\ c \notin failed =>
       op[c].cred \in Key /\ state[op[c].cred] # "active"

CallsInv == \A c \in Call : KeyRouted(c) /\ Presented(c) /\ Ahead(c)
KeysInv == KeysTypeOK /\ CallsInv

-----------------------------------------------------------------------------
(* The types are preserved.                                                *)
LEMMA TypePreserved ==
  ASSUME KeysTypeOK, [KeysNext]_keyVars
  PROVE  KeysTypeOK'
  <1> USE ApiKeysAssumption DEF KeysTypeOK
  <1>1. ASSUME NEW c \in Call, Receive(c)
        PROVE  KeysTypeOK'
    BY <1>1 DEF Receive, Handler, Goto, keys, PCs, Scanning, Handling
  <1>2. ASSUME NEW c \in Call, Authenticate(c)
        PROVE  KeysTypeOK'
    <2>1. CASE LookUp(c)
      BY <2>1 DEF LookUp, Found, Goto, keys, PCs, Scanning, Handling
    <2>2. CASE Compare(c)
      BY <2>2 DEF Compare, Handler, Goto, keys, PCs, Scanning, Handling
    <2>3. CASE Exhaust(c)
      BY <2>3 DEF Exhaust, Respond, Goto, keys, PCs, Scanning, Handling
    <2>4. QED
      BY <1>2, <2>1, <2>2, <2>3 DEF Authenticate
  <1>3. ASSUME NEW c \in Call, Handle(c) \/ QueryFails(c)
        PROVE  KeysTypeOK'
    <2>1. CASE Insert(c)
      BY <2>1 DEF Insert, Respond, Goto, PCs
    <2>2. CASE Use(c) \/ Count(c) \/ Find(c) \/ QueryFails(c)
      BY <2>2 DEF Use, Count, Find, QueryFails, Respond, Goto,
             keys, PCs, Scanning, Handling
    <2>3. CASE Update(c)
      BY <2>3 DEF Update, Respond, Goto, PCs
    <2>4. QED
      BY <1>3, <2>1, <2>2, <2>3 DEF Handle
  <1>4. CASE UNCHANGED keyVars
    BY <1>4 DEF keyVars
  <1>5. QED
    BY <1>1, <1>2, <1>3, <1>4 DEF KeysNext

(* Keys are given out once, to the caller, and never come back from being  *)
(* revoked; nobody has presented a key that is given out.                  *)
LEMMA KeySteps ==
  ASSUME KeysTypeOK, NEW c \in Call,
         Receive(c) \/ Authenticate(c) \/ Handle(c) \/ QueryFails(c)
  PROVE  \A k \in Key :
           \/ state'[k] = state[k] /\ owner'[k] = owner[k]
           \/ /\ state[k] = "unused" /\ \A d \in Call : op[d].cred # k
              /\ state'[k] = "active" /\ owner'[k] = actor[c] /\ Insert(c)
           \/ state'[k] = "revoked" /\ owner'[k] = owner[k] /\ Update(c) /\ k = op[c].target
  <1>1. CASE Insert(c)
    BY <1>1 DEF Insert, KeysTypeOK
  <1>2. CASE Update(c)
    BY <1>2 DEF Update, KeysTypeOK
  <1>3. CASE ~Insert(c) /\ ~Update(c)
    BY <1>3 DEF Receive, Authenticate, LookUp, Compare, Exhaust,
           Handle, Use, Count, Find, QueryFails, keys
  <1>4. QED
    BY <1>1, <1>2, <1>3

(* The calls that do not take the step keep what they know: the key they   *)
(* present may have been revoked, and no more.                             *)
LEMMA OthersKept ==
  ASSUME KeysInv, NEW c \in Call,
         Receive(c) \/ Authenticate(c) \/ Handle(c) \/ QueryFails(c),
         NEW d \in Call, d # c
  PROVE  KeyRouted(d)' /\ Presented(d)' /\ Ahead(d)'
  <1> USE DEF KeysInv, CallsInv
  <1>1. /\ op'[d] = op[d] /\ pc'[d] = pc[d] /\ candidates'[d] = candidates[d]
        /\ actor'[d] = actor[d] /\ response'[d] = response[d] /\ stale'[d] = stale[d]
        /\ (d \in failed') <=> (d \in failed)
    BY DEF Receive, Authenticate, LookUp, Compare, Exhaust, Handle,
           Use, Count, Insert, Find, Update, QueryFails, Respond,
           Goto, KeysTypeOK
  <1>2. \A k \in Key : /\ state[k] # "unused" => state'[k] # "unused" /\ owner'[k] = owner[k]
                       /\ state[k] = "revoked" => state'[k] = "revoked"
                       /\ state'[k] = "active" => state[k] = "active" \/ k # op[d].cred
    <2>1. CASE Update(c)
      BY <2>1, KeySteps DEF Update, Presented
    <2>2. CASE ~Update(c)
      BY <2>2, KeySteps
    <2>3. QED
      BY <2>1, <2>2
  <1>3. candidates[d] \subseteq Key /\ (op[d].cred \in Key \/ op[d].cred = Jwt)
        /\ (op[d].kind = "revoke" => op[d].target \in Key)
        /\ (pc[d] = "update" => op[d].kind = "revoke")
    BY ApiKeysAssumption DEF KeysTypeOK, NoCall, KeyRouted
  <1>4. KeyRouted(d)'
    BY <1>1 DEF KeyRouted
  <1>5. Presented(d)'
    BY <1>1, <1>2, <1>3 DEF Presented
  <1>6. Ahead(d)'
    BY <1>1, <1>2, <1>3 DEF Ahead, KeyRouted, Scanning
  <1>7. QED
    BY <1>4, <1>5, <1>6

(* The call that takes the step. *)
LEMMA ReceiveKept ==
  ASSUME KeysInv, NEW c \in Call, Receive(c)
  PROVE  KeyRouted(c)' /\ Presented(c)' /\ Ahead(c)'
  <1> USE ApiKeysAssumption DEF KeysInv, CallsInv
  <1>1. PICK o \in Workload :
          /\ op' = [op EXCEPT ![c] = o]
          /\ stale' = [stale EXCEPT ![c] = o.cred \in KnownRevoked]
          /\ IF o.cred = Jwt
               THEN actor' = [actor EXCEPT ![c] = o.user] /\ Goto(c, Handler(o))
               ELSE Goto(c, "prefix") /\ UNCHANGED actor
    BY DEF Receive
  <1>2. /\ pc[c] = "idle" /\ response[c] = "none" /\ candidates[c] = {} /\ actor[c] = Nobody
        /\ response' = response /\ candidates' = candidates /\ state' = state /\ owner' = owner
        /\ failed' = failed
    BY DEF Receive, KeyRouted, keys
  <1>3. /\ o.kind \in Kinds /\ (o.cred \in Key \/ o.cred = Jwt) /\ o.target \in Key
        /\ op'[c] = o /\ stale'[c] = (o.cred \in KnownRevoked)
    BY <1>1 DEF KeysTypeOK
  <1>4. o # NoCall
    BY <1>3 DEF NoCall, Kinds
  <1>5. KnownRevoked \subseteq {k \in Key : state[k] = "revoked"}
    <2>1. ASSUME NEW d \in Call, op[d].kind = "revoke", response[d] = "ok"
          PROVE  op[d].target \in Key /\ state[op[d].target] = "revoked"
      BY <2>1 DEF Presented, KeysTypeOK, NoCall
    <2>2. QED
      BY <2>1 DEF KnownRevoked
  <1>6. \/ o.cred = Jwt /\ pc'[c] = Handler(o)
        \/ o.cred \in Key /\ pc'[c] = "prefix" /\ actor'[c] = Nobody
    BY <1>1, <1>2, <1>3 DEF Goto, KeysTypeOK
  <1>7. Handler(o) \in {"count", "find", "use"}
    BY DEF Handler
  <1>8. KeyRouted(c)'
    BY <1>2, <1>3, <1>4, <1>6 DEF KeyRouted, Handler, Scanning, Kinds
  <1>9. Presented(c)'
    <2>1. candidates'[c] = {} /\ response'[c] = "none" /\ pc'[c] # "update"
      BY <1>2, <1>6, <1>7
    <2>2. o.cred # Jwt => actor'[c] = Nobody
      BY <1>6
    <2>3. stale'[c] => o.cred \in Key /\ state'[o.cred] = "revoked" /\ pc'[c] \in Scanning
      BY <1>2, <1>3, <1>5, <1>6 DEF Scanning
    <2>4. QED
      BY <1>3, <2>1, <2>2, <2>3 DEF Presented
  <1>10. Ahead(c)'
    BY <1>2, <1>6, <1>7 DEF Ahead
  <1>11. QED
    BY <1>8, <1>9, <1>10

LEMMA AuthenticateKept ==
  ASSUME KeysInv, NEW c \in Call, Authenticate(c)
  PROVE  KeyRouted(c)' /\ Presented(c)' /\ Ahead(c)'
  <1> USE DEF KeysInv, CallsInv
  <1>1. /\ pc[c] \in Scanning /\ op[c].cred \in Key /\ actor[c] = Nobody /\ response[c] = "none"
        /\ op' = op /\ state' = state /\ owner' = owner /\ stale' = stale /\ failed' = failed
    BY DEF Authenticate, LookUp, Compare, Exhaust, KeyRouted, Scanning,
           keys
  <1>2. op[c].cred # Jwt /\ op[c] # NoCall
    BY <1>1, ApiKeysAssumption DEF KeyRouted, Scanning
  <1>3. CASE LookUp(c)
    <2>1. /\ candidates'[c] = Found(c) /\ actor' = actor /\ response' = response
          /\ \/ pc[c] = "prefix" /\ pc'[c] = "comparePrefix"
             \/ pc[c] = "legacy" /\ pc'[c] = "compareLegacy"
      BY <1>3 DEF LookUp, Goto, KeysTypeOK
    <2>2. KeyRouted(c)'
      BY <1>1, <1>2, <2>1 DEF KeyRouted, Scanning
    <2>3. Presented(c)'
      BY <1>1, <2>1 DEF Presented, Found, Scanning
    <2>4. Ahead(c)'
      BY <1>1, <2>1 DEF Ahead, Found
    <2>5. QED
      BY <2>2, <2>3, <2>4
  <1>4. CASE Compare(c)
    <2>1. PICK k \in candidates[c] :
            IF k = op[c].cred
            THEN /\ actor' = [actor EXCEPT ![c] = owner[k]]
                 /\ Goto(c, Handler(op[c]))
                 /\ UNCHANGED candidates
            ELSE /\ candidates' = [candidates EXCEPT ![c] = @ \ {k}]
                 /\ UNCHANGED <<pc, actor>>
      BY <1>4 DEF Compare
    <2>2. response' = response
      BY <1>4 DEF Compare
    <2>3. CASE k = op[c].cred
      <3>1. /\ pc'[c] = Handler(op[c]) /\ actor'[c] = owner[k] /\ candidates' = candidates
            /\ ~stale[c] /\ state[k] # "unused"
        BY <2>1, <2>3 DEF Goto, Presented, KeysTypeOK
      <3>2. op[c].kind \in Kinds
        BY <1>2, ApiKeysAssumption DEF KeysTypeOK
      <3>3. KeyRouted(c)'
        BY <1>1, <1>2, <2>2, <3>1, <3>2 DEF KeyRouted, Handler, Scanning, Kinds
      <3>4. Presented(c)'
        BY <1>1, <2>2, <2>3, <3>1 DEF Presented, Handler
      <3>5. Ahead(c)'
        BY <1>1, <2>2, <3>1 DEF Ahead, Handler
      <3>6. QED
        BY <3>3, <3>4, <3>5
    <2>4. CASE k # op[c].cred
      <3>1. candidates'[c] = candidates[c] \ {k} /\ pc' = pc /\ actor' = actor
        BY <2>1, <2>4 DEF KeysTypeOK
      <3>2. KeyRouted(c)'
        BY <1>1, <2>2, <3>1 DEF KeyRouted, Scanning
      <3>3. Presented(c)'
        BY <1>1, <2>2, <3>1 DEF Presented
      <3>4. Ahead(c)'
        BY <1>1, <2>2, <2>4, <3>1 DEF Ahead
      <3>5. QED
        BY <3>2, <3>3, <3>4
    <2>5. QED
      BY <2>3, <2>4
  <1>5. CASE Exhaust(c)
    <2>1. /\ candidates[c] = {} /\ candidates' = candidates /\ actor' = actor
          /\ \/ pc[c] = "comparePrefix" /\ pc'[c] = "legacy" /\ response' = response
             \/ pc[c] = "compareLegacy" /\ pc'[c] = "done" /\ response'[c] = "401"
      BY <1>5 DEF Exhaust, Respond, Goto, KeysTypeOK
    <2>2. KeyRouted(c)'
      BY <1>1, <1>2, <2>1 DEF KeyRouted, Scanning
    <2>3. Presented(c)'
      BY <1>1, <2>1 DEF Presented, Scanning
    <2>4. Ahead(c)'
      BY <1>1, <2>1 DEF Ahead
    <2>5. QED
      BY <2>2, <2>3, <2>4
  <1>6. QED
    BY <1>3, <1>4, <1>5 DEF Authenticate

LEMMA HandleKept ==
  ASSUME KeysInv, NEW c \in Call, Handle(c) \/ QueryFails(c)
  PROVE  KeyRouted(c)' /\ Presented(c)' /\ Ahead(c)'
  <1> USE DEF KeysInv, CallsInv
  <1>1. /\ pc[c] \in Scanning \union Handling /\ response[c] = "none" /\ op[c] # NoCall
        /\ op' = op /\ candidates' = candidates /\ actor' = actor /\ stale' = stale
    BY DEF Handle, Use, Count, Insert, Find, Update, QueryFails,
           KeyRouted, Scanning, Handling
  <1>2. \A k \in Key : /\ state[k] # "unused" => state'[k] # "unused" /\ owner'[k] = owner[k]
                       /\ state[k] = "revoked" => state'[k] = "revoked"
                       /\ state'[k] = "active" => state[k] = "active" \/ k # op[c].cred
    <2>1. CASE Update(c)
      BY <2>1, KeySteps DEF Update, Presented
    <2>2. CASE ~Update(c)
      BY <2>2, KeySteps
    <2>3. QED
      BY <2>1, <2>2
  <1>3. candidates[c] \subseteq Key /\ (op[c].cred \in Key \/ op[c].cred = Jwt) /\ op[c].target \in Key
    BY <1>1, ApiKeysAssumption DEF KeysTypeOK
  <1>4. /\ pc'[c] = "done" => response'[c] \in {"ok", "401", "404", "422", "500"}
        /\ pc'[c] # "done" => response'[c] = "none"
        /\ \/ pc'[c] = "done"
           \/ pc[c] = "count" /\ pc'[c] = "insert"
           \/ pc[c] = "find" /\ pc'[c] = "update" /\ state[op[c].target] = "active"
    BY <1>1 DEF Handle, Use, Count, Insert, Find, Update,
           QueryFails, Respond, Goto, KeysTypeOK, KeyRouted, Scanning,
           Handling
  <1>5. /\ stale[c] => pc[c] \in Scanning
        /\ pc[c] \in Scanning => response'[c] = "401" /\ pc'[c] = "done"
    BY <1>1 DEF Handle, Use, Count, Insert, Find, Update,
           QueryFails, Respond, Goto, KeysTypeOK, Presented, Scanning,
           Handling, KeyRouted
  <1>6. response'[c] = "401" => c \in failed'
    BY <1>1 DEF Handle, Use, Count, Insert, Find, Update,
           QueryFails, Respond, Goto, KeysTypeOK
  <1>7. op[c].kind = "revoke" /\ response'[c] = "ok" => state'[op[c].target] = "revoked"
    <2>1. op[c].kind = "revoke" /\ response'[c] = "ok" => Update(c)
      BY <1>1 DEF Handle, Use, Count, Insert, Find, Update,
             QueryFails, Respond, Goto, KeysTypeOK, KeyRouted, Scanning
    <2>2. QED
      BY <1>3, <2>1 DEF Update, KeysTypeOK
  <1>8. KeyRouted(c)'
    BY <1>1, <1>4 DEF KeyRouted, Scanning, Handling
  <1>9. Presented(c)'
    BY <1>1, <1>2, <1>3, <1>4, <1>5, <1>7 DEF Presented, Scanning
  <1>10. Ahead(c)'
    BY <1>1, <1>4, <1>6 DEF Ahead
  <1>11. QED
    BY <1>8, <1>9, <1>10

(* The inductive invariant.                                                *)
THEOREM KeysInvariantHolds == KeysSpec => []KeysInv
  <1>1. KeysInit => KeysInv
    <2> SUFFICES ASSUME KeysInit
                 PROVE  KeysInv
      OBVIOUS
    <2>1. KeysTypeOK
      BY ApiKeysAssumption DEF KeysInit, KeysTypeOK, PCs
    <2>2. ASSUME NEW c \in Call
          PROVE  KeyRouted(c) /\ Presented(c) /\ Ahead(c)
      BY DEF KeysInit, KeyRouted, Presented, Ahead, Scanning, NoCall
    <2>3. QED
      BY <2>1, <2>2 DEF KeysInv, CallsInv
  <1>2. ASSUME KeysInv, [KeysNext]_keyVars
        PROVE  KeysInv'
    <2>1. KeysTypeOK'
      BY <1>2, TypePreserved DEF KeysInv
    <2>2. ASSUME NEW c \in Call,
                 Receive(c) \/ Authenticate(c) \/ Handle(c) \/ QueryFails(c)
          PROVE  CallsInv'
      <3>1. KeyRouted(c)' /\ Presented(c)' /\ Ahead(c)'
        BY <1>2, <2>2, ReceiveKept, AuthenticateKept, HandleKept
      <3>2. ASSUME NEW d \in Call, d # c
            PROVE  KeyRouted(d)' /\ Presented(d)' /\ Ahead(d)'
        BY <1>2, <2>2, <3>2, OthersKept
      <3>3. QED
        BY <3>1, <3>2 DEF CallsInv
    <2>3. CASE UNCHANGED keyVars
      <3>1. ASSUME NEW c \in Call
            PROVE  (KeyRouted(c) <=> KeyRouted(c)') /\ (Presented(c) <=> Presented(c)')
                   /\ (Ahead(c) <=> Ahead(c)')
        <4>1. /\ op' = op /\ pc' = pc /\ candidates' = candidates /\ actor' = actor /\ stale' = stale
              /\ state' = state /\ owner' = owner /\ response' = response /\ failed' = failed
          BY <2>3 DEF keyVars, keys
        <4>2. KeyRouted(c) <=> KeyRouted(c)'
          BY <4>1 DEF KeyRouted
        <4>3. Presented(c) <=> Presented(c)'
          BY <4>1 DEF Presented
        <4>4. Ahead(c) <=> Ahead(c)'
          BY <4>1 DEF Ahead
        <4>5. QED
          BY <4>2, <4>3, <4>4
      <3>2. QED
        BY <1>2, <2>1, <3>1 DEF KeysInv, CallsInv
    <2>4. QED
      BY <1>2, <2>1, <2>2, <2>3 DEF KeysNext, KeysInv
  <1>3. QED
    BY <1>1, <1>2, PTL DEF KeysSpec, keyVars

-----------------------------------------------------------------------------
(* Once its owner has been told, a revoked key opens nothing.              *)
THEOREM RevokedKeysStayRefused == KeysSpec => []RevokedKeyRefused
  <1>1. KeysInv => RevokedKeyRefused
    BY DEF KeysInv, CallsInv, Presented, RevokedKeyRefused
  <1>2. QED
    BY <1>1, KeysInvariantHolds, PTL

(* A key stands for the user it was issued to, whatever prefixes collide.  *)
THEOREM KeysActForTheirOwners == KeysSpec => []ActsForOwner
  <1>1. KeysInv => ActsForOwner
    BY DEF KeysInv, CallsInv, Presented, ActsForOwner
  <1>2. QED
    BY <1>1, KeysInvariantHolds, PTL

(* No active key is missed by the two lookups.                             *)
THEOREM ActiveKeysAreAccepted == KeysSpec => []ActiveKeyAccepted
  <1>1. KeysInv => ActiveKeyAccepted
    BY DEF KeysInv, CallsInv, Ahead, ActiveKeyAccepted
  <1>2. QED
    BY <1>1, KeysInvariantHolds, PTL

(* The types, as part of the invariant. *)
THEOREM KeyTypesHold == KeysSpec => []KeysTypeOK
  <1>1. KeysInv => KeysTypeOK
    BY DEF KeysInv
  <1>2. QED
    BY <1>1, KeysInvariantHolds, PTL

-----------------------------------------------------------------------------
(* The limit.  A call past its check holds a place for the key it will     *)
(* add: keys and places together exceed the limit by less than the number  *)
(* of calls, for the last call to pass the check found fewer than MaxKeys  *)
(* keys, and no more places are taken than there are calls.                *)
Inserting(u) == {c \in Call : pc[c] = "insert" /\ actor[c] = u}
KeysTaken(u) == Cardinality(ActiveKeys(u)) + Cardinality(Inserting(u))
PlacesInv == \A u \in User : KeysTaken(u) <= MaxKeys + Cardinality(Call) - 1

LEMMA KeyLimits ==
  /\ IsFiniteSet(Call) /\ Call # {} /\ IsFiniteSet(Key) /\ MaxKeys \in Nat
  /\ \A u \in User : Cardinality(ActiveAtStart(u)) <= MaxKeys
  BY ApiKeysAssumption

LEMMA CardinalityFacts ==
  /\ Cardinality(Call) \in Nat /\ Cardinality(Call) >= 1 /\ MaxKeys \in Nat
  /\ \A u : /\ IsFiniteSet(ActiveKeys(u)) /\ Cardinality(ActiveKeys(u)) \in Nat
             /\ IsFiniteSet(Inserting(u)) /\ Cardinality(Inserting(u)) \in Nat
             /\ Cardinality(Inserting(u)) <= Cardinality(Call)
  <1> USE KeyLimits
  <1>1. Cardinality(Call) \in Nat
    BY FS_CardinalityType
  <1>2. Cardinality(Call) # 0
    BY FS_EmptySet
  <1>3. ASSUME NEW u
        PROVE  /\ IsFiniteSet(ActiveKeys(u)) /\ Cardinality(ActiveKeys(u)) \in Nat
               /\ IsFiniteSet(Inserting(u)) /\ Cardinality(Inserting(u)) \in Nat
               /\ Cardinality(Inserting(u)) <= Cardinality(Call)
    <2>1. ActiveKeys(u) \subseteq Key /\ Inserting(u) \subseteq Call
      BY DEF ActiveKeys, Inserting
    <2>2. /\ IsFiniteSet(ActiveKeys(u)) /\ IsFiniteSet(Inserting(u))
          /\ Cardinality(Inserting(u)) <= Cardinality(Call)
      BY <2>1, FS_Subset
    <2>3. QED
      BY <2>2, FS_CardinalityType
  <1>4. QED
    BY <1>1, <1>2, <1>3

(* A step that adds no active key of u and no call past the check for u    *)
(* takes no place.                                                         *)
LEMMA NoPlaceTaken ==
  ASSUME NEW u,
         ActiveKeys(u)' \subseteq ActiveKeys(u), Inserting(u)' \subseteq Inserting(u)
  PROVE  KeysTaken(u)' <= KeysTaken(u) /\ KeysTaken(u)' \in Nat
  <1>1. /\ Cardinality(ActiveKeys(u)') <= Cardinality(ActiveKeys(u))
        /\ Cardinality(Inserting(u)') <= Cardinality(Inserting(u))
        /\ Cardinality(ActiveKeys(u)') \in Nat /\ Cardinality(Inserting(u)') \in Nat
    BY CardinalityFacts, FS_Subset, FS_CardinalityType
  <1>2. QED
    BY <1>1, CardinalityFacts DEF KeysTaken

(* A key is added by a call that gives up its place. *)
LEMMA InsertTakesItsPlace ==
  ASSUME KeysTypeOK, NEW c \in Call, Insert(c), NEW u
  PROVE  KeysTaken(u)' <= KeysTaken(u) /\ KeysTaken(u)' \in Nat
  <1>1. PICK k \in Key : /\ state[k] = "unused"
                         /\ state' = [state EXCEPT ![k] = "active"]
                         /\ owner' = [owner EXCEPT ![k] = actor[c]]
    BY DEF Insert
  <1>2. pc[c] = "insert" /\ pc' = [pc EXCEPT ![c] = "done"] /\ actor' = actor
    BY DEF Insert, Respond, Goto
  <1>3. CASE u # actor[c]
    <2>1. ActiveKeys(u)' \subseteq ActiveKeys(u) /\ Inserting(u)' \subseteq Inserting(u)
      BY <1>1, <1>2, <1>3 DEF ActiveKeys, Inserting, KeysTypeOK
    <2>2. QED
      BY <2>1, NoPlaceTaken
  <1>4. CASE u = actor[c]
    <2>1. /\ ActiveKeys(u)' = ActiveKeys(u) \union {k} /\ k \notin ActiveKeys(u)
          /\ Inserting(u)' = Inserting(u) \ {c} /\ c \in Inserting(u)
      BY <1>1, <1>2, <1>4 DEF ActiveKeys, Inserting, KeysTypeOK
    <2>2. /\ Cardinality(ActiveKeys(u)') = Cardinality(ActiveKeys(u)) + 1
          /\ Cardinality(Inserting(u)') = Cardinality(Inserting(u)) - 1
      <3>1. IsFiniteSet(ActiveKeys(u)) /\ IsFiniteSet(Inserting(u))
        BY CardinalityFacts
      <3>2. Cardinality(ActiveKeys(u) \union {k}) = Cardinality(ActiveKeys(u)) + 1
        BY <2>1, <3>1, FS_AddElement
      <3>3. Cardinality(Inserting(u) \ {c}) = Cardinality(Inserting(u)) - 1
        BY <2>1, <3>1, FS_RemoveElement
      <3>4. QED
        BY <2>1, <3>2, <3>3
    <2>3. Cardinality(Inserting(u)) >= 1
      BY <2>1, CardinalityFacts, FS_EmptySet
    <2>4. QED
      BY <2>2, <2>3, CardinalityFacts DEF KeysTaken
  <1>5. QED
    BY <1>3, <1>4

(* The last call to pass the check found a key less than the limit. *)
LEMMA PlacesKept ==
  ASSUME KeysTypeOK, PlacesInv, [KeysNext]_keyVars
  PROVE  PlacesInv'
  <1> DEFINE bound == MaxKeys + Cardinality(Call) - 1
  <1> SUFFICES ASSUME NEW u \in User
               PROVE  KeysTaken(u)' <= bound
    BY DEF PlacesInv
  <1>0. KeysTaken(u) <= bound /\ KeysTaken(u) \in Nat /\ bound \in Nat
    BY CardinalityFacts DEF PlacesInv, KeysTaken
  <1> HIDE DEF bound
  <1>1. CASE ActiveKeys(u)' \subseteq ActiveKeys(u) /\ Inserting(u)' \subseteq Inserting(u)
    BY <1>0, <1>1, NoPlaceTaken
  <1>2. ASSUME NEW c \in Call, Insert(c)
        PROVE  KeysTaken(u)' <= bound
    BY <1>0, <1>2, InsertTakesItsPlace
  <1>3. ASSUME NEW c \in Call, Count(c), actor[c] = u, pc'[c] = "insert"
        PROVE  KeysTaken(u)' <= bound
    <2>1. Cardinality(ActiveKeys(u)) < MaxKeys /\ ActiveKeys(u)' = ActiveKeys(u)
      BY <1>3 DEF Count, ActiveKeys, Respond, Goto, keys, KeysTypeOK
    <2>2. Inserting(u)' \subseteq Call
      BY DEF Inserting
    <2>3. Cardinality(Inserting(u)') <= Cardinality(Call) /\ Cardinality(Inserting(u)') \in Nat
      BY <2>2, KeyLimits, FS_Subset, FS_CardinalityType
    <2>4. QED
      BY <2>1, <2>3, CardinalityFacts DEF KeysTaken, bound
  <1>4. ASSUME NEW c \in Call,
               Receive(c) \/ Authenticate(c) \/ Handle(c) \/ QueryFails(c),
               ~Insert(c), ~(Count(c) /\ actor[c] = u /\ pc'[c] = "insert")
        PROVE  ActiveKeys(u)' \subseteq ActiveKeys(u) /\ Inserting(u)' \subseteq Inserting(u)
    <2>1. ActiveKeys(u)' \subseteq ActiveKeys(u)
      BY <1>4, KeySteps DEF ActiveKeys
    <2>2. \A d \in Call : d # c => pc'[d] = pc[d] /\ actor'[d] = actor[d]
      BY <1>4 DEF Receive, Authenticate, LookUp, Compare, Exhaust,
             Handle, Use, Count, Find, Update, QueryFails,
             Respond, Goto, KeysTypeOK
    <2>3. pc'[c] = "insert" => Count(c) /\ actor'[c] = actor[c]
      BY <1>4 DEF Receive, Authenticate, LookUp, Compare, Exhaust,
             Handle, Use, Count, Find, Update, QueryFails,
             Respond, Goto, Handler, KeysTypeOK
    <2>4. QED
      BY <1>4, <2>1, <2>2, <2>3 DEF Inserting
  <1>5. CASE UNCHANGED keyVars
    BY <1>1, <1>5 DEF keyVars, keys, ActiveKeys, Inserting
  <1>6. QED
    BY <1>1, <1>2, <1>3, <1>4, <1>5 DEF KeysNext

(* Calls that race for the last key add at most one key more for each of   *)
(* them but one.                                                           *)
THEOREM OvershootStaysBounded == KeysSpec => []OvershootIsBounded
  <1>1. KeysInit => PlacesInv
    <2> SUFFICES ASSUME KeysInit, NEW u \in User
                 PROVE  KeysTaken(u) <= MaxKeys + Cardinality(Call) - 1
      BY DEF PlacesInv
    <2>1. ActiveKeys(u) = ActiveAtStart(u) /\ Inserting(u) = {}
      BY ApiKeysAssumption DEF KeysInit, ActiveKeys, ActiveAtStart, Inserting
    <2>2. Cardinality(ActiveKeys(u)) <= MaxKeys /\ Cardinality(Inserting(u)) = 0
      BY <2>1, KeyLimits, FS_EmptySet
    <2>3. QED
      BY <2>2, CardinalityFacts DEF KeysTaken
  <1>2. KeysInv /\ PlacesInv /\ [KeysNext]_keyVars => PlacesInv'
    BY PlacesKept DEF KeysInv
  <1>3. KeysInv /\ PlacesInv => OvershootIsBounded
    <2> SUFFICES ASSUME KeysInv, PlacesInv, NEW u \in User
                 PROVE  Cardinality(ActiveKeys(u)) <= MaxKeys + Cardinality(Call) - 1
      BY DEF OvershootIsBounded
    <2>1. QED
      BY CardinalityFacts DEF KeysInv, PlacesInv, KeysTaken
  <1>4. QED
    BY <1>1, <1>2, <1>3, KeysInvariantHolds, PTL DEF KeysSpec, keyVars

-----------------------------------------------------------------------------
(* The rate limiter.                                                       *)

(* The windows that the last clean-up left open had not ended then, and it *)
(* ran a period before the next one is due.                                *)
SweepInv ==
  /\ now \in Nat /\ due \in Nat
  /\ now <= due + Lag /\ now >= due - WindowMs
  /\ DOMAIN store = Bucket
  /\ \A b \in Bucket : store[b] # NoEntry =>
       store[b].resetTime \in Nat /\ store[b].resetTime > due - WindowMs

LEMMA HitFacts ==
  ASSUME SweepInv, NEW b \in Bucket
  PROVE  /\ Hit(b).resetTime \in Nat
         /\ Hit(b).resetTime > due - WindowMs
  <1>1. WindowMs \in Nat /\ WindowMs > 0 /\ Lag \in Nat
    BY RateLimiterAssumption
  <1>2. CASE store[b] = NoEntry \/ Expired(b)
    BY <1>1, <1>2 DEF SweepInv, Hit
  <1>3. CASE ~(store[b] = NoEntry \/ Expired(b))
    <2>1. Hit(b).resetTime = store[b].resetTime
      BY <1>3 DEF Hit
    <2> QED BY <1>3, <2>1 DEF SweepInv
  <1> QED BY <1>2, <1>3

LEMMA SweepInit == Init => SweepInv
  BY RateLimiterAssumption DEF Init, SweepInv

LEMMA SweepNext == SweepInv /\ [Next]_vars => SweepInv'
  <1> SUFFICES ASSUME SweepInv, [Next]_vars PROVE SweepInv'
    OBVIOUS
  <1>1. WindowMs \in Nat /\ WindowMs > 0 /\ Lag \in Nat
    BY RateLimiterAssumption
  <1>2. CASE Tick
    BY <1>1, <1>2 DEF Tick, SweepInv
  <1>3. CASE CleanUp
    <2>1. /\ now' = now /\ due' = now + WindowMs /\ now >= due
          /\ store' = [b \in Bucket |-> IF store[b] # NoEntry /\ Expired(b) THEN NoEntry ELSE store[b]]
      BY <1>3 DEF CleanUp
    <2>2. ASSUME NEW b \in Bucket, store'[b] # NoEntry
          PROVE  store'[b].resetTime \in Nat /\ store'[b].resetTime > due' - WindowMs
      <3>1. store'[b] = store[b] /\ store[b] # NoEntry /\ ~Expired(b)
        BY <2>1, <2>2
      <3>2. store[b].resetTime \in Nat /\ now < store[b].resetTime
        BY <3>1 DEF SweepInv, Expired
      <3> QED BY <1>1, <2>1, <3>1, <3>2 DEF SweepInv
    <2> QED BY <1>1, <2>1, <2>2 DEF SweepInv
  <1>4. ASSUME NEW a \in Address, NEW login \in BOOLEAN, Request(a, login)
        PROVE  SweepInv'
    <2> DEFINE met == IF ~login THEN {<<"ip", a>>}
                      ELSE IF Exceeds(<<"auth", a>>) THEN {<<"auth", a>>}
                      ELSE {<<"ip", a>>, <<"auth", a>>}
    <2>1. /\ now' = now /\ due' = due
          /\ store' = [b \in Bucket |-> IF b \in met THEN Hit(b) ELSE store[b]]
      BY <1>4 DEF Request
    <2> HIDE DEF met
    <2>2. ASSUME NEW b \in Bucket, store'[b] # NoEntry
          PROVE  store'[b].resetTime \in Nat /\ store'[b].resetTime > due' - WindowMs
      BY <2>1, <2>2, HitFacts DEF SweepInv
    <2> QED BY <2>1, <2>2 DEF SweepInv
  <1>5. CASE UNCHANGED vars
    BY <1>5 DEF vars, SweepInv
  <1> QED BY <1>2, <1>3, <1>4, <1>5 DEF Next

(* The store holds no entry longer than a period of the clean-up and its   *)
(* lag after its window: rateLimiter.ts leaks no memory however many       *)
(* clients come by, and the bound is exact.                                *)
THEOREM StoreStaysSwept == Spec => []StoreIsSwept
  <1>1. SweepInv => StoreIsSwept
    <2> SUFFICES ASSUME SweepInv, NEW b \in Bucket, store[b] # NoEntry
                 PROVE  now < store[b].resetTime + WindowMs + Lag
      BY DEF StoreIsSwept
    <2>1. WindowMs \in Nat /\ Lag \in Nat
      BY RateLimiterAssumption
    <2> QED BY <2>1 DEF SweepInv
  <1> QED BY <1>1, SweepInit, SweepNext, PTL DEF Spec

-----------------------------------------------------------------------------
(* What passes in a window's length of time.  The requests let through up  *)
(* to a window ago are those of the window that is open and those of the   *)
(* one before it, which has lost its opener since it is over.              *)
Start(b) == store[b].resetTime - WindowMs
Inside(b) == {e \in recent[b] : e[1] >= Start(b)}
Before(b) == {e \in recent[b] : e[1] < Start(b)}

EntryType == [count : Nat \ {0}, resetTime : Nat \ {0}]

CountInv ==
  /\ now \in Nat /\ sent \in Nat
  /\ store \in [Bucket -> EntryType \union {NoEntry}]
  /\ recent \in [Bucket -> SUBSET (Nat \X Nat)]
  /\ \A b \in Bucket :
       /\ IsFiniteSet(recent[b])
       /\ \A e \in recent[b] : e[1] <= now /\ e[1] > now - WindowMs
       /\ store[b] # NoEntry =>
            store[b].count <= sent /\ store[b].resetTime <= now + WindowMs

ClosedInv(b) ==
  /\ \A e \in recent[b] : e[1] < now
  /\ Cardinality(recent[b]) <= Limit(b) - 1

OpenInv(b) ==
  /\ \A e \in recent[b] : e[1] < store[b].resetTime
  /\ \A e \in Inside(b) : e[2] <= store[b].count
  /\ <<Start(b), 1>> \in recent[b]
  /\ Cardinality(Before(b)) <= Limit(b) - 1
  /\ Cardinality(Inside(b)) = IF store[b].count <= Limit(b) THEN store[b].count ELSE Limit(b)

(* No window is open: there is no entry, or an expired one. *)
Closed(b) == store[b] = NoEntry \/ Expired(b)

WindowInv == \A b \in Bucket : IF Closed(b) THEN ClosedInv(b) ELSE OpenInv(b)

LEMMA Constants ==
  /\ MaxRequests \in Nat /\ MaxAuth \in Nat /\ WindowMs \in Nat /\ MaxSent \in Nat
  /\ MaxRequests > 0 /\ MaxAuth > 0 /\ WindowMs > 0 /\ MaxSent > 0
  /\ Second \in Nat /\ Second > 0 /\ Horizon \in Nat /\ Lag \in Nat
  BY RateLimiterAssumption

LEMMA LimitType == ASSUME NEW b \in Bucket PROVE Limit(b) \in Nat /\ Limit(b) >= 1
  BY Constants DEF Limit

(* What one more request makes of an entry. *)
LEMMA HitCases ==
  ASSUME CountInv, NEW b \in Bucket
  PROVE  /\ Closed(b) => Hit(b) = [count |-> 1, resetTime |-> now + WindowMs]
         /\ ~Closed(b) => /\ store[b] \in EntryType
                          /\ Hit(b) = [count |-> store[b].count + 1,
                                       resetTime |-> store[b].resetTime]
                          /\ now < store[b].resetTime
         /\ Hit(b) \in EntryType /\ Hit(b) # NoEntry
         /\ Hit(b).resetTime <= now + WindowMs
         /\ Hit(b).count <= sent + 1
  <1>1. CASE Closed(b)
    <2>1. Hit(b) = [count |-> 1, resetTime |-> now + WindowMs]
      BY <1>1 DEF Closed, Hit
    <2>2. Hit(b).count = 1 /\ Hit(b).resetTime = now + WindowMs
      BY <2>1
    <2>3. now + WindowMs \in Nat \ {0} /\ 1 \in Nat \ {0} /\ 1 <= sent + 1
      BY Constants DEF CountInv
    <2>4. Hit(b) # NoEntry
      BY <2>2 DEF NoEntry
    <2> QED BY <1>1, <2>1, <2>2, <2>3, <2>4 DEF EntryType
  <1>2. CASE ~Closed(b)
    <2>1. store[b] \in EntryType /\ store[b] # NoEntry
      BY <1>2 DEF Closed, CountInv
    <2>2. Hit(b) = [store[b] EXCEPT !.count = store[b].count + 1]
      BY <1>2 DEF Closed, Hit
    <2>3. Hit(b) = [count |-> store[b].count + 1, resetTime |-> store[b].resetTime]
      BY <2>1, <2>2 DEF EntryType
    <2>4. store[b].count \in Nat \ {0} /\ store[b].resetTime \in Nat \ {0}
      BY <2>1 DEF EntryType
    <2>5. Hit(b).count = store[b].count + 1 /\ Hit(b).resetTime = store[b].resetTime
      BY <2>3
    <2>6. Hit(b) # NoEntry
      BY <2>4, <2>5 DEF NoEntry
    <2>7. now < store[b].resetTime
      BY <1>2, <2>4 DEF Closed, Expired, CountInv
    <2>8. store[b].count <= sent /\ store[b].resetTime <= now + WindowMs
      BY <2>1 DEF CountInv
    <2> QED BY <1>2, <2>1, <2>3, <2>4, <2>5, <2>6, <2>7, <2>8 DEF EntryType, CountInv
  <1> QED BY <1>1, <1>2

(* One request under the limiters it meets. *)
Met(a, login) ==
  IF ~login THEN {<<"ip", a>>}
  ELSE IF Exceeds(<<"auth", a>>) THEN {<<"auth", a>>}
  ELSE {<<"ip", a>>, <<"auth", a>>}

LEMMA RequestFacts ==
  ASSUME NEW a \in Address, NEW login \in BOOLEAN, Request(a, login)
  PROVE  /\ Met(a, login) \subseteq Bucket
         /\ sent < MaxSent /\ sent' = sent + 1 /\ now' = now /\ due' = due
         /\ store' = [b \in Bucket |-> IF b \in Met(a, login) THEN Hit(b) ELSE store[b]]
         /\ recent' = [b \in Bucket |->
                         IF b \in Met(a, login) /\ ~Exceeds(b)
                         THEN recent[b] \union {<<now, Hit(b).count>>} ELSE recent[b]]
         /\ refuser' # NoBucket => refuser' \in Met(a, login) /\ Exceeds(refuser')
         /\ refuser' \in Bucket \union {NoBucket}
  <1> DEFINE met == Met(a, login)
             full == {b \in met : Exceeds(b)}
  <1>1. met \subseteq Bucket
    BY DEF Met, Bucket
  <1>2. /\ sent < MaxSent /\ sent' = sent + 1 /\ now' = now /\ due' = due
        /\ store' = [b \in Bucket |-> IF b \in met THEN Hit(b) ELSE store[b]]
        /\ refuser' = IF full = {} THEN NoBucket ELSE CHOOSE b \in full : TRUE
        /\ recent' = [b \in Bucket |-> IF b \in met \ full
                                       THEN recent[b] \union {<<now, Hit(b).count>>}
                                       ELSE recent[b]]
    BY DEF Request, Met
  <1> HIDE DEF met
  <1>3. full # {} => (CHOOSE b \in full : TRUE) \in full
    OBVIOUS
  <1>4. refuser' # NoBucket => refuser' \in full
    BY <1>2, <1>3
  <1>5. \A b \in Bucket : b \in met \ full <=> b \in met /\ ~Exceeds(b)
    OBVIOUS
  <1>6. recent' = [b \in Bucket |-> IF b \in met /\ ~Exceeds(b)
                                    THEN recent[b] \union {<<now, Hit(b).count>>}
                                    ELSE recent[b]]
    BY <1>2, <1>5
  <1>7. refuser' \in Bucket \union {NoBucket}
    BY <1>1, <1>2, <1>4
  <1> QED BY <1>1, <1>2, <1>4, <1>6, <1>7 DEF met

LEMMA CountInit == Init => CountInv /\ WindowInv
  <1> SUFFICES ASSUME Init PROVE CountInv /\ WindowInv
    OBVIOUS
  <1>1. CountInv
    BY FS_EmptySet DEF Init, CountInv
  <1>2. ASSUME NEW b \in Bucket PROVE Closed(b) /\ ClosedInv(b)
    BY LimitType, FS_EmptySet DEF Init, Closed, ClosedInv
  <1> QED BY <1>1, <1>2 DEF WindowInv

LEMMA CountNext == CountInv /\ [Next]_vars => CountInv'
  <1> SUFFICES ASSUME CountInv, [Next]_vars PROVE CountInv'
    OBVIOUS
  <1> USE Constants
  <1>1. CASE Tick
    <2>1. /\ now' = now + 1 /\ store' = store /\ sent' = sent
          /\ recent' = [b \in Bucket |-> {e \in recent[b] : e[1] > now' - WindowMs}]
      BY <1>1 DEF Tick
    <2>2. ASSUME NEW b \in Bucket
          PROVE  /\ recent'[b] \in SUBSET recent[b]
                 /\ IsFiniteSet(recent'[b])
                 /\ \A e \in recent'[b] : e[1] <= now' /\ e[1] > now' - WindowMs
                 /\ store'[b] # NoEntry =>
                      store'[b].count <= sent' /\ store'[b].resetTime <= now' + WindowMs
      <3>1. recent'[b] = {e \in recent[b] : e[1] > now' - WindowMs}
        BY <2>1
      <3>2. recent'[b] \in SUBSET recent[b]
        BY <3>1
      <3>3. IsFiniteSet(recent[b]) /\ recent[b] \in SUBSET (Nat \X Nat)
        BY DEF CountInv
      <3>4. IsFiniteSet(recent'[b])
        BY <3>2, <3>3, FS_Subset
      <3>5. \A e \in recent'[b] : e[1] <= now' /\ e[1] > now' - WindowMs
        BY <2>1, <3>1, <3>3 DEF CountInv
      <3>6. store[b] # NoEntry => store[b].resetTime \in Nat
        BY DEF CountInv, EntryType
      <3>7. store'[b] # NoEntry =>
              store'[b].count <= sent' /\ store'[b].resetTime <= now' + WindowMs
        BY <2>1, <3>6 DEF CountInv
      <3> QED BY <3>2, <3>4, <3>5, <3>7
    <2>3. recent' \in [Bucket -> SUBSET (Nat \X Nat)]
      BY <2>1 DEF CountInv
    <2>4. now' \in Nat /\ sent' \in Nat /\ store' \in [Bucket -> EntryType \union {NoEntry}]
      BY <2>1 DEF CountInv
    <2> QED BY <2>2, <2>3, <2>4 DEF CountInv
  <1>2. CASE CleanUp
    <2>1. /\ now' = now /\ recent' = recent /\ sent' = sent
          /\ store' = [b \in Bucket |-> IF store[b] # NoEntry /\ Expired(b)
                                        THEN NoEntry ELSE store[b]]
      BY <1>2 DEF CleanUp
    <2>2. store' \in [Bucket -> EntryType \union {NoEntry}]
      BY <2>1 DEF CountInv
    <2>3. \A b \in Bucket : store'[b] # NoEntry => store'[b] = store[b]
      BY <2>1
    <2> QED BY <2>1, <2>2, <2>3 DEF CountInv
  <1>3. ASSUME NEW a \in Address, NEW login \in BOOLEAN, Request(a, login)
        PROVE  CountInv'
    <2>1. /\ sent' = sent + 1 /\ now' = now
          /\ store' = [b \in Bucket |-> IF b \in Met(a, login) THEN Hit(b) ELSE store[b]]
          /\ recent' = [b \in Bucket |->
                          IF b \in Met(a, login) /\ ~Exceeds(b)
                          THEN recent[b] \union {<<now, Hit(b).count>>} ELSE recent[b]]
      BY <1>3, RequestFacts
    <2>2. ASSUME NEW b \in Bucket
          PROVE  /\ recent'[b] \in SUBSET (Nat \X Nat)
                 /\ store'[b] \in EntryType \union {NoEntry}
                 /\ IsFiniteSet(recent'[b])
                 /\ \A e \in recent'[b] : e[1] <= now' /\ e[1] > now' - WindowMs
                 /\ store'[b] # NoEntry =>
                      store'[b].count <= sent' /\ store'[b].resetTime <= now' + WindowMs
      <3>1. Hit(b) \in EntryType /\ Hit(b).resetTime <= now + WindowMs /\ Hit(b).count <= sent + 1
        BY HitCases
      <3>2. Hit(b).count \in Nat
        BY <3>1 DEF EntryType
      <3>3. /\ IsFiniteSet(recent[b]) /\ recent[b] \in SUBSET (Nat \X Nat)
            /\ \A e \in recent[b] : e[1] <= now /\ e[1] > now - WindowMs
            /\ now \in Nat /\ sent \in Nat
            /\ store[b] \in EntryType \union {NoEntry}
            /\ store[b] # NoEntry =>
                 store[b].count <= sent /\ store[b].resetTime <= now + WindowMs
        BY DEF CountInv
      <3>4. IsFiniteSet(recent[b] \union {<<now, Hit(b).count>>})
        BY <3>3, FS_AddElement
      <3>5. \/ recent'[b] = recent[b]
            \/ recent'[b] = recent[b] \union {<<now, Hit(b).count>>}
        BY <2>1
      <3>6. IsFiniteSet(recent'[b])
        BY <3>3, <3>4, <3>5
      <3>7. recent'[b] \in SUBSET (Nat \X Nat)
        BY <3>2, <3>3, <3>5
      <3>8. \A e \in recent'[b] : e[1] <= now' /\ e[1] > now' - WindowMs
        BY <2>1, <3>3, <3>5
      <3>9. store'[b] = Hit(b) \/ store'[b] = store[b]
        BY <2>1
      <3>10. store[b] # NoEntry => store[b].count \in Nat
        BY <3>3 DEF EntryType
      <3>11. store'[b] # NoEntry =>
               store'[b].count <= sent' /\ store'[b].resetTime <= now' + WindowMs
        BY <2>1, <3>1, <3>3, <3>9, <3>10
      <3> QED BY <3>1, <3>3, <3>6, <3>7, <3>8, <3>9, <3>11
    <2>3. store' \in [Bucket -> EntryType \union {NoEntry}]
          /\ recent' \in [Bucket -> SUBSET (Nat \X Nat)]
      BY <2>1, <2>2
    <2>4. now' \in Nat /\ sent' \in Nat
      BY <2>1 DEF CountInv
    <2> QED BY <2>2, <2>3, <2>4 DEF CountInv
  <1>4. CASE UNCHANGED vars
    BY <1>4 DEF vars, CountInv
  <1> QED BY <1>1, <1>2, <1>3, <1>4 DEF Next

(* A tick takes from the window the requests that are now a window old:    *)
(* if it is the one that closes the window, the opener among them.         *)
LEMMA WindowTick ==
  ASSUME CountInv, WindowInv, Tick, NEW b \in Bucket
  PROVE  IF Closed(b)' THEN ClosedInv(b)' ELSE OpenInv(b)'
  <1> USE Constants
  <1>1. /\ now' = now + 1 /\ store' = store /\ now \in Nat
        /\ recent'[b] = {e \in recent[b] : e[1] > now' - WindowMs}
        /\ IsFiniteSet(recent[b]) /\ recent[b] \in SUBSET (Nat \X Nat)
        /\ \A e \in recent[b] : e[1] <= now /\ e[1] > now - WindowMs
        /\ store[b] \in EntryType \union {NoEntry}
        /\ store[b] # NoEntry => store[b].resetTime <= now + WindowMs
    BY DEF Tick, CountInv
  <1>2. recent'[b] \in SUBSET recent[b]
    BY <1>1
  <1>3. /\ IsFiniteSet(recent'[b]) /\ Cardinality(recent'[b]) <= Cardinality(recent[b])
        /\ Cardinality(recent[b]) \in Nat /\ Cardinality(recent'[b]) \in Nat
    BY <1>1, <1>2, FS_Subset, FS_CardinalityType
  <1>4. Limit(b) \in Nat /\ Limit(b) >= 1
    BY LimitType
  <1>5. Limit(b)' = Limit(b)
    BY DEF Limit
  <1>6. CASE Closed(b)
    <2>1. Closed(b)'
      <3>1. CASE store[b] = NoEntry
        BY <1>1, <3>1 DEF Closed
      <3>2. CASE store[b] # NoEntry
        BY <1>1, <1>6, <3>2 DEF Closed, Expired, EntryType
      <3> QED BY <3>1, <3>2
    <2>2. ClosedInv(b)
      BY <1>6 DEF WindowInv
    <2>3. ClosedInv(b)'
      BY <1>1, <1>2, <1>3, <1>4, <1>5, <2>2 DEF ClosedInv
    <2> QED BY <2>1, <2>3
  <1>7. CASE ~Closed(b)
    <2>1. /\ OpenInv(b) /\ store[b] # NoEntry /\ now < store[b].resetTime
          /\ store[b].resetTime \in Nat /\ store[b].count \in Nat \ {0}
      BY <1>1, <1>7 DEF WindowInv, Closed, Expired, EntryType
    <2>2. Start(b)' = Start(b) /\ Start(b) \in Int /\ Start(b) <= now
      BY <1>1, <2>1 DEF Start
    <2>3. Inside(b) \in SUBSET recent[b] /\ Before(b) \in SUBSET recent[b]
      BY DEF Inside, Before
    <2>4. /\ IsFiniteSet(Inside(b)) /\ IsFiniteSet(Before(b))
          /\ Cardinality(Inside(b)) \in Nat /\ Cardinality(Before(b)) \in Nat
      BY <1>1, <2>3, FS_Subset, FS_CardinalityType
    <2>5. CASE now + 1 = store[b].resetTime
      <3>1. Closed(b)'
        BY <1>1, <2>1, <2>5 DEF Closed, Expired
      <3>2. recent'[b] \in SUBSET (Inside(b) \ {<<Start(b), 1>>})
        <4>1. SUFFICES ASSUME NEW e \in recent'[b]
                       PROVE  e \in Inside(b) /\ e # <<Start(b), 1>>
          OBVIOUS
        <4>2. e \in recent[b] /\ e[1] > now + 1 - WindowMs /\ e \in Nat \X Nat
          BY <1>1
        <4>3. e[1] > Start(b)
          <5>1. e[1] > now + 1 - WindowMs
            BY <4>2
          <5>2. Start(b) = store[b].resetTime - WindowMs
            BY DEF Start
          <5>3. e[1] \in Nat
            BY <4>2
          <5> QED BY <1>1, <2>1, <2>5, <5>1, <5>2, <5>3
        <4>4. e[1] # Start(b)
          BY <2>2, <4>2, <4>3
        <4> QED BY <2>2, <4>2, <4>3, <4>4 DEF Inside
      <3>3. <<Start(b), 1>> \in Inside(b)
        BY <2>1, <2>2 DEF OpenInv, Inside
      <3>4. /\ IsFiniteSet(Inside(b) \ {<<Start(b), 1>>})
            /\ Cardinality(Inside(b) \ {<<Start(b), 1>>}) = Cardinality(Inside(b)) - 1
        BY <2>4, <3>3, FS_RemoveElement
      <3>5. Cardinality(recent'[b]) <= Cardinality(Inside(b)) - 1
        BY <3>2, <3>4, FS_Subset
      <3>6. Cardinality(Inside(b)) <= Limit(b)
        BY <1>4, <2>1 DEF OpenInv
      <3>7. Cardinality(recent'[b]) <= Limit(b)' - 1
        BY <1>3, <1>4, <1>5, <2>4, <3>5, <3>6
      <3>8. \A e \in recent'[b] : e[1] < now'
        BY <1>1
      <3> QED BY <3>1, <3>7, <3>8 DEF ClosedInv
    <2>6. CASE now + 1 < store[b].resetTime
      <3>1. ~Closed(b)'
        BY <1>1, <2>1, <2>6 DEF Closed, Expired
      <3>2. Inside(b)' = Inside(b)
        <4>1. ASSUME NEW e \in Inside(b)
              PROVE  e \in recent'[b]
          BY <1>1, <2>1, <2>2, <2>6, <4>1 DEF Inside, Start
        <4>2. Inside(b)' = {e \in recent'[b] : e[1] >= Start(b)}
          BY <2>2 DEF Inside
        <4> QED BY <1>2, <4>1, <4>2 DEF Inside
      <3>3. Before(b)' \in SUBSET Before(b)
        BY <1>2, <2>2 DEF Before
      <3>4. IsFiniteSet(Before(b)') /\ Cardinality(Before(b)') <= Cardinality(Before(b))
            /\ Cardinality(Before(b)') \in Nat
        BY <2>4, <3>3, FS_Subset, FS_CardinalityType
      <3>5. <<Start(b), 1>> \in recent'[b]
        <4>1. <<Start(b), 1>> \in Inside(b)
          BY <2>1, <2>2 DEF OpenInv, Inside
        <4> QED BY <3>2, <4>1 DEF Inside
      <3>6. Cardinality(Before(b)') <= Limit(b) - 1
        BY <1>4, <2>1, <2>4, <3>4 DEF OpenInv
      <3>7. \A e \in recent'[b] : e[1] < store'[b].resetTime
        BY <1>1, <1>2, <2>1 DEF OpenInv
      <3>8. \A e \in Inside(b)' : e[2] <= store'[b].count
        BY <1>1, <2>1, <3>2 DEF OpenInv
      <3>9. Cardinality(Inside(b)') = IF store'[b].count <= Limit(b)
                                      THEN store'[b].count ELSE Limit(b)
        BY <1>1, <2>1, <3>2 DEF OpenInv
      <3> QED BY <1>5, <2>2, <3>1, <3>5, <3>6, <3>7, <3>8, <3>9 DEF OpenInv
    <2> QED BY <1>1, <2>1, <2>5, <2>6
  <1> QED BY <1>6, <1>7

(* The clean-up removes what is over already. *)
LEMMA WindowCleanUp ==
  ASSUME CountInv, WindowInv, CleanUp, NEW b \in Bucket
  PROVE  IF Closed(b)' THEN ClosedInv(b)' ELSE OpenInv(b)'
  <1>1. /\ now' = now /\ recent' = recent
        /\ store'[b] = IF store[b] # NoEntry /\ Expired(b) THEN NoEntry ELSE store[b]
    BY DEF CleanUp
  <1>2. Closed(b)' <=> Closed(b)
    BY <1>1 DEF Closed, Expired
  <1>3. CASE Closed(b)
    BY <1>1, <1>2, <1>3 DEF WindowInv, ClosedInv, Limit
  <1>4. CASE ~Closed(b)
    <2>1. store'[b] = store[b]
      BY <1>1, <1>4 DEF Closed
    <2> QED BY <1>1, <1>2, <1>4, <2>1 DEF WindowInv, OpenInv, Inside, Before, Start, Limit
  <1> QED BY <1>3, <1>4

(* A request opens a window, or is counted in the open one.                *)
LEMMA WindowRequest ==
  ASSUME CountInv, WindowInv, NEW a \in Address, NEW login \in BOOLEAN, Request(a, login),
         NEW b \in Bucket
  PROVE  IF Closed(b)' THEN ClosedInv(b)' ELSE OpenInv(b)'
  <1> USE Constants
  <1>1. /\ now' = now /\ now \in Nat
        /\ store'[b] = IF b \in Met(a, login) THEN Hit(b) ELSE store[b]
        /\ recent'[b] = IF b \in Met(a, login) /\ ~Exceeds(b)
                        THEN recent[b] \union {<<now, Hit(b).count>>} ELSE recent[b]
    <2>1. /\ now' = now
          /\ store' = [c \in Bucket |-> IF c \in Met(a, login) THEN Hit(c) ELSE store[c]]
          /\ recent' = [c \in Bucket |->
                          IF c \in Met(a, login) /\ ~Exceeds(c)
                          THEN recent[c] \union {<<now, Hit(c).count>>} ELSE recent[c]]
      BY RequestFacts
    <2>2. now \in Nat
      BY DEF CountInv
    <2> QED BY <2>1, <2>2
  <1>2. /\ IsFiniteSet(recent[b]) /\ recent[b] \in SUBSET (Nat \X Nat)
        /\ \A e \in recent[b] : e[1] <= now
    BY DEF CountInv
  <1>3. Limit(b) \in Nat /\ Limit(b) >= 1 /\ Limit(b)' = Limit(b)
    BY LimitType DEF Limit
  <1>4. CASE b \notin Met(a, login)
    <2>1. store'[b] = store[b] /\ recent'[b] = recent[b]
      BY <1>1, <1>4
    <2>2. Closed(b)' <=> Closed(b)
      BY <1>1, <2>1 DEF Closed, Expired
    <2> QED BY <1>1, <1>3, <2>1, <2>2
            DEF WindowInv, ClosedInv, OpenInv, Inside, Before, Start
  <1>5. CASE b \in Met(a, login) /\ Closed(b)
    <2>1. Hit(b) = [count |-> 1, resetTime |-> now + WindowMs]
          /\ Hit(b).count = 1 /\ Hit(b) # NoEntry
      BY <1>5, HitCases
    <2>2. ~Exceeds(b)
      BY <1>3, <2>1 DEF Exceeds
    <2>3. store'[b] = Hit(b) /\ recent'[b] = recent[b] \union {<<now, 1>>}
      BY <1>1, <1>5, <2>1, <2>2
    <2>4. store'[b].resetTime = now + WindowMs /\ store'[b].count = 1
      BY <2>1, <2>3
    <2>5. ~Closed(b)'
      BY <1>1, <2>1, <2>3, <2>4 DEF Closed, Expired
    <2>6. Start(b)' = now
      BY <1>1, <2>4 DEF Start
    <2>7. ClosedInv(b)
      BY <1>5 DEF WindowInv
    <2>8. Inside(b)' = {<<now, 1>>}
      <3>1. Inside(b)' = {e \in recent'[b] : e[1] >= now}
        BY <2>6 DEF Inside
      <3>2. \A e \in recent[b] : ~(e[1] >= now)
        BY <1>1, <1>2, <2>7 DEF ClosedInv
      <3> QED BY <1>1, <2>3, <3>1, <3>2
    <2>9. Cardinality(Inside(b)') = 1
      BY <2>8, FS_Singleton
    <2>10. Before(b)' \in SUBSET recent[b]
      BY <1>1, <2>3, <2>6 DEF Before
    <2>11. /\ Cardinality(Before(b)') \in Nat /\ Cardinality(recent[b]) \in Nat
           /\ Cardinality(Before(b)') <= Cardinality(recent[b])
      BY <1>2, <2>10, FS_Subset, FS_CardinalityType
    <2>12. Cardinality(Before(b)') <= Limit(b) - 1
      BY <1>3, <2>7, <2>11 DEF ClosedInv
    <2>13. \A e \in recent'[b] : e[1] < store'[b].resetTime
      BY <1>1, <1>2, <2>3, <2>4
    <2>14. <<Start(b)', 1>> \in recent'[b]
      BY <2>3, <2>6
    <2>15. \A e \in Inside(b)' : e[2] <= store'[b].count
      BY <2>4, <2>8
    <2>16. Cardinality(Inside(b)') = IF store'[b].count <= Limit(b)
                                     THEN store'[b].count ELSE Limit(b)
      BY <1>3, <2>4, <2>9
    <2> QED BY <1>3, <2>5, <2>12, <2>13, <2>14, <2>15, <2>16 DEF OpenInv
  <1>6. CASE b \in Met(a, login) /\ ~Closed(b)
    <2>1. /\ store[b] \in EntryType
          /\ Hit(b) = [count |-> store[b].count + 1, resetTime |-> store[b].resetTime]
          /\ Hit(b) # NoEntry /\ now < store[b].resetTime
          /\ store[b].resetTime <= now + WindowMs
      <3>1. store[b] # NoEntry
        BY <1>6 DEF Closed
      <3> QED BY <1>6, <3>1, HitCases DEF CountInv
    <2>2. /\ store[b].count \in Nat \ {0} /\ store[b].resetTime \in Nat
          /\ store'[b] = Hit(b)
          /\ store'[b].count = store[b].count + 1
          /\ store'[b].resetTime = store[b].resetTime
      BY <1>1, <1>6, <2>1 DEF EntryType
    <2>3. ~Closed(b)' /\ OpenInv(b)
      BY <1>1, <1>6, <2>1, <2>2 DEF Closed, Expired, WindowInv
    <2>4. Start(b)' = Start(b) /\ Start(b) \in Int /\ Start(b) <= now
      BY <1>1, <2>1, <2>2 DEF Start
    <2>5. Inside(b) \in SUBSET recent[b] /\ Before(b) \in SUBSET recent[b]
      BY DEF Inside, Before
    <2>6. IsFiniteSet(Inside(b)) /\ Cardinality(Inside(b)) \in Nat
      BY <1>2, <2>5, FS_Subset, FS_CardinalityType
    <2>7. CASE Exceeds(b)
      <3>1. recent'[b] = recent[b]
        BY <1>1, <2>7
      <3>2. store[b].count + 1 > Limit(b)
        BY <2>1, <2>7 DEF Exceeds
      <3>3. Inside(b)' = Inside(b) /\ Before(b)' = Before(b)
        BY <2>4, <3>1 DEF Inside, Before
      <3>4. Cardinality(Inside(b)') = IF store'[b].count <= Limit(b)
                                      THEN store'[b].count ELSE Limit(b)
        BY <1>3, <2>2, <2>3, <3>2, <3>3 DEF OpenInv
      <3>5. \A e \in Inside(b)' : e[2] <= store'[b].count
        BY <1>2, <2>2, <2>3, <2>5, <3>3 DEF OpenInv
      <3> QED BY <1>3, <2>2, <2>3, <2>4, <3>1, <3>3, <3>4, <3>5 DEF OpenInv
    <2>8. CASE ~Exceeds(b)
      <3> DEFINE new == <<now, store[b].count + 1>>
      <3>1. recent'[b] = recent[b] \union {new}
        BY <1>1, <1>6, <2>1, <2>8
      <3>2. store[b].count + 1 <= Limit(b)
        BY <1>3, <2>1, <2>2, <2>8 DEF Exceeds
      <3>3. Inside(b)' = Inside(b) \union {new}
        BY <2>4, <3>1 DEF Inside
      <3>4. Before(b)' = Before(b)
        BY <1>1, <2>4, <3>1 DEF Before
      <3>5. new \notin Inside(b)
        BY <2>2, <2>3 DEF OpenInv
      <3>6. Cardinality(Inside(b)') = Cardinality(Inside(b)) + 1
        <4> HIDE DEF new
        <4> QED BY <2>6, <3>3, <3>5, FS_AddElement
      <3>7. Cardinality(Inside(b)) = store[b].count
        BY <1>3, <2>2, <2>3, <3>2 DEF OpenInv
      <3>8. Cardinality(Inside(b)') = IF store'[b].count <= Limit(b)
                                      THEN store'[b].count ELSE Limit(b)
        BY <2>2, <3>2, <3>6, <3>7
      <3>9. \A e \in Inside(b)' : e[2] <= store'[b].count
        BY <1>2, <2>2, <2>3, <2>5, <3>3 DEF OpenInv
      <3>10. \A e \in recent'[b] : e[1] < store'[b].resetTime
        BY <2>1, <2>2, <2>3, <3>1 DEF OpenInv
      <3>11. <<Start(b)', 1>> \in recent'[b]
        BY <2>3, <2>4, <3>1 DEF OpenInv
      <3> QED BY <1>3, <2>3, <3>4, <3>8, <3>9, <3>10, <3>11 DEF OpenInv
    <2> QED BY <2>7, <2>8
  <1> QED BY <1>4, <1>5, <1>6

LEMMA WindowNext == CountInv /\ WindowInv /\ [Next]_vars => WindowInv'
  <1> SUFFICES ASSUME CountInv, WindowInv, [Next]_vars PROVE WindowInv'
    OBVIOUS
  <1>1. CASE Tick
    BY <1>1, WindowTick DEF WindowInv
  <1>2. CASE CleanUp
    BY <1>2, WindowCleanUp DEF WindowInv
  <1>3. ASSUME NEW a \in Address, NEW login \in BOOLEAN, Request(a, login)
        PROVE  WindowInv'
    BY <1>3, WindowRequest DEF WindowInv
  <1>4. CASE UNCHANGED vars
    BY <1>4 DEF vars, WindowInv, Closed, Expired, ClosedInv, OpenInv, Inside, Before, Start, Limit
  <1> QED BY <1>1, <1>2, <1>3, <1>4 DEF Next

LEMMA WindowsHold == Spec => [](CountInv /\ WindowInv)
  BY CountInit, CountNext, WindowNext, PTL DEF Spec

(* The limit holds per window; in a window's length of time at most twice  *)
(* the limit less one passes, for any limits and traffic: those of the     *)
(* window that is open, and those of the one before but for its opener.    *)
THEOREM BurstsStayBounded == Spec => []BurstIsBounded
  <1>1. CountInv /\ WindowInv => BurstIsBounded
    <2> SUFFICES ASSUME CountInv, WindowInv, NEW b \in Bucket
                 PROVE  Cardinality(recent[b]) <= 2 * Limit(b) - 1
      BY DEF BurstIsBounded
    <2>1. Limit(b) \in Nat /\ Limit(b) >= 1 /\ IsFiniteSet(recent[b])
      BY LimitType DEF CountInv
    <2>2. Cardinality(recent[b]) \in Nat
      BY <2>1, FS_CardinalityType
    <2>3. CASE Closed(b)
      BY <2>1, <2>2, <2>3 DEF WindowInv, ClosedInv
    <2>4. CASE ~Closed(b)
      <3>1. /\ OpenInv(b) /\ store[b].count \in Nat /\ store[b].resetTime \in Nat
            /\ recent[b] \in SUBSET (Nat \X Nat)
        BY <2>4 DEF WindowInv, Closed, CountInv, EntryType
      <3>2. Inside(b) \in SUBSET recent[b] /\ Before(b) \in SUBSET recent[b]
        BY DEF Inside, Before
      <3>3. /\ IsFiniteSet(Inside(b)) /\ IsFiniteSet(Before(b))
            /\ Cardinality(Inside(b)) \in Nat /\ Cardinality(Before(b)) \in Nat
        BY <2>1, <3>2, FS_Subset, FS_CardinalityType
      <3>4. recent[b] = Inside(b) \union Before(b) /\ Inside(b) \intersect Before(b) = {}
        <4>1. Start(b) \in Int
          BY <3>1, Constants DEF Start
        <4>2. \A e \in recent[b] : e[1] \in Nat
          BY <3>1
        <4> QED BY <4>1, <4>2 DEF Inside, Before
      <3>5. Cardinality(recent[b]) = Cardinality(Inside(b)) + Cardinality(Before(b))
        <4>1. Cardinality(Inside(b) \union Before(b)) =
                Cardinality(Inside(b)) + Cardinality(Before(b))
                  - Cardinality(Inside(b) \intersect Before(b))
          BY <3>3, FS_Union
        <4>2. Cardinality(Inside(b) \intersect Before(b)) = 0
          BY <3>4, FS_EmptySet
        <4> HIDE DEF Inside, Before
        <4> QED BY <3>3, <3>4, <4>1, <4>2
      <3>6. Cardinality(Inside(b)) <= Limit(b) /\ Cardinality(Before(b)) <= Limit(b) - 1
        BY <2>1, <3>1 DEF OpenInv
      <3> QED BY <2>1, <3>3, <3>5, <3>6
    <2> QED BY <2>3, <2>4
  <1> QED BY <1>1, WindowsHold, PTL

(* Whoever is refused sent, or shares an address with someone who sent, a  *)
(* full limit of requests less than a window ago.                          *)
THEOREM RefusalsHaveACause == Spec => RefusedForAReason
  <1>1. ASSUME CountInv, WindowInv, [Next]_vars
        PROVE  [sent' # sent /\ refuser' # NoBucket =>
                  Cardinality(recent[refuser']) >= Limit(refuser')]_vars
    <2> SUFFICES ASSUME Next, sent' # sent, refuser' # NoBucket
                 PROVE  Cardinality(recent[refuser']) >= Limit(refuser')
      BY <1>1
    <2>1. PICK a \in Address, login \in BOOLEAN : Request(a, login)
      BY DEF Next, Tick, CleanUp
    <2> DEFINE b == refuser'
    <2>2. b \in Bucket /\ Exceeds(b)
      BY <2>1, RequestFacts
    <2> HIDE DEF b
    <2>3. Limit(b) \in Nat /\ Limit(b) >= 1
      BY <2>2, LimitType
    <2>4. ~Closed(b)
      <3>1. SUFFICES ASSUME Closed(b) PROVE FALSE
        OBVIOUS
      <3>2. Hit(b).count = 1
        BY <1>1, <2>2, <3>1, HitCases
      <3> QED BY <2>2, <2>3, <3>2 DEF Exceeds
    <2>5. /\ OpenInv(b) /\ store[b].count \in Nat
          /\ Hit(b).count = store[b].count + 1
      BY <1>1, <2>2, <2>4, HitCases DEF WindowInv, EntryType
    <2>6. store[b].count + 1 > Limit(b)
      BY <2>2, <2>5 DEF Exceeds
    <2>7. Cardinality(Inside(b)) = Limit(b)
      BY <2>3, <2>5, <2>6 DEF OpenInv
    <2>8. Inside(b) \in SUBSET recent[b] /\ IsFiniteSet(recent[b])
      BY <1>1, <2>2 DEF Inside, CountInv
    <2>9. Cardinality(Inside(b)) <= Cardinality(recent[b]) /\ Cardinality(recent[b]) \in Nat
      BY <2>8, FS_Subset, FS_CardinalityType
    <2>10. Cardinality(recent[b]) >= Limit(b)
      BY <2>3, <2>7, <2>9
    <2> QED BY <2>10 DEF b
  <1> QED BY <1>1, WindowsHold, PTL DEF Spec, RefusedForAReason

(* The types of the limiter's state.                                       *)
THEOREM LimiterTypes == Spec => []TypeOK
  <1> DEFINE Rest == /\ now \in 0..Horizon /\ sent \in 0..MaxSent
                     /\ due \in 0..(Horizon + WindowMs)
                     /\ refuser \in Bucket \union {NoBucket}
                     /\ until \in [Bucket -> Nat]
  <1>1. Init => Rest
    BY Constants DEF Init
  <1>2. ASSUME CountInv, Rest, [Next]_vars PROVE Rest'
    <2>1. CASE Tick
      BY <1>2, <2>1, Constants DEF Tick
    <2>2. CASE CleanUp
      BY <1>2, <2>2, Constants DEF CleanUp
    <2>3. ASSUME NEW a \in Address, NEW login \in BOOLEAN, Request(a, login) PROVE Rest'
      <3>1. /\ sent < MaxSent /\ sent' = sent + 1 /\ now' = now /\ due' = due
            /\ refuser' \in Bucket \union {NoBucket}
            /\ refuser' # NoBucket => refuser' \in Met(a, login) /\ Exceeds(refuser')
        BY <2>3, RequestFacts
      <3>2. PICK t \in IF {b \in Met(a, login) : Exceeds(b)} = {} THEN {0} ELSE Told(refuser') :
              until' = [b \in Bucket |->
                          IF b \in {c \in Met(a, login) : Exceeds(c)} THEN t
                          ELSE IF b \in Met(a, login) THEN 0 ELSE until[b]]
        BY <2>3 DEF Request, Met
      <3>3. t \in Nat
        <4>1. CASE {b \in Met(a, login) : Exceeds(b)} = {}
          BY <3>2, <4>1
        <4>2. CASE {b \in Met(a, login) : Exceeds(b)} # {}
          <5>1. refuser' = CHOOSE b \in {b \in Met(a, login) : Exceeds(b)} : TRUE
            BY <2>3, <4>2 DEF Request, Met
          <5>2. refuser' \in Met(a, login) /\ refuser' \in Bucket
            BY <2>3, <4>2, <5>1, RequestFacts
          <5> DEFINE r == Hit(refuser').resetTime
          <5>3. r \in Nat /\ now \in Nat /\ r >= now
            <6>1. CASE Closed(refuser')
              BY <1>2, <5>2, <6>1, HitCases, Constants DEF CountInv
            <6>2. CASE ~Closed(refuser')
              BY <1>2, <5>2, <6>2, HitCases, Constants DEF CountInv, EntryType
            <6> QED BY <6>1, <6>2
          <5> HIDE DEF r
          <5>4. ASSUME NEW x \in Nat PROVE Ceil(x) * Second \in Nat
            <6>1. Ceil(x) \in Nat
              BY Constants DEF Ceil
            <6> HIDE DEF Ceil
            <6> QED BY <6>1, Constants
          <5>5. r - now \in Nat
            BY <5>3
          <5>6. t = now + Ceil(r - now) * Second \/ t = Ceil(r) * Second
            BY <3>2, <4>2 DEF Told, r
          <5> QED BY <5>3, <5>4, <5>5, <5>6
        <4> QED BY <4>1, <4>2
      <3>4. until' \in [Bucket -> Nat]
        BY <1>2, <3>2, <3>3
      <3> QED BY <1>2, <3>1, <3>4, Constants
    <2>4. CASE UNCHANGED vars
      BY <1>2, <2>4 DEF vars
    <2> QED BY <1>2, <2>1, <2>2, <2>3, <2>4 DEF Next
  <1>3. CountInv /\ Rest => TypeOK
    <2> SUFFICES ASSUME CountInv, Rest PROVE TypeOK
      OBVIOUS
    <2>1. ASSUME NEW b \in Bucket
          PROVE  store[b] \in [count : 1..MaxSent, resetTime : 1..(now + WindowMs)]
                              \union {NoEntry}
      <3>1. CASE store[b] # NoEntry
        <4>1. /\ store[b] \in EntryType
              /\ store[b].count <= sent /\ store[b].resetTime <= now + WindowMs
          BY <3>1 DEF CountInv
        <4>2. store[b].count \in 1..MaxSent /\ store[b].resetTime \in 1..(now + WindowMs)
          BY <4>1, Constants DEF EntryType
        <4> QED BY <4>1, <4>2 DEF EntryType
      <3> QED BY <3>1
    <2>2. store \in [Bucket -> [count : 1..MaxSent, resetTime : 1..(now + WindowMs)]
                               \union {NoEntry}]
      BY <2>1 DEF CountInv
    <2>3. recent \in [Bucket -> SUBSET (Nat \X Nat)]
      BY DEF CountInv
    <2> QED BY <2>2, <2>3 DEF TypeOK
  <1> HIDE DEF Rest
  <1>4. Spec => [](CountInv /\ Rest)
    BY <1>1, <1>2, CountInit, CountNext, PTL DEF Spec
  <1> QED BY <1>3, <1>4, PTL
-----------------------------------------------------------------------------

(* What a client is told is never before the end of its window.            *)
LEMMA RoundedUp ==
  ASSUME NEW x \in Nat
  PROVE  Ceil(x) * Second \in Nat /\ Ceil(x) * Second >= x
  <1> DEFINE q == (x + Second - 1) \div Second
             r == (x + Second - 1) % Second
  <1>1. q \in Nat /\ r \in 0..(Second - 1) /\ x + Second - 1 = q * Second + r
    BY Constants
  <1> HIDE DEF q, r
  <1>2. q * Second \in Nat /\ q * Second >= x
    BY <1>1, Constants
  <1> QED BY <1>2 DEF Ceil, q

LEMMA ToldFacts ==
  ASSUME CountInv, NEW b \in Bucket, NEW t \in Told(b)
  PROVE  t \in Nat /\ t >= Hit(b).resetTime
  <1> DEFINE reset == Hit(b).resetTime
  <1>1. reset \in Nat /\ now \in Nat /\ reset >= now
    <2>1. CASE Closed(b)
      BY <2>1, HitCases, Constants DEF CountInv
    <2>2. CASE ~Closed(b)
      BY <2>2, HitCases, Constants DEF CountInv, EntryType
    <2> QED BY <2>1, <2>2
  <1>2. t = now + Ceil(reset - now) * Second \/ t = Ceil(reset) * Second
    BY DEF Told
  <1> HIDE DEF reset
  <1>3. reset - now \in Nat
    BY <1>1
  <1>4. t \in Nat /\ t >= reset
    BY <1>1, <1>2, <1>3, RoundedUp
  <1> QED BY <1>4 DEF reset

(* Whoever was told to wait at a limiter was told a time that is not       *)
(* before the end of the window.                                           *)
WaitInv ==
  /\ until \in [Bucket -> Nat]
  /\ \A b \in Bucket : until[b] # 0 => store[b] = NoEntry \/ store[b].resetTime <= until[b]

LEMMA WaitInit == Init => WaitInv
  BY DEF Init, WaitInv

LEMMA WaitNext == CountInv /\ WaitInv /\ [Next]_vars => WaitInv'
  <1> SUFFICES ASSUME CountInv, WaitInv, [Next]_vars PROVE WaitInv'
    OBVIOUS
  <1>1. CASE Tick
    BY <1>1 DEF Tick, WaitInv
  <1>2. CASE CleanUp
    BY <1>2 DEF CleanUp, WaitInv
  <1>3. ASSUME NEW a \in Address, NEW login \in BOOLEAN, Request(a, login) PROVE WaitInv'
    <2> DEFINE met == Met(a, login)
               full == {b \in met : Exceeds(b)}
    <2>1. /\ met \subseteq Bucket
          /\ store' = [b \in Bucket |-> IF b \in met THEN Hit(b) ELSE store[b]]
      BY <1>3, RequestFacts
    <2>2. PICK t \in IF full = {} THEN {0} ELSE Told(refuser') :
            until' = [b \in Bucket |-> IF b \in full THEN t ELSE IF b \in met THEN 0 ELSE until[b]]
      BY <1>3 DEF Request, Met
    <2>3. \A b \in full : refuser' = b
      <3>1. refuser' = IF full = {} THEN NoBucket ELSE CHOOSE b \in full : TRUE
        BY <1>3 DEF Request, Met
      <3>2. \A b, c \in full : b = c
        BY DEF Met
      <3> QED BY <3>1, <3>2
    <2>4. \A b \in full : t \in Told(b)
      BY <2>2, <2>3
    <2>5. \A b \in full : t \in Nat /\ t >= Hit(b).resetTime
      BY <2>1, <2>4, ToldFacts
    <2> HIDE DEF full, met
    <2>6. full = {} => t = 0
      BY <2>2
    <2>7. until' \in [Bucket -> Nat]
      <3>1. t \in Nat
        BY <2>5, <2>6
      <3> QED BY <2>2, <3>1 DEF WaitInv
    <2>8. ASSUME NEW b \in Bucket, until'[b] # 0
          PROVE  store'[b] = NoEntry \/ store'[b].resetTime <= until'[b]
      <3>1. CASE b \in full
        <4>1. store'[b] = Hit(b) /\ until'[b] = t
          BY <2>1, <2>2, <3>1 DEF full
        <4>2. Hit(b).resetTime \in Nat
          BY HitCases DEF EntryType
        <4> QED BY <2>5, <3>1, <4>1, <4>2
      <3>2. CASE b \notin full
        <4>1. b \notin met /\ until'[b] = until[b] /\ store'[b] = store[b]
          BY <2>1, <2>2, <2>8, <3>2
        <4> QED BY <2>8, <4>1 DEF WaitInv
      <3> QED BY <3>1, <3>2
    <2> QED BY <2>7, <2>8 DEF WaitInv
  <1>4. CASE UNCHANGED vars
    BY <1>4 DEF vars, WaitInv
  <1> QED BY <1>1, <1>2, <1>3, <1>4 DEF Next

(* For every length of a second and of a window: a client that waits until *)
(* it was told meets a window that is over, and is let through.            *)
THEOREM PatienceIsRewarded == Spec => PatientIsAdmitted
  <1>1. ASSUME CountInv, WaitInv, [Next]_vars
        PROVE  [sent' # sent /\ refuser' # NoBucket /\ refuser'[2] \in Patient => until[refuser'] = 0]_vars
    <2> SUFFICES ASSUME Next, sent' # sent, refuser' # NoBucket, refuser'[2] \in Patient,
                        until[refuser'] # 0
                 PROVE  FALSE
      BY <1>1
    <2>1. PICK a \in Address, login \in BOOLEAN : Request(a, login)
      BY DEF Next, Tick, CleanUp
    <2> DEFINE b == refuser'
    <2>2. b \in Bucket /\ b \in Met(a, login) /\ Exceeds(b)
      BY <2>1, RequestFacts
    <2>3. b[2] = a /\ b \in IF login THEN {<<"ip", a>>, <<"auth", a>>} ELSE {<<"ip", a>>}
      BY <2>2 DEF Met
    <2>4. now >= until[b]
      BY <2>1, <2>3 DEF Request
    <2> HIDE DEF b
    <2>5. ~Closed(b)
      <3> SUFFICES ASSUME Closed(b) PROVE FALSE
        OBVIOUS
      <3>1. Hit(b).count = 1 /\ Limit(b) \in Nat /\ Limit(b) >= 1
        BY <1>1, <2>2, HitCases, LimitType
      <3> QED BY <2>2, <3>1 DEF Exceeds
    <2>6. now < store[b].resetTime /\ store[b] # NoEntry /\ store[b].resetTime \in Nat
      BY <1>1, <2>2, <2>5, HitCases DEF Closed, EntryType
    <2>7. store[b].resetTime <= until[b] /\ until[b] \in Nat /\ now \in Nat
      BY <1>1, <2>2, <2>6 DEF WaitInv, CountInv, b
    <2> QED BY <2>4, <2>6, <2>7
  <1>2. Spec => [](CountInv /\ WaitInv)
    BY CountInit, CountNext, WaitInit, WaitNext, PTL DEF Spec
  <1> QED BY <1>1, <1>2, PTL DEF Spec, PatientIsAdmitted
=============================================================================
