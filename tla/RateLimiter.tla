----------------------------- MODULE RateLimiter -----------------------------
(***************************************************************************)
(* The rate limiter, rateLimiter.ts, as app.ts mounts it: before the       *)
(* authentication, so that every key is made of the address the request    *)
(* comes from.  Logins and registrations pass two limiters, all other API  *)
(* requests one.  A middleware runs without yielding, so that a request    *)
(* takes one step.                                                         *)
(*                                                                         *)
(* Time is counted in ticks, Second of them to a second.  The clock never  *)
(* goes back, and the clean-up timer fires Lag ticks late at most.         *)
(***************************************************************************)
EXTENDS Integers, FiniteSets

CONSTANTS
  Address,     \* the addresses requests come from
  Patient,     \* addresses whose one client waits when it is told to
  MaxRequests, \* the limit per window: 100 in the code
  MaxAuth,     \* the limit of logins and registrations: 10 in the code
  Second,
  WindowMs,    \* the length of a window, and the period of the clean-up
  Lag,
  Horizon,     \* bound: the last tick
  MaxSent      \* bound: the number of requests

ASSUME RateLimiterAssumption ==
  /\ {MaxRequests, MaxAuth, Second, WindowMs, Horizon, MaxSent} \subseteq Nat \ {0}
  /\ Lag \in Nat
  /\ Patient \subseteq Address

Bucket == {"ip", "auth"} \X Address  \* the keys of the store
NoEntry == [count |-> 0]
NoBucket == <<"none">>

VARIABLES
  now,      \* Date.now()
  store,    \* rateLimitStore: the count and the end of each key's window
  due,      \* when the clean-up runs next
  sent,     \* the number of requests so far
  refuser,  \* the limiter that refused the last request
  until,    \* until[b]: 0, or how long the last client was told to wait
  recent    \* history: the requests let through up to a window ago, each
            \* with its tick and its number in its window

vars == <<now, store, due, sent, refuser, until, recent>>

Init ==
  /\ now = 0 /\ due = WindowMs /\ sent = 0
  /\ store = [b \in Bucket |-> NoEntry]
  /\ refuser = NoBucket
  /\ until = [b \in Bucket |-> 0]
  /\ recent = [b \in Bucket |-> {}]

Limit(b) == IF b[1] = "ip" THEN MaxRequests ELSE MaxAuth
Expired(b) == now >= store[b].resetTime

-----------------------------------------------------------------------------
(* The entry of a key after one more request. *)
Hit(b) ==
  IF store[b] = NoEntry \/ Expired(b)
  THEN [count |-> 1, resetTime |-> now + WindowMs]
  ELSE [store[b] EXCEPT !.count = @ + 1]

(* Slip: one too many. *)
ExceedsByOne(b) == Hit(b).count > Limit(b) + 1

Exceeds(b) == Hit(b).count > Limit(b)

Ceil(t) == (t + Second - 1) \div Second

(* Slip: rounded down. *)
ToldFloor(b) == {now + ((Hit(b).resetTime - now) \div Second) * Second}

(* The end of the wait, read from Retry-After or from X-RateLimit-Reset:   *)
(* both are rounded up to a second, one from now, one since the epoch.     *)
Told(b) == {now + Ceil(Hit(b).resetTime - now) * Second, Ceil(Hit(b).resetTime) * Second}

(* The limiters a request from a meets, in this order; the first that      *)
(* refuses it keeps it from the others.                                    *)
Request(a, login) ==
  LET ip == <<"ip", a>>
      auth == <<"auth", a>>
      met == IF ~login THEN {ip} ELSE IF Exceeds(auth) THEN {auth} ELSE {ip, auth}
      full == {b \in met : Exceeds(b)}
      wanted == IF login THEN {ip, auth} ELSE {ip} IN
  /\ sent < MaxSent
  /\ a \in Patient => \A b \in wanted : now >= until[b]
  /\ sent' = sent + 1
  /\ store' = [b \in Bucket |-> IF b \in met THEN Hit(b) ELSE store[b]]
  /\ refuser' = IF full = {} THEN NoBucket ELSE CHOOSE b \in full : TRUE
  /\ recent' = [b \in Bucket |-> IF b \in met \ full
                                 THEN recent[b] \union {<<now, Hit(b).count>>} ELSE recent[b]]
  /\ \E t \in IF full = {} THEN {0} ELSE Told(refuser') :
       until' = [b \in Bucket |-> IF b \in full THEN t ELSE IF b \in met THEN 0 ELSE until[b]]
  /\ UNCHANGED <<now, due>>

-----------------------------------------------------------------------------
(* The timer that removes the expired entries. *)
CleanUp ==
  /\ now >= due
  /\ store' = [b \in Bucket |-> IF store[b] # NoEntry /\ Expired(b) THEN NoEntry ELSE store[b]]
  /\ due' = now + WindowMs
  /\ UNCHANGED <<now, sent, refuser, until, recent>>

Tick ==
  /\ now < Horizon /\ now < due + Lag
  /\ now' = now + 1
  /\ recent' = [b \in Bucket |-> {e \in recent[b] : e[1] > now' - WindowMs}]
  /\ UNCHANGED <<store, due, sent, refuser, until>>

Next ==
  \/ Tick \/ CleanUp
  \/ \E a \in Address, login \in BOOLEAN : Request(a, login)

Spec == Init /\ [][Next]_vars

-----------------------------------------------------------------------------
(* The type of the state: an entry counts the request that made it, and    *)
(* its window ends a window from now at most.                              *)
TypeOK ==
  /\ now \in 0..Horizon /\ sent \in 0..MaxSent
  /\ due \in 0..(Horizon + WindowMs)
  /\ store \in [Bucket -> [count : 1..MaxSent, resetTime : 1..(now + WindowMs)]
                         \union {NoEntry}]
  /\ refuser \in Bucket \union {NoBucket}
  /\ until \in [Bucket -> Nat]
  /\ recent \in [Bucket -> SUBSET (Nat \X Nat)]

(* Fixed windows do not bound what passes in a window's length of time by  *)
(* the limit, but nearly by twice the limit: the burst at the end of one   *)
(* window and the burst at the start of the next, less the request that    *)
(* opened the first.  The clean-up gives no budget back.                   *)
BurstIsBounded == \A b \in Bucket : Cardinality(recent[b]) <= 2 * Limit(b) - 1

(* A request is refused only when a full limit of requests of the same     *)
(* key was let through less than a window ago.                             *)
RefusedForAReason ==
  [][sent' # sent /\ refuser' # NoBucket => Cardinality(recent[refuser']) >= Limit(refuser')]_vars

(* A client alone at its address that waits as long as it was told, by     *)
(* either header, is not refused by that limiter again.                    *)
PatientIsAdmitted ==
  [][sent' # sent /\ refuser' # NoBucket /\ refuser'[2] \in Patient => until[refuser'] = 0]_vars

(* The store does not keep what is of no use: an entry outlives its window *)
(* by less than a period of the clean-up and its lag.                      *)
StoreIsSwept ==
  \A b \in Bucket : store[b] # NoEntry => now < store[b].resetTime + WindowMs + Lag
=============================================================================
