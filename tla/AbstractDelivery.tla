-------------------------- MODULE AbstractDelivery --------------------------
(***************************************************************************)
(* What webhooks promise to the client who reads the delivery history and  *)
(* to the receiver, with no jobs, timers, crashes or failing queries in    *)
(* sight.  An event is delivered to a subscription at most once more than  *)
(* the history tells, and never again after the history calls the delivery *)
(* finished; the history tells of every attempt before the next one; and   *)
(* nothing is recorded of a subscription that is gone, so that whatever    *)
(* was under way posts once more at most.                                  *)
(*                                                                         *)
(* The promise is the one the code can keep: a delivery may be given up at *)
(* any point (Abandon), and stays "pending" then.                          *)
(***************************************************************************)
EXTENDS Integers

CONSTANTS
  Subscription,  \* the subscriptions clients register
  Event,         \* the events dispatched
  Matches        \* Matches[e]: the subscriptions of e's user to e's type

VARIABLES
  subs,      \* subs[s]: "unused", "live" or "deleted"
  occurred,  \* the events that have been dispatched
  row,       \* row[d]: the status a client reads of delivery d
  tries,     \* tries[d]: the attempts a client reads
  open,      \* the deliveries that have not come to an end
  posts,     \* posts[d]: how often d was posted to the receiver
  acks       \* acks[d]: how often the receiver has processed it

vars == <<subs, occurred, row, tries, open, posts, acks>>

Delivery == Event \X Subscription
MaxAttempts == 3

Init ==
  /\ subs = [s \in Subscription |-> "unused"]
  /\ occurred = {} /\ open = {}
  /\ row = [d \in Delivery |-> "none"]
  /\ tries = [d \in Delivery |-> 0]
  /\ posts = [d \in Delivery |-> 0]
  /\ acks = [d \in Delivery |-> 0]

Register(s) ==
  /\ subs[s] = "unused"
  /\ subs' = [subs EXCEPT ![s] = "live"]
  /\ UNCHANGED <<occurred, row, tries, open, posts, acks>>

(* The history goes with its subscription.                                 *)
Delete(s) ==
  /\ subs[s] = "live"
  /\ subs' = [subs EXCEPT ![s] = "deleted"]
  /\ row' = [d \in Delivery |->
               IF d[2] = s /\ row[d] # "none" THEN "gone" ELSE row[d]]
  /\ UNCHANGED <<occurred, tries, open, posts, acks>>

Occur(e) ==
  /\ e \notin occurred
  /\ occurred' = occurred \union {e}
  /\ UNCHANGED <<subs, row, tries, open, posts, acks>>

(* A subscription to the event that is there gets a delivery, once.        *)
Offer(d) ==
  /\ row[d] = "none" /\ d[1] \in occurred
  /\ d[2] \in Matches[d[1]] /\ subs[d[2]] = "live"
  /\ row' = [row EXCEPT ![d] = "pending"]
  /\ open' = open \union {d}
  /\ UNCHANGED <<subs, occurred, tries, posts, acks>>

(* Every attempt but the last is on record when the next one is made.      *)
Post(d) ==
  /\ d \in open
  /\ tries[d] = posts[d] /\ posts[d] < MaxAttempts
  /\ posts' = [posts EXCEPT ![d] = @ + 1]
  /\ UNCHANGED <<subs, occurred, row, tries, open, acks>>

(* The receiver processes what it is posted, once for each post at most.   *)
Process(d) ==
  /\ acks[d] < posts[d]
  /\ acks' = [acks EXCEPT ![d] = @ + 1]
  /\ UNCHANGED <<subs, occurred, row, tries, open, posts>>

(* The outcome of an attempt: "delivered" only if the receiver has the     *)
(* event, "failed" only for the last attempt, "pending" only before it.    *)
Record(d, outcome) ==
  /\ d \in open /\ row[d] = "pending" /\ tries[d] < posts[d]
  /\ outcome = "delivered" => acks[d] > 0
  /\ outcome = "failed" => posts[d] = MaxAttempts
  /\ outcome = "pending" => posts[d] < MaxAttempts
  /\ row' = [row EXCEPT ![d] = outcome]
  /\ tries' = [tries EXCEPT ![d] = posts[d]]
  /\ open' = IF outcome = "pending" THEN open ELSE open \ {d}
  /\ UNCHANGED <<subs, occurred, posts, acks>>

(* Deliveries end with the process, or when their outcome has no row to go *)
(* to or cannot be recorded.                                               *)
Abandon ==
  /\ \E D \in SUBSET open : open' = open \ D
  /\ UNCHANGED <<subs, occurred, row, tries, posts, acks>>

Next ==
  \/ \E s \in Subscription : Register(s) \/ Delete(s)
  \/ \E e \in Event : Occur(e)
  \/ \E d \in Delivery :
       \/ Offer(d) \/ Post(d) \/ Process(d)
       \/ \E outcome \in {"delivered", "failed", "pending"} : Record(d, outcome)
  \/ Abandon

Spec == Init /\ [][Next]_vars
=============================================================================
