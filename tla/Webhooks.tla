------------------------------ MODULE Webhooks ------------------------------
(***************************************************************************)
(* Webhook subscriptions and deliveries: webhooks.service.ts and           *)
(* utils/webhook-delivery.ts.  An event is dispatched without anybody      *)
(* waiting for it (see Answer in Ledger): the subscriptions are listed, a  *)
(* delivery row is inserted for each in turn, and each row gets a job of   *)
(* its own that posts, records the outcome and tries again.  The jobs live *)
(* in the memory of the process; the rows live in the database, where      *)
(* deleting a subscription deletes its rows under the running jobs.        *)
(***************************************************************************)
EXTENDS Integers, FiniteSets

CONSTANTS
  Subscription,  \* the subscriptions clients register
  Event,         \* the events dispatched, each once
  Matches,       \* Matches[e]: the subscriptions of e's user to e's type
  MaxCrashes     \* bound: how many times the process may die

ASSUME WebhooksAssumption ==
  /\ Matches \in [Event -> SUBSET Subscription]
  /\ MaxCrashes \in Nat

Delivery == Event \X Subscription
MaxAttempts == 3

VARIABLES
  subs,      \* subs[s]: "unused", "live", "deleted", then "closed": the
             \* client who deleted s has its answer
  dispatch,  \* dispatch[e]: where dispatchEvent is for e
  listed,    \* listed[e]: the subscriptions it found
  todo,      \* todo[e]: those of them without a delivery row yet
  row,       \* row[d]: the status column; "none" before, "gone" after
  tries,     \* tries[d]: the attempts column
  job,       \* job[d]: where deliverWebhook is for d
  attempt,   \* attempt[d]: its loop variable
  posts,     \* history: how many times d has been posted
  late,      \* history: how many of them after its subscription was closed
  oks,       \* history: how many 2xx answers d has had
  acks,      \* history: how many times the receiver has processed d
  broken,    \* history: the events and deliveries that met a failing query
  crashes    \* how many times the process has died

table == <<row, tries>>
history == <<posts, late, oks, acks>>
dispatching == <<dispatch, listed, todo>>
vars == <<subs, dispatch, listed, todo, row, tries, job, attempt, posts, late,
          oks, acks, broken, crashes>>

Init ==
  /\ subs = [s \in Subscription |-> "unused"]
  /\ dispatch = [e \in Event |-> "idle"]
  /\ listed = [e \in Event |-> {}]
  /\ todo = [e \in Event |-> {}]
  /\ row = [d \in Delivery |-> "none"]
  /\ tries = [d \in Delivery |-> 0]
  /\ job = [d \in Delivery |-> "none"]
  /\ attempt = [d \in Delivery |-> 0]
  /\ posts = [d \in Delivery |-> 0]
  /\ late = [d \in Delivery |-> 0]
  /\ oks = [d \in Delivery |-> 0]
  /\ acks = [d \in Delivery |-> 0]
  /\ broken = {}
  /\ crashes = 0

-----------------------------------------------------------------------------
(* The clients. *)
Register(s) ==
  /\ subs[s] = "unused"
  /\ subs' = [subs EXCEPT ![s] = "live"]
  /\ UNCHANGED <<dispatching, table, job, attempt, history, broken, crashes>>

(* The deletion takes the rows of the subscription with it (onDelete:      *)
(* Cascade); the answer follows.                                           *)
Delete(s) ==
  /\ subs[s] = "live"
  /\ subs' = [subs EXCEPT ![s] = "deleted"]
  /\ row' = [d \in Delivery |->
               IF d[2] = s /\ row[d] # "none" THEN "gone" ELSE row[d]]
  /\ UNCHANGED <<dispatching, tries, job, attempt, history, broken, crashes>>

AnswerDelete(s) ==
  /\ subs[s] = "deleted"
  /\ subs' = [subs EXCEPT ![s] = "closed"]
  /\ UNCHANGED <<dispatching, table, job, attempt, history, broken, crashes>>

-----------------------------------------------------------------------------
(* dispatchEvent *)
Occur(e) ==
  /\ dispatch[e] = "idle"
  /\ dispatch' = [dispatch EXCEPT ![e] = "list"]
  /\ UNCHANGED <<subs, listed, todo, table, job, attempt, history, broken, crashes>>

List(e) ==
  LET found == {s \in Matches[e] : subs[s] = "live"} IN
  /\ dispatch[e] = "list"
  /\ listed' = [listed EXCEPT ![e] = found]
  /\ todo' = [todo EXCEPT ![e] = found]
  /\ dispatch' = [dispatch EXCEPT ![e] = IF found = {} THEN "over" ELSE "create"]
  /\ UNCHANGED <<subs, table, job, attempt, history, broken, crashes>>

(* Slip: the loop leaves at the first subscription. *)
CreateOneRow(e) ==
  /\ dispatch[e] = "create"
  /\ \E s \in todo[e] :
       /\ subs[s] = "live"
       /\ row' = [row EXCEPT ![<<e, s>>] = "pending"]
       /\ job' = [job EXCEPT ![<<e, s>>] = "post"]
       /\ attempt' = [attempt EXCEPT ![<<e, s>>] = 1]
       /\ todo' = [todo EXCEPT ![e] = @ \ {s}]
  /\ dispatch' = [dispatch EXCEPT ![e] = "over"]
  /\ UNCHANGED <<subs, listed, tries, history, broken, crashes>>

(* The INSERT of a delivery row, in the order the subscriptions came back  *)
(* (any), and the start of its job.                                        *)
CreateRow(e) ==
  /\ dispatch[e] = "create"
  /\ \E s \in todo[e] :
       /\ subs[s] = "live"
       /\ row' = [row EXCEPT ![<<e, s>>] = "pending"]
       /\ job' = [job EXCEPT ![<<e, s>>] = "post"]
       /\ attempt' = [attempt EXCEPT ![<<e, s>>] = 1]
       /\ todo' = [todo EXCEPT ![e] = @ \ {s}]
       /\ dispatch' = [dispatch EXCEPT ![e] = IF todo[e] = {s} THEN "over" ELSE @]
  /\ UNCHANGED <<subs, listed, tries, history, broken, crashes>>

(* The foreign key refuses the row of a subscription that is gone: the     *)
(* loop is left with an error nobody looks at.                             *)
CreateFails(e) ==
  /\ dispatch[e] = "create"
  /\ \E s \in todo[e] : subs[s] # "live"
  /\ dispatch' = [dispatch EXCEPT ![e] = "over"]
  /\ UNCHANGED <<subs, listed, todo, table, job, attempt, history, broken, crashes>>

(* The two queries of dispatchEvent may fail for reasons of their own.     *)
DispatchFails(e) ==
  /\ dispatch[e] \in {"list", "create"}
  /\ dispatch' = [dispatch EXCEPT ![e] = "over"]
  /\ broken' = broken \union {e}
  /\ UNCHANGED <<subs, listed, todo, table, job, attempt, history, crashes>>

-----------------------------------------------------------------------------
(* deliverWebhook *)
GoTo(d, label) == job' = [job EXCEPT ![d] = label]

Post(d) ==
  /\ job[d] = "post"
  /\ posts' = [posts EXCEPT ![d] = @ + 1]
  /\ late' = [late EXCEPT ![d] = IF subs[d[2]] = "closed" THEN @ + 1 ELSE @]
  /\ GoTo(d, "wait")
  /\ UNCHANGED <<subs, dispatching, table, attempt, oks, acks, broken, crashes>>

(* Slip: any answer of the receiver counts as a delivery. *)
ReplyUnread(d) ==
  /\ job[d] = "wait"
  /\ GoTo(d, "storeOk")
  /\ UNCHANGED <<subs, dispatching, table, attempt, history, broken, crashes>>

(* The receiver answers 2xx, or something else, or not at all: the         *)
(* connection breaks or ten seconds pass, and it may have processed the    *)
(* event even so.                                                          *)
Reply(d) ==
  /\ job[d] = "wait"
  /\ \/ /\ GoTo(d, "storeOk")
        /\ oks' = [oks EXCEPT ![d] = @ + 1]
        /\ acks' = [acks EXCEPT ![d] = @ + 1]
     \/ GoTo(d, "storeBad") /\ UNCHANGED <<oks, acks>>
     \/ /\ GoTo(d, "catch")
        /\ \E n \in {0, 1} : acks' = [acks EXCEPT ![d] = @ + n]
        /\ UNCHANGED oks
  /\ UNCHANGED <<subs, dispatching, table, attempt, posts, late, broken, crashes>>

(* Slip: the return after a delivery is missing. *)
StoreDeliveredAndGoOn(d) ==
  /\ job[d] = "storeOk" /\ row[d] # "gone"
  /\ row' = [row EXCEPT ![d] = "delivered"]
  /\ tries' = [tries EXCEPT ![d] = attempt[d]]
  /\ GoTo(d, IF attempt[d] < MaxAttempts THEN "sleep" ELSE "over")
  /\ UNCHANGED <<subs, dispatching, attempt, history, broken, crashes>>

(* The UPDATE after a 2xx: the job is done. *)
StoreDelivered(d) ==
  /\ job[d] = "storeOk" /\ row[d] # "gone"
  /\ row' = [row EXCEPT ![d] = "delivered"]
  /\ tries' = [tries EXCEPT ![d] = attempt[d]]
  /\ GoTo(d, "over")
  /\ UNCHANGED <<subs, dispatching, attempt, history, broken, crashes>>

(* Slip: the last failure is recorded like the others. *)
StoreRetryAlways(d) ==
  /\ job[d] \in {"storeBad", "catch"} /\ row[d] # "gone"
  /\ row' = [row EXCEPT ![d] = "pending"]
  /\ tries' = [tries EXCEPT ![d] = attempt[d]]
  /\ GoTo(d, IF attempt[d] < MaxAttempts THEN "sleep" ELSE "over")
  /\ UNCHANGED <<subs, dispatching, attempt, history, broken, crashes>>

(* Slip: attempts are counted from zero. *)
StoreRetryFromZero(d) ==
  /\ job[d] \in {"storeBad", "catch"} /\ row[d] # "gone"
  /\ row' = [row EXCEPT ![d] = IF attempt[d] = MaxAttempts THEN "failed" ELSE "pending"]
  /\ tries' = [tries EXCEPT ![d] = attempt[d] - 1]
  /\ GoTo(d, IF attempt[d] < MaxAttempts THEN "sleep" ELSE "over")
  /\ UNCHANGED <<subs, dispatching, attempt, history, broken, crashes>>

(* The UPDATE after anything else, in the loop or in its catch clause.     *)
StoreRetry(d) ==
  /\ job[d] \in {"storeBad", "catch"} /\ row[d] # "gone"
  /\ row' = [row EXCEPT ![d] = IF attempt[d] = MaxAttempts THEN "failed" ELSE "pending"]
  /\ tries' = [tries EXCEPT ![d] = attempt[d]]
  /\ GoTo(d, IF attempt[d] < MaxAttempts THEN "sleep" ELSE "over")
  /\ UNCHANGED <<subs, dispatching, attempt, history, broken, crashes>>

(* Slip: the catch clause goes on when its own UPDATE fails. *)
StoreFailsQuietly(d) ==
  /\ job[d] \in {"storeOk", "storeBad", "catch"}
  /\ \/ row[d] = "gone" /\ UNCHANGED broken
     \/ row[d] # "gone" /\ broken' = broken \union {d}
  /\ GoTo(d, IF job[d] # "catch" THEN "catch"
             ELSE IF attempt[d] < MaxAttempts THEN "sleep" ELSE "over")
  /\ UNCHANGED <<subs, dispatching, table, attempt, history, crashes>>

(* An UPDATE that finds no row, or fails: from the loop into the catch     *)
(* clause, whatever the receiver answered; from there out of the job.      *)
StoreFails(d) ==
  /\ job[d] \in {"storeOk", "storeBad", "catch"}
  /\ \/ row[d] = "gone" /\ UNCHANGED broken
     \/ row[d] # "gone" /\ broken' = broken \union {d}
  /\ GoTo(d, IF job[d] = "catch" THEN "over" ELSE "catch")
  /\ UNCHANGED <<subs, dispatching, table, attempt, history, crashes>>

WakeUp(d) ==
  /\ job[d] = "sleep"
  /\ attempt' = [attempt EXCEPT ![d] = @ + 1]
  /\ GoTo(d, "post")
  /\ UNCHANGED <<subs, dispatching, table, history, broken, crashes>>

-----------------------------------------------------------------------------
(* The process exits, killed or at the end of a graceful shutdown, which   *)
(* waits for open connections but not for jobs.  Nothing resumes them.     *)
Crash ==
  /\ crashes < MaxCrashes
  /\ crashes' = crashes + 1
  /\ dispatch' = [e \in Event |-> IF dispatch[e] = "idle" THEN "idle" ELSE "over"]
  /\ job' = [d \in Delivery |-> IF job[d] = "none" THEN "none" ELSE "over"]
  /\ UNCHANGED <<subs, listed, todo, table, attempt, history, broken>>

-----------------------------------------------------------------------------
Client(s) == Register(s) \/ Delete(s) \/ AnswerDelete(s)
Dispatch(e) == List(e) \/ CreateRow(e) \/ CreateFails(e)
Store(d) == StoreDelivered(d) \/ StoreRetry(d) \/ StoreFails(d)
Deliver(d) == Post(d) \/ Reply(d) \/ Store(d) \/ WakeUp(d)

Next ==
  \/ \E s \in Subscription : Client(s)
  \/ \E e \in Event : Occur(e) \/ Dispatch(e) \/ DispatchFails(e)
  \/ \E d \in Delivery : Deliver(d)
  \/ Crash

Spec == Init /\ [][Next]_vars

(* Every query, timer and request of a running job comes to an end: fetch  *)
(* is aborted after ten seconds.                                           *)
FairSpec ==
  /\ Spec
  /\ \A e \in Event : WF_vars(Dispatch(e))
  /\ \A d \in Delivery : WF_vars(Deliver(d))

-----------------------------------------------------------------------------
(* The type of the state.                                                  *)
TypeOK ==
  /\ subs \in [Subscription -> {"unused", "live", "deleted", "closed"}]
  /\ dispatch \in [Event -> {"idle", "list", "create", "over"}]
  /\ listed \in [Event -> SUBSET Subscription]
  /\ todo \in [Event -> SUBSET Subscription]
  /\ row \in [Delivery -> {"none", "pending", "delivered", "failed", "gone"}]
  /\ job \in [Delivery -> {"none", "post", "wait", "storeOk", "storeBad", "catch",
                           "sleep", "over"}]
  /\ tries \in [Delivery -> Nat] /\ attempt \in [Delivery -> Nat]
  /\ posts \in [Delivery -> Nat] /\ late \in [Delivery -> Nat]
  /\ oks \in [Delivery -> Nat] /\ acks \in [Delivery -> Nat]
  /\ broken \subseteq Event \union Delivery
  /\ crashes \in 0..MaxCrashes

(* The delivery history a client reads is true: "delivered" means that the *)
(* receiver has the event, "failed" that it was posted as often as a       *)
(* delivery may be, and the attempts counted were made.                    *)
HistoryIsTrue ==
  \A d \in Delivery :
    /\ row[d] = "delivered" => acks[d] > 0
    /\ row[d] = "failed" => posts[d] = MaxAttempts
    /\ tries[d] <= posts[d] /\ posts[d] <= MaxAttempts

(* Once a client has been told that its subscription is deleted, a job     *)
(* that was under way posts each delivery once more at most: recording the *)
(* outcome finds no row and the job ends.  This bounds how far the code is *)
(* from "remove the subscription and return a 204 response, and cease      *)
(* delivering events for that subscription" (requirements.md:215), which   *)
(* would have no post at all: the loop does not look at its subscription.  *)
OneLatePost == \A d \in Delivery : late[d] <= 1

(* A receiver that has answered 2xx gets the event again only when the     *)
(* answer could not be recorded.                                           *)
NoRepeatAfterSuccess ==
  [][\A d \in Delivery :
       posts'[d] > posts[d] /\ oks[d] > 0 => d \in broken]_vars

(* A subscription that dispatchEvent found and that is still there gets no *)
(* delivery only if a query failed, the process died, or another           *)
(* subscription to the same event was deleted meanwhile: its failing       *)
(* INSERT ends the loop for the ones listed after it.                      *)
Reached(e, s) == subs[s] = "live" => row[<<e, s>>] # "none"
MissedForAReason ==
  \A e \in Event : dispatch[e] = "over" /\ e \notin broken /\ crashes = 0 =>
    \/ \A s \in listed[e] : Reached(e, s)
    \/ \E s \in todo[e] : subs[s] # "live"

(* Every delivery ends as delivered or failed, or with its subscription,   *)
(* unless the process dies or a query fails under it.                      *)
EveryDeliverySettles ==
  \A d \in Delivery :
    row[d] = "pending" ~> row[d] # "pending" \/ d \in broken \/ crashes > 0

(* What a client and the receiver see of the deliveries, whatever fails or *)
(* crashes, is what AbstractDelivery allows: it has no job, only whether a *)
(* delivery still goes on, and no event or deletion half-way.              *)
Promise == INSTANCE AbstractDelivery WITH
  subs <- [s \in Subscription |-> IF subs[s] = "closed" THEN "deleted" ELSE subs[s]],
  occurred <- {e \in Event : dispatch[e] # "idle"},
  open <- {d \in Delivery : job[d] \notin {"none", "over"}}
DeliverySpec == Promise!Spec
=============================================================================
