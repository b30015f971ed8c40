--------------------------- MODULE WebhooksProofs ---------------------------
(***************************************************************************)
(* Theorems about Webhooks, for every set of subscriptions and events and  *)
(* every number of crashes.                                                *)
(***************************************************************************)
EXTENDS Webhooks, TLAPS

(* What a job knows at each of its labels.                                 *)
Posting == {"wait", "storeOk", "storeBad", "catch"}
JobCounts(d) ==
  /\ job[d] = "none" => posts[d] = 0 /\ attempt[d] = 0
  /\ job[d] = "post" => attempt[d] = posts[d] + 1
  /\ job[d] \in Posting => attempt[d] = posts[d]
  /\ job[d] = "sleep" => attempt[d] = posts[d] /\ attempt[d] < MaxAttempts
  /\ attempt[d] <= MaxAttempts /\ posts[d] <= MaxAttempts
  /\ tries[d] <= posts[d]
  /\ row[d] = "failed" => posts[d] = MaxAttempts /\ job[d] = "over"
JobAcks(d) ==
  /\ job[d] = "storeOk" \/ row[d] = "delivered" => acks[d] > 0
  /\ oks[d] > 0 => \/ d \in broken \/ job[d] \in {"storeOk", "over"}
                   \/ job[d] = "catch" /\ row[d] = "gone"
JobLate(d) ==
  /\ (row[d] = "none") <=> (job[d] = "none")
  /\ subs[d[2]] \in {"deleted", "closed"} => row[d] \in {"none", "gone"}
  /\ late[d] > 0 => /\ late[d] = 1 /\ subs[d[2]] = "closed"
                    /\ job[d] \in Posting \union {"over"}
JobStart(d) ==
  d[2] \in todo[d[1]] \/ dispatch[d[1]] \in {"idle", "list"} => job[d] = "none"
JobInv == \A d \in Delivery : JobCounts(d) /\ JobAcks(d) /\ JobLate(d) /\ JobStart(d)
WebhooksInv == TypeOK /\ JobInv

-----------------------------------------------------------------------------
(* The types are preserved.                                                *)
LEMMA TypePreserved ==
  ASSUME TypeOK, [Next]_vars
  PROVE  TypeOK'
  <1> USE WebhooksAssumption DEF TypeOK, MaxAttempts
  <1>1. ASSUME NEW s \in Subscription, Client(s)
        PROVE  TypeOK'
    BY <1>1 DEF Client, Register, Delete, AnswerDelete, dispatching, table, history
  <1>2. ASSUME NEW e \in Event, Occur(e) \/ List(e) \/ CreateFails(e) \/ DispatchFails(e)
        PROVE  TypeOK'
    BY <1>2 DEF Occur, List, CreateFails, DispatchFails, dispatching, table, history
  <1>3. ASSUME NEW e \in Event, CreateRow(e)
        PROVE  TypeOK'
    <2>1. PICK s \in todo[e] :
            /\ row' = [row EXCEPT ![<<e, s>>] = "pending"]
            /\ job' = [job EXCEPT ![<<e, s>>] = "post"]
            /\ attempt' = [attempt EXCEPT ![<<e, s>>] = 1]
            /\ todo' = [todo EXCEPT ![e] = @ \ {s}]
            /\ dispatch' = [dispatch EXCEPT ![e] = IF todo[e] = {s} THEN "over" ELSE @]
      BY <1>3 DEF CreateRow
    <2>2. /\ row' \in [Delivery -> {"none", "pending", "delivered", "failed", "gone"}]
          /\ job' \in [Delivery -> {"none", "post", "wait", "storeOk", "storeBad",
                                    "catch", "sleep", "over"}]
          /\ attempt' \in [Delivery -> Nat]
      BY <2>1
    <2>3. /\ todo' \in [Event -> SUBSET Subscription]
          /\ dispatch' \in [Event -> {"idle", "list", "create", "over"}]
      BY <2>1
    <2>4. QED
      BY <1>3, <2>2, <2>3 DEF CreateRow, history
  <1>4. ASSUME NEW d \in Delivery, Post(d) \/ WakeUp(d)
        PROVE  TypeOK'
    BY <1>4 DEF Post, WakeUp, GoTo, dispatching, table, history
  <1>5. ASSUME NEW d \in Delivery, Reply(d)
        PROVE  TypeOK'
    BY <1>5 DEF Reply, GoTo, dispatching, table, history
  <1>6. ASSUME NEW d \in Delivery, Store(d)
        PROVE  TypeOK'
    BY <1>6 DEF Store, StoreDelivered, StoreRetry, StoreFails, GoTo, dispatching, table, history
  <1>7. CASE Crash
    BY <1>7 DEF Crash, table, history
  <1>8. CASE UNCHANGED vars
    BY <1>8 DEF vars
  <1>9. QED
    BY <1>1, <1>2, <1>3, <1>4, <1>5, <1>6, <1>7, <1>8 DEF Next, Dispatch, Deliver

(* A step of a client keeps every job as it is, and the rows too, but for  *)
(* those of the subscription it deletes.                                   *)
LEMMA ClientKeepsJobs ==
  ASSUME WebhooksInv, NEW s \in Subscription, Client(s)
  PROVE  JobInv'
  <1> USE DEF WebhooksInv, JobInv
  <1> SUFFICES ASSUME NEW d \in Delivery
               PROVE  JobCounts(d)' /\ JobAcks(d)' /\ JobLate(d)' /\ JobStart(d)'
    OBVIOUS
  <1>1. /\ job' = job /\ attempt' = attempt /\ posts' = posts /\ tries' = tries
        /\ acks' = acks /\ oks' = oks /\ late' = late /\ broken' = broken
    BY DEF Client, Register, Delete, AnswerDelete, table, history
  <1>2. d[2] \in Subscription
    BY DEF Delivery
  <1>3. \/ row'[d] = row[d] /\ (subs'[d[2]] = subs[d[2]] \/ subs[d[2]] = "unused")
        \/ row'[d] = row[d] /\ subs[d[2]] = "deleted" /\ subs'[d[2]] = "closed"
        \/ /\ subs[d[2]] = "live" /\ subs'[d[2]] = "deleted"
           /\ row'[d] = (IF row[d] = "none" THEN "none" ELSE "gone")
    BY <1>2 DEF Client, Register, Delete, AnswerDelete, table, TypeOK
  <1>4. subs[d[2]] = "unused" => subs'[d[2]] \in {"unused", "live"}
    BY <1>2 DEF Client, Register, Delete, AnswerDelete, TypeOK
  <1>5. JobCounts(d)'
    BY <1>1, <1>3 DEF JobCounts
  <1>6. JobAcks(d)'
    BY <1>1, <1>3 DEF JobAcks
  <1>7. JobLate(d)'
    BY <1>1, <1>3, <1>4, <1>2 DEF JobLate, TypeOK
  <1>8. JobStart(d)'
    BY <1>1 DEF JobStart, Client, Register, Delete, AnswerDelete, dispatching
  <1>9. QED
    BY <1>5, <1>6, <1>7, <1>8

(* The dispatch of an event starts the job of a row it has just inserted,  *)
(* and touches no other.                                                   *)
LEMMA DispatchKeepsJobs ==
  ASSUME WebhooksInv, NEW e \in Event, Occur(e) \/ Dispatch(e) \/ DispatchFails(e)
  PROVE  JobInv'
  <1> USE DEF WebhooksInv, JobInv
  <1> SUFFICES ASSUME NEW d \in Delivery
               PROVE  JobCounts(d)' /\ JobAcks(d)' /\ JobLate(d)' /\ JobStart(d)'
    OBVIOUS
  <1>1. /\ subs' = subs /\ posts' = posts /\ tries' = tries /\ acks' = acks
        /\ oks' = oks /\ late' = late /\ broken \subseteq broken'
    BY DEF Occur, Dispatch, List, CreateRow, CreateFails, DispatchFails, table, history
  <1>2. d[1] \in Event /\ d[2] \in Subscription /\ d = <<d[1], d[2]>>
    BY DEF Delivery
  <1>3. CASE CreateRow(e)
    <2>1. PICK s \in todo[e] :
            /\ subs[s] = "live"
            /\ row' = [row EXCEPT ![<<e, s>>] = "pending"]
            /\ job' = [job EXCEPT ![<<e, s>>] = "post"]
            /\ attempt' = [attempt EXCEPT ![<<e, s>>] = 1]
            /\ todo' = [todo EXCEPT ![e] = @ \ {s}]
            /\ dispatch' = [dispatch EXCEPT ![e] = IF todo[e] = {s} THEN "over" ELSE @]
      BY <1>3 DEF CreateRow
    <2>2. s \in Subscription /\ <<e, s>> \in Delivery /\ dispatch[e] = "create"
      BY <1>3 DEF TypeOK, Delivery, CreateRow
    <2>3. CASE d = <<e, s>>
      <3>1. job[d] = "none" /\ row[d] = "none" /\ d[1] = e /\ d[2] = s
        BY <2>1, <2>2, <2>3 DEF JobStart, JobLate
      <3>2. row'[d] = "pending" /\ job'[d] = "post" /\ attempt'[d] = 1
        BY <2>1, <2>2, <2>3 DEF TypeOK
      <3>3. s \notin todo'[e] /\ dispatch'[e] \in {"create", "over"}
        BY <2>1, <2>2 DEF TypeOK
      <3>4. JobCounts(d)' /\ JobAcks(d)'
        BY <1>1, <3>1, <3>2 DEF JobCounts, JobAcks, Posting, MaxAttempts, TypeOK
      <3>5. JobLate(d)'
        BY <1>1, <2>1, <3>1, <3>2 DEF JobLate
      <3>6. QED
        BY <3>1, <3>3, <3>4, <3>5 DEF JobStart
    <2>4. CASE d # <<e, s>>
      <3>1. row'[d] = row[d] /\ job'[d] = job[d] /\ attempt'[d] = attempt[d]
        BY <2>1, <2>4 DEF TypeOK
      <3>2. /\ todo'[d[1]] \subseteq todo[d[1]]
            /\ dispatch'[d[1]] = dispatch[d[1]] \/ dispatch'[d[1]] = "over"
        BY <2>1, <2>2, <1>2 DEF TypeOK
      <3>3. QED
        BY <1>1, <3>1, <3>2 DEF JobCounts, JobAcks, JobLate, JobStart
    <2>5. QED
      BY <2>3, <2>4
  <1>4. CASE ~CreateRow(e)
    <2>1. row' = row /\ job' = job /\ attempt' = attempt
      BY <1>4 DEF Occur, Dispatch, List, CreateFails, DispatchFails, table
    <2>2. \/ todo'[d[1]] \subseteq todo[d[1]]
          \/ dispatch[d[1]] \in {"idle", "list"}
      BY <1>2, <1>4 DEF Occur, Dispatch, List, CreateFails, DispatchFails, TypeOK
    <2>3. dispatch'[d[1]] \in {"idle", "list"} => dispatch[d[1]] \in {"idle", "list"}
      BY <1>2, <1>4 DEF Occur, Dispatch, List, CreateFails, DispatchFails, TypeOK
    <2>4. QED
      BY <1>1, <2>1, <2>2, <2>3 DEF JobCounts, JobAcks, JobLate, JobStart
  <1>5. QED
    BY <1>3, <1>4

(* A step of a job: what it does to its own delivery, the others being     *)
(* left alone.                                                             *)
LEMMA DeliverKeepsJobs ==
  ASSUME WebhooksInv, NEW c \in Delivery, Deliver(c)
  PROVE  JobInv'
  <1> USE DEF WebhooksInv, JobInv
  <1> SUFFICES ASSUME NEW d \in Delivery
               PROVE  JobCounts(d)' /\ JobAcks(d)' /\ JobLate(d)' /\ JobStart(d)'
    OBVIOUS
  <1>1. subs' = subs /\ todo' = todo /\ dispatch' = dispatch
    BY DEF Deliver, Store, Post, Reply, StoreDelivered, StoreRetry, StoreFails, WakeUp, dispatching
  <1>2. CASE d # c
    <2>1. /\ row'[d] = row[d] /\ tries'[d] = tries[d] /\ job'[d] = job[d]
          /\ attempt'[d] = attempt[d] /\ posts'[d] = posts[d] /\ late'[d] = late[d]
          /\ oks'[d] = oks[d] /\ acks'[d] = acks[d] /\ broken \subseteq broken'
      BY <1>2 DEF Deliver, Store, Post, Reply, StoreDelivered, StoreRetry, StoreFails, WakeUp,
         GoTo, table, history, TypeOK
    <2>2. QED
      BY <1>1, <2>1 DEF JobCounts, JobAcks, JobLate, JobStart
  <1>3. CASE d = c
    <2> USE <1>3 DEF Posting, GoTo, TypeOK
    <2>1. JobStart(d)'
      <3>1. job[d] # "none"
        BY DEF Deliver, Store, Post, Reply, StoreDelivered, StoreRetry, StoreFails, WakeUp
      <3>2. QED
        BY <1>1, <3>1 DEF JobStart
    <2>2. CASE Post(d)
      <3>1. /\ job[d] = "post" /\ job'[d] = "wait" /\ posts'[d] = posts[d] + 1
            /\ late'[d] = (IF subs[d[2]] = "closed" THEN late[d] + 1 ELSE late[d])
            /\ row' = row /\ tries' = tries /\ attempt' = attempt /\ oks' = oks
            /\ acks' = acks /\ broken' = broken
        BY <2>2 DEF Post, table
      <3>2. JobCounts(d)' /\ JobAcks(d)'
        BY <3>1 DEF JobCounts, JobAcks, MaxAttempts
      <3>3. JobLate(d)'
        BY <1>1, <3>1 DEF JobLate
      <3>4. QED
        BY <2>1, <3>2, <3>3
    <2>3. CASE Reply(d)
      <3>1. /\ job[d] = "wait" /\ job'[d] \in {"storeOk", "storeBad", "catch"}
            /\ job'[d] = "storeOk" => acks'[d] = acks[d] + 1
            /\ job'[d] # "storeOk" => oks'[d] = oks[d]
            /\ acks'[d] >= acks[d]
            /\ row' = row /\ tries' = tries /\ attempt' = attempt /\ posts' = posts
            /\ late' = late /\ broken' = broken
        BY <2>3 DEF Reply, table
      <3>2. acks'[d] \in Nat /\ oks'[d] \in Nat
        BY <2>3 DEF Reply
      <3>3. JobCounts(d)'
        BY <3>1 DEF JobCounts, MaxAttempts
      <3>4. JobAcks(d)'
        BY <3>1, <3>2 DEF JobAcks
      <3>5. JobLate(d)'
        BY <1>1, <3>1 DEF JobLate
      <3>6. QED
        BY <2>1, <3>3, <3>4, <3>5
    <2>4. CASE StoreDelivered(d)
      <3>1. /\ job[d] = "storeOk" /\ job'[d] = "over" /\ row[d] # "gone"
            /\ row'[d] = "delivered" /\ tries'[d] = attempt[d]
            /\ attempt' = attempt /\ posts' = posts /\ late' = late /\ oks' = oks
            /\ acks' = acks /\ broken' = broken
        BY <2>4 DEF StoreDelivered, history
      <3>2. JobCounts(d)' /\ JobAcks(d)' /\ JobLate(d)'
        BY <1>1, <3>1 DEF JobCounts, JobAcks, JobLate, MaxAttempts
      <3>3. QED
        BY <2>1, <3>2
    <2>5. CASE StoreRetry(d)
      <3>1. /\ job[d] \in {"storeBad", "catch"} /\ row[d] # "gone"
            /\ row'[d] = (IF attempt[d] = MaxAttempts THEN "failed" ELSE "pending")
            /\ job'[d] = (IF attempt[d] < MaxAttempts THEN "sleep" ELSE "over")
            /\ tries'[d] = attempt[d]
            /\ attempt' = attempt /\ posts' = posts /\ late' = late /\ oks' = oks
            /\ acks' = acks /\ broken' = broken
        BY <2>5 DEF StoreRetry, history
      <3>2. JobCounts(d)' /\ JobAcks(d)' /\ JobLate(d)'
        BY <1>1, <3>1 DEF JobCounts, JobAcks, JobLate, MaxAttempts
      <3>3. QED
        BY <2>1, <3>2
    <2>6. CASE StoreFails(d)
      <3>1. /\ job[d] \in {"storeOk", "storeBad", "catch"}
            /\ job'[d] = (IF job[d] = "catch" THEN "over" ELSE "catch")
            /\ broken \subseteq broken' /\ (row[d] # "gone" => d \in broken')
            /\ row' = row /\ tries' = tries /\ attempt' = attempt /\ posts' = posts
            /\ late' = late /\ oks' = oks /\ acks' = acks
        BY <2>6 DEF StoreFails, table, history
      <3>2. JobCounts(d)' /\ JobAcks(d)' /\ JobLate(d)'
        BY <1>1, <3>1 DEF JobCounts, JobAcks, JobLate, MaxAttempts
      <3>3. QED
        BY <2>1, <3>2
    <2>7. CASE WakeUp(d)
      <3>1. /\ job[d] = "sleep" /\ job'[d] = "post" /\ attempt'[d] = attempt[d] + 1
            /\ row' = row /\ tries' = tries /\ posts' = posts
            /\ late' = late /\ oks' = oks /\ acks' = acks /\ broken' = broken
        BY <2>7 DEF WakeUp, table, history
      <3>2. JobCounts(d)' /\ JobAcks(d)' /\ JobLate(d)'
        BY <1>1, <3>1 DEF JobCounts, JobAcks, JobLate, MaxAttempts
      <3>3. QED
        BY <2>1, <3>2
    <2>8. QED
      BY <2>2, <2>3, <2>4, <2>5, <2>6, <2>7 DEF Deliver, Store
  <1>4. QED
    BY <1>2, <1>3

(* The inductive invariant.                                                *)
THEOREM WebhooksInvariantHolds == Spec => []WebhooksInv
  <1>1. Init => WebhooksInv
    BY WebhooksAssumption DEF Init, WebhooksInv, TypeOK, JobInv, JobCounts, JobAcks, JobLate,
       JobStart, Posting, MaxAttempts, Delivery
  <1>2. ASSUME WebhooksInv, [Next]_vars
        PROVE  WebhooksInv'
    <2>1. TypeOK'
      BY <1>2, TypePreserved DEF WebhooksInv
    <2>2. CASE Crash
      <3>1. ASSUME NEW d \in Delivery
            PROVE  JobCounts(d)' /\ JobAcks(d)' /\ JobLate(d)' /\ JobStart(d)'
        <4> USE <1>2 DEF WebhooksInv, JobInv
        <4>1. /\ subs' = subs /\ todo' = todo /\ row' = row /\ tries' = tries
              /\ attempt' = attempt /\ posts' = posts /\ late' = late /\ oks' = oks
              /\ acks' = acks /\ broken' = broken
              /\ job'[d] = (IF job[d] = "none" THEN "none" ELSE "over")
          BY <2>2 DEF Crash, table, history
        <4>2. d[1] \in Event
          BY DEF Delivery
        <4>3. dispatch'[d[1]] \in {"idle", "list"} => dispatch[d[1]] = "idle"
          BY <2>2, <4>2 DEF Crash
        <4>4. JobCounts(d)' /\ JobAcks(d)' /\ JobLate(d)'
          BY <4>1 DEF JobCounts, JobAcks, JobLate, Posting
        <4>5. JobStart(d)'
          BY <4>1, <4>3 DEF JobStart
        <4>6. QED
          BY <4>4, <4>5
      <3>2. QED
        BY <2>1, <3>1 DEF WebhooksInv, JobInv
    <2>3. CASE UNCHANGED vars
      BY <1>2, <2>1, <2>3 DEF vars, WebhooksInv, JobInv, JobCounts, JobAcks, JobLate, JobStart
    <2>4. QED
      BY <1>2, <2>1, <2>2, <2>3, ClientKeepsJobs, DispatchKeepsJobs, DeliverKeepsJobs
      DEF Next, WebhooksInv
  <1>3. QED
    BY <1>1, <1>2, PTL DEF Spec

(* The types of the webhooks' state.                                       *)
THEOREM WebhookTypesHold == Spec => []TypeOK
  <1>1. WebhooksInv => TypeOK
    BY DEF WebhooksInv
  <1>2. QED
    BY <1>1, WebhooksInvariantHolds, PTL

(* What the delivery history says is true, for any number of events,       *)
(* subscriptions and crashes.                                              *)
THEOREM DeliveryHistoryIsTrue == Spec => []HistoryIsTrue
  <1>1. WebhooksInv => HistoryIsTrue
    BY DEF WebhooksInv, JobInv, JobCounts, JobAcks, HistoryIsTrue
  <1>2. QED
    BY <1>1, WebhooksInvariantHolds, PTL

(* A deletion lets each delivery through once more at most.                *)
THEOREM DeletionQuietsDeliveries == Spec => []OneLatePost
  <1>1. WebhooksInv => OneLatePost
    BY DEF WebhooksInv, JobInv, JobLate, OneLatePost, TypeOK
  <1>2. QED
    BY <1>1, WebhooksInvariantHolds, PTL

(* Only a failing UPDATE repeats a delivery that was acknowledged.         *)
THEOREM AcknowledgedDeliveriesStop == Spec => NoRepeatAfterSuccess
  <1>1. ASSUME WebhooksInv, [Next]_vars
        PROVE  [\A d \in Delivery :
                  posts'[d] > posts[d] /\ oks[d] > 0 => d \in broken]_vars
    <2> SUFFICES ASSUME NEW d \in Delivery, posts'[d] > posts[d], oks[d] > 0
                 PROVE  d \in broken
      OBVIOUS
    <2>1. posts'[d] # posts[d]
      BY <1>1 DEF WebhooksInv, TypeOK
    <2>2. \E c \in Delivery : Post(c)
      BY <1>1, <2>1 DEF Next, vars, Client, Register, Delete, AnswerDelete, Occur, Dispatch,
         List, CreateRow, CreateFails, DispatchFails, Deliver, Store, Reply, StoreDelivered,
         StoreRetry, StoreFails, WakeUp, Crash, history
    <2>3. Post(d)
      BY <1>1, <2>1, <2>2 DEF Post, WebhooksInv, TypeOK
    <2>4. QED
      BY <1>1, <2>3 DEF Post, WebhooksInv, JobInv, JobAcks
  <1>2. QED
    BY <1>1, WebhooksInvariantHolds, PTL DEF Spec, NoRepeatAfterSuccess

-----------------------------------------------------------------------------
(* What a dispatch found it works off one by one, and it is left early     *)
(* only at a subscription that is gone for good.                           *)
Listing(e) ==
  /\ dispatch[e] \in {"idle", "list"} => listed[e] = {}
  /\ todo[e] \subseteq listed[e]
  /\ \A s \in listed[e] : /\ subs[s] # "unused"
                          /\ s \in todo[e] \/ row[<<e, s>>] # "none"
  /\ dispatch[e] = "over" /\ e \notin broken /\ crashes = 0 =>
       todo[e] = {} \/ \E s \in todo[e] : subs[s] # "live"
ListingInv == \A e \in Event : Listing(e)

(* A row is never unmade, and a subscription that has stopped stays so.    *)
LEMMA NothingComesBack ==
  ASSUME TypeOK, [Next]_vars
  PROVE  /\ \A d \in Delivery : row[d] # "none" => row'[d] # "none"
         /\ \A s \in Subscription :
              /\ subs[s] # "unused" => subs'[s] # "unused"
              /\ subs[s] \notin {"unused", "live"} => subs'[s] \notin {"unused", "live"}
         /\ broken \subseteq broken' /\ (crashes' = 0 => crashes = 0)
  <1> USE DEF TypeOK
  <1>1. ASSUME NEW s \in Subscription, Client(s)
        PROVE  /\ \A d \in Delivery : row[d] # "none" => row'[d] # "none"
               /\ \A t \in Subscription :
                    /\ subs[t] # "unused" => subs'[t] # "unused"
                    /\ subs[t] \notin {"unused", "live"} => subs'[t] \notin {"unused", "live"}
               /\ broken' = broken /\ crashes' = crashes
    BY <1>1 DEF Client, Register, Delete, AnswerDelete, table
  <1>2. ASSUME NEW e \in Event, Occur(e) \/ Dispatch(e) \/ DispatchFails(e)
        PROVE  /\ subs' = subs /\ broken \subseteq broken' /\ crashes' = crashes
               /\ \A d \in Delivery : row[d] # "none" => row'[d] # "none"
    <2>1. CASE CreateRow(e)
      BY <2>1 DEF CreateRow
    <2>2. CASE Occur(e) \/ List(e) \/ CreateFails(e) \/ DispatchFails(e)
      BY <2>2 DEF Occur, List, CreateFails, DispatchFails, table
    <2>3. QED
      BY <1>2, <2>1, <2>2 DEF Dispatch
  <1>3. ASSUME NEW d \in Delivery, Deliver(d)
        PROVE  /\ subs' = subs /\ broken \subseteq broken' /\ crashes' = crashes
               /\ \A c \in Delivery : row[c] # "none" => row'[c] # "none"
    BY <1>3 DEF Deliver, Store, Post, Reply, StoreDelivered, StoreRetry, StoreFails, WakeUp,
       table, history
  <1>4. CASE Crash
    BY <1>4 DEF Crash, table
  <1>5. CASE UNCHANGED vars
    BY <1>5 DEF vars
  <1>6. QED
    BY <1>1, <1>2, <1>3, <1>4, <1>5 DEF Next

LEMMA ListingKept ==
  ASSUME TypeOK, ListingInv, [Next]_vars
  PROVE  ListingInv'
  <1> SUFFICES ASSUME NEW e \in Event
               PROVE  Listing(e)'
    BY DEF ListingInv
  <1>1. Listing(e) /\ listed[e] \subseteq Subscription /\ \A s \in Subscription : <<e, s>> \in Delivery
    BY DEF ListingInv, TypeOK, Delivery
  <1>2. CASE List(e)
    <2>1. /\ dispatch[e] = "list"
          /\ listed'[e] = {s \in Matches[e] : subs[s] = "live"} /\ todo'[e] = listed'[e]
          /\ dispatch'[e] = (IF listed'[e] = {} THEN "over" ELSE "create")
          /\ subs' = subs
      BY <1>2 DEF List, TypeOK
    <2>2. QED
      BY <2>1 DEF Listing
  <1>3. CASE CreateRow(e)
    <2>1. PICK s \in todo[e] :
            /\ dispatch[e] = "create" /\ subs' = subs /\ listed' = listed
            /\ row' = [row EXCEPT ![<<e, s>>] = "pending"]
            /\ todo' = [todo EXCEPT ![e] = @ \ {s}]
            /\ dispatch' = [dispatch EXCEPT ![e] = IF todo[e] = {s} THEN "over" ELSE @]
      BY <1>3 DEF CreateRow
    <2>2. /\ todo'[e] = todo[e] \ {s} /\ row'[<<e, s>>] = "pending"
          /\ dispatch'[e] = IF todo[e] = {s} THEN "over" ELSE "create"
      BY <1>1, <2>1 DEF TypeOK, Listing
    <2>3. \A t \in listed[e] : t # s => row'[<<e, t>>] = row[<<e, t>>]
      BY <1>1, <2>1 DEF TypeOK
    <2>4. QED
      BY <1>1, <2>1, <2>2, <2>3 DEF Listing
  <1>4. CASE CreateFails(e) \/ DispatchFails(e)
    BY <1>1, <1>4, NothingComesBack DEF CreateFails, DispatchFails, Listing, TypeOK, table
  <1>5. CASE Occur(e)
    <2>1. /\ dispatch[e] = "idle" /\ dispatch'[e] = "list"
          /\ UNCHANGED <<subs, listed, todo, row>>
      BY <1>5 DEF Occur, dispatching, table, TypeOK
    <2>2. QED
      BY <1>1, <2>1 DEF Listing
  <1>6. CASE Crash
    <2>1. /\ crashes' # 0 /\ UNCHANGED <<subs, listed, todo, row>>
          /\ dispatch'[e] \in {"idle", "list"} => dispatch[e] = "idle"
      BY <1>6 DEF Crash, dispatching, table, TypeOK
    <2>2. QED
      BY <1>1, <2>1 DEF Listing
  <1>7. CASE UNCHANGED <<dispatch, listed, todo>>
    BY <1>1, <1>7, NothingComesBack DEF Listing
  <1>8. ASSUME NEW f \in Event, f # e, Occur(f) \/ Dispatch(f) \/ DispatchFails(f)
        PROVE  dispatch'[e] = dispatch[e] /\ listed'[e] = listed[e] /\ todo'[e] = todo[e]
    BY <1>8 DEF Occur, Dispatch, List, CreateRow, CreateFails, DispatchFails, TypeOK
  <1>9. CASE dispatch'[e] = dispatch[e] /\ listed'[e] = listed[e] /\ todo'[e] = todo[e]
    BY <1>1, <1>9, NothingComesBack DEF Listing
  <1>10. QED
    <2>1. ASSUME NEW f \in Event, Occur(f) \/ Dispatch(f) \/ DispatchFails(f)
          PROVE  Listing(e)'
      <3>1. CASE f = e
        BY <1>2, <1>3, <1>4, <1>5, <2>1, <3>1 DEF Dispatch
      <3>2. CASE f # e
        BY <1>8, <1>9, <2>1, <3>2
      <3>3. QED
        BY <3>1, <3>2
    <2>2. ASSUME NEW s \in Subscription, Client(s)
          PROVE  Listing(e)'
      BY <1>7, <2>2 DEF Client, Register, Delete, AnswerDelete, dispatching
    <2>3. ASSUME NEW d \in Delivery, Deliver(d)
          PROVE  Listing(e)'
      BY <1>7, <2>3 DEF Deliver, Store, Post, Reply, StoreDelivered, StoreRetry, StoreFails, WakeUp,
         dispatching
    <2>4. CASE UNCHANGED vars
      BY <1>7, <2>4 DEF vars
    <2>5. QED
      BY <1>6, <2>1, <2>2, <2>3, <2>4 DEF Next

(* A subscription that was found and is still there misses an event only   *)
(* after a failing query or a crash, or because of one that was deleted.   *)
THEOREM EventsAreMissedForAReason == Spec => []MissedForAReason
  <1>1. Init => ListingInv
    BY DEF Init, ListingInv, Listing
  <1>2. WebhooksInv /\ ListingInv /\ [Next]_vars => ListingInv'
    BY ListingKept DEF WebhooksInv
  <1>3. ListingInv => MissedForAReason
    BY DEF ListingInv, Listing, MissedForAReason, Reached
  <1>4. QED
    BY <1>1, <1>2, <1>3, WebhooksInvariantHolds, PTL DEF Spec

-----------------------------------------------------------------------------
(* The webhooks implement the abstract delivery. *)

(* How far the history and the receiver are behind a job: every attempt is *)
(* on record before the next, and no post is processed twice.              *)
Outcome(d) ==
  /\ job[d] \in {"post", "sleep"} => tries[d] = posts[d]
  /\ job[d] \in Posting => tries[d] < posts[d]
  /\ acks[d] <= posts[d] /\ (job[d] = "wait" => acks[d] < posts[d])
  /\ row[d] = "delivered" => job[d] = "over"
OutcomeInv == \A d \in Delivery : Outcome(d)
MatchInv == \A e \in Event : todo[e] \subseteq Matches[e]
PromiseInv == OutcomeInv /\ MatchInv

(* A step of a client or a dispatch leaves the deliveries under way alone. *)
LEMMA OutcomeKeptByOthers ==
  ASSUME WebhooksInv, OutcomeInv,
         \/ \E s \in Subscription : Client(s)
         \/ \E e \in Event : Occur(e) \/ Dispatch(e) \/ DispatchFails(e)
  PROVE  OutcomeInv'
  <1> USE DEF WebhooksInv, JobInv, OutcomeInv
  <1> SUFFICES ASSUME NEW d \in Delivery
               PROVE  Outcome(d)'
    OBVIOUS
  <1>1. UNCHANGED <<posts, tries, acks>>
    BY DEF Client, Register, Delete, AnswerDelete, Occur, Dispatch, List, CreateRow, CreateFails,
       DispatchFails, table, history
  <1>2. CASE \E e \in Event : CreateRow(e)
    <2>0. PICK e \in Event : CreateRow(e)
      BY <1>2
    <2>1. PICK s \in todo[e] :
            /\ dispatch[e] = "create"
            /\ row' = [row EXCEPT ![<<e, s>>] = "pending"]
            /\ job' = [job EXCEPT ![<<e, s>>] = "post"]
      BY <2>0 DEF CreateRow
    <2>2. CASE d = <<e, s>>
      <3>1. job[d] = "none"
        BY <2>1, <2>2 DEF JobStart, TypeOK
      <3>2. job'[d] = "post" /\ row'[d] = "pending" /\ posts[d] = 0 /\ tries[d] <= posts[d]
        BY <2>1, <2>2, <3>1 DEF JobCounts, TypeOK
      <3>3. tries[d] = posts[d]
        BY <3>2 DEF TypeOK
      <3> QED BY <1>1, <3>2, <3>3 DEF Outcome, Posting
    <2>3. CASE d # <<e, s>>
      <3>1. job'[d] = job[d] /\ row'[d] = row[d]
        BY <2>1, <2>3 DEF TypeOK
      <3> QED BY <1>1, <3>1 DEF Outcome
    <2> QED BY <2>2, <2>3
  <1>3. CASE ~\E e \in Event : CreateRow(e)
    <2>1. job' = job /\ (row'[d] = "delivered" => row[d] = "delivered")
      BY <1>3 DEF Client, Register, Delete, AnswerDelete, Occur, Dispatch, List, CreateFails,
         DispatchFails, table
    <2> QED BY <1>1, <2>1 DEF Outcome
  <1> QED BY <1>2, <1>3

LEMMA OutcomeKeptByJobs ==
  ASSUME WebhooksInv, OutcomeInv, NEW c \in Delivery, Deliver(c)
  PROVE  OutcomeInv'
  <1> USE DEF WebhooksInv, JobInv, OutcomeInv
  <1> SUFFICES ASSUME NEW d \in Delivery
               PROVE  Outcome(d)'
    OBVIOUS
  <1>1. CASE d # c
    <2>1. /\ row'[d] = row[d] /\ tries'[d] = tries[d] /\ job'[d] = job[d]
          /\ posts'[d] = posts[d] /\ acks'[d] = acks[d]
      BY <1>1 DEF Deliver, Store, Post, Reply, StoreDelivered, StoreRetry, StoreFails, WakeUp,
         GoTo, table, history, TypeOK
    <2> QED BY <2>1 DEF Outcome
  <1>2. CASE d = c
    <2> USE <1>2 DEF Posting, GoTo
    <2>0. /\ tries[d] \in Nat /\ posts[d] \in Nat /\ acks[d] \in Nat /\ attempt[d] \in Nat
          /\ job \in [Delivery -> {"none", "post", "wait", "storeOk", "storeBad", "catch",
                                   "sleep", "over"}]
          /\ DOMAIN row = Delivery /\ DOMAIN tries = Delivery /\ DOMAIN posts = Delivery
          /\ DOMAIN acks = Delivery
      BY DEF TypeOK
    <2>1. CASE Post(d)
      BY <2>0, <2>1 DEF Post, Outcome, table
    <2>2. CASE Reply(d)
      <3>1. /\ job[d] = "wait" /\ job'[d] \in {"storeOk", "storeBad", "catch"}
            /\ acks'[d] = acks[d] \/ acks'[d] = acks[d] + 1
            /\ UNCHANGED <<row, tries, posts>>
        BY <2>0, <2>2 DEF Reply, table
      <3> QED BY <2>0, <3>1 DEF Outcome
    <2>3. CASE StoreDelivered(d)
      BY <2>0, <2>3 DEF StoreDelivered, Outcome, history
    <2>4. CASE StoreRetry(d)
      <3>1. /\ job[d] \in {"storeBad", "catch"} /\ job'[d] \in {"sleep", "over"}
            /\ row'[d] # "delivered" /\ tries'[d] = attempt[d]
            /\ UNCHANGED <<posts, acks>>
        BY <2>0, <2>4 DEF StoreRetry, history
      <3>2. attempt[d] = posts[d]
        BY <3>1 DEF JobCounts
      <3> QED BY <2>0, <3>1, <3>2 DEF Outcome
    <2>5. CASE StoreFails(d)
      <3>1. /\ job[d] \in Posting /\ job'[d] \in {"catch", "over"}
            /\ UNCHANGED <<row, tries, posts, acks>>
        BY <2>0, <2>5 DEF StoreFails, table, history
      <3> QED BY <2>0, <3>1 DEF Outcome
    <2>6. CASE WakeUp(d)
      BY <2>0, <2>6 DEF WakeUp, Outcome, table, history
    <2> QED BY <2>1, <2>2, <2>3, <2>4, <2>5, <2>6 DEF Deliver, Store
  <1> QED BY <1>1, <1>2

LEMMA PromiseKept ==
  ASSUME WebhooksInv, PromiseInv, [Next]_vars
  PROVE  PromiseInv'
  <1>1. OutcomeInv'
    <2>1. CASE Crash
      <3>1. /\ UNCHANGED <<row, tries, posts, acks>>
            /\ \A d \in Delivery : job'[d] = IF job[d] = "none" THEN "none" ELSE "over"
        BY <2>1 DEF Crash, table, history
      <3> QED BY <3>1 DEF PromiseInv, OutcomeInv, Outcome, Posting
    <2>2. CASE UNCHANGED vars
      BY <2>2 DEF vars, PromiseInv, OutcomeInv, Outcome
    <2> QED BY <2>1, <2>2, OutcomeKeptByOthers, OutcomeKeptByJobs DEF Next, PromiseInv
  <1>2. MatchInv'
    <2> SUFFICES ASSUME NEW e \in Event
                 PROVE  todo'[e] \subseteq Matches[e]
      BY DEF MatchInv
    <2>1. todo[e] \subseteq Matches[e]
      BY DEF PromiseInv, MatchInv
    <2>2. ASSUME NEW f \in Event, List(f) \/ CreateRow(f)
          PROVE  todo'[e] \subseteq Matches[e]
      <3>1. todo \in [Event -> SUBSET Subscription]
        BY DEF WebhooksInv, TypeOK
      <3>2. CASE List(f)
        <4>1. todo' = [todo EXCEPT ![f] = {s \in Matches[f] : subs[s] = "live"}]
          BY <3>2 DEF List
        <4> QED BY <2>1, <3>1, <4>1
      <3>3. CASE CreateRow(f)
        <4>1. \E s : todo' = [todo EXCEPT ![f] = @ \ {s}]
          BY <3>3 DEF CreateRow
        <4> QED BY <2>1, <3>1, <4>1
      <3> QED BY <2>2, <3>2, <3>3
    <2>3. CASE todo' = todo
      BY <2>1, <2>3
    <2>4. (\E f \in Event : List(f) \/ CreateRow(f)) \/ todo' = todo
      BY DEF Next, vars, Client, Register, Delete, AnswerDelete, Occur, Dispatch, CreateFails,
         DispatchFails, Deliver, Store, Post, Reply, StoreDelivered, StoreRetry, StoreFails,
         WakeUp, Crash, dispatching
    <2> QED BY <2>2, <2>3, <2>4
  <1> QED BY <1>1, <1>2 DEF PromiseInv

(* The abstract state that the webhooks show.                              *)
Shown == [s \in Subscription |-> IF subs[s] = "closed" THEN "deleted" ELSE subs[s]]
Occurred == {e \in Event : dispatch[e] # "idle"}
Open == {d \in Delivery : job[d] \notin {"none", "over"}}
PromiseVars == <<Shown, Occurred, row, tries, Open, posts, acks>>

(* A step of a client registers or deletes, or answers unseen.             *)
LEMMA ClientImplements ==
  ASSUME WebhooksInv, NEW s \in Subscription, Client(s)
  PROVE  Promise!Register(s) \/ Promise!Delete(s) \/ UNCHANGED PromiseVars
  <1> USE DEF WebhooksInv, TypeOK
  <1>1. UNCHANGED <<dispatch, tries, job, posts, acks>>
    BY DEF Client, Register, Delete, AnswerDelete, dispatching, table, history
  <1>2. Occurred' = Occurred /\ Open' = Open
    BY <1>1 DEF Occurred, Open
  <1>3. CASE Register(s)
    <2>1. Shown[s] = "unused" /\ Shown' = [Shown EXCEPT ![s] = "live"] /\ row' = row
      BY <1>3 DEF Register, Shown, table
    <2> QED BY <1>1, <1>2, <2>1 DEF Promise!Register, Shown, Occurred, Open
  <1>4. CASE Delete(s)
    <2>1. Shown[s] = "live" /\ Shown' = [Shown EXCEPT ![s] = "deleted"]
      BY <1>4 DEF Delete, Shown
    <2>2. row' = [d \in Delivery |->
                    IF d[2] = s /\ row[d] # "none" THEN "gone" ELSE row[d]]
      BY <1>4 DEF Delete
    <2> QED BY <1>1, <1>2, <2>1, <2>2
            DEF Promise!Delete, Promise!Delivery, Delivery, Shown, Occurred, Open
  <1>5. CASE AnswerDelete(s)
    <2>1. Shown' = Shown /\ row' = row
      BY <1>5 DEF AnswerDelete, Shown, table
    <2> QED BY <1>1, <1>2, <2>1 DEF PromiseVars
  <1> QED BY <1>3, <1>4, <1>5 DEF Client

(* A step of a dispatch begins it or offers one delivery, or is not seen.  *)
LEMMA DispatchImplements ==
  ASSUME WebhooksInv, PromiseInv, NEW e \in Event,
         Occur(e) \/ Dispatch(e) \/ DispatchFails(e)
  PROVE  \/ Promise!Occur(e)
         \/ \E d \in Delivery : Promise!Offer(d)
         \/ UNCHANGED PromiseVars
  <1> USE DEF WebhooksInv, TypeOK
  <1>1. UNCHANGED <<subs, tries, posts, acks>>
    BY DEF Occur, Dispatch, List, CreateRow, CreateFails, DispatchFails, table, history
  <1>2. Shown' = Shown
    BY <1>1 DEF Shown
  <1>3. CASE Occur(e)
    <2>1. e \notin Occurred /\ Occurred' = Occurred \union {e}
      BY <1>3 DEF Occur, Occurred
    <2>2. row' = row /\ Open' = Open
      BY <1>3 DEF Occur, table, Open
    <2> QED BY <1>1, <1>2, <2>1, <2>2 DEF Promise!Occur, Shown, Occurred, Open
  <1>4. CASE CreateRow(e)
    <2>1. PICK s \in todo[e] :
            /\ subs[s] = "live" /\ dispatch[e] = "create"
            /\ row' = [row EXCEPT ![<<e, s>>] = "pending"]
            /\ job' = [job EXCEPT ![<<e, s>>] = "post"]
            /\ dispatch' = [dispatch EXCEPT ![e] = IF todo[e] = {s} THEN "over" ELSE @]
      BY <1>4 DEF CreateRow
    <2> DEFINE d == <<e, s>>
    <2>2. d \in Delivery /\ d[1] = e /\ d[2] = s /\ s \in Subscription /\ s \in Matches[e]
      BY <2>1 DEF Delivery, PromiseInv, MatchInv
    <2>3. row[d] = "none"
      BY <2>1, <2>2 DEF JobInv, JobStart, JobLate
    <2>4. Occurred' = Occurred /\ e \in Occurred
      BY <2>1 DEF Occurred
    <2>5. Shown[s] = "live"
      BY <2>1, <2>2 DEF Shown
    <2> HIDE DEF d
    <2>6. Open' = Open \union {d}
      BY <2>1, <2>2 DEF Open, d
    <2>7. row' = [row EXCEPT ![d] = "pending"]
      BY <2>1 DEF d
    <2>8. Promise!Offer(d)
      BY <1>1, <1>2, <2>2, <2>3, <2>4, <2>5, <2>6, <2>7
      DEF Promise!Offer, Shown, Occurred, Open
    <2> QED BY <2>2, <2>8
  <1>5. CASE List(e) \/ CreateFails(e) \/ DispatchFails(e)
    <2>1. row' = row /\ job' = job
      BY <1>5 DEF List, CreateFails, DispatchFails, table
    <2>2. Occurred' = Occurred
      BY <1>5 DEF List, CreateFails, DispatchFails, Occurred
    <2> QED BY <1>1, <1>2, <2>1, <2>2 DEF PromiseVars, Open
  <1> QED BY <1>3, <1>4, <1>5 DEF Dispatch

(* A step of a job posts, is processed or records, gives up, or is unseen. *)
LEMMA DeliverImplements ==
  ASSUME WebhooksInv, PromiseInv, NEW d \in Delivery, Deliver(d)
  PROVE  \/ Promise!Post(d) \/ Promise!Process(d) \/ Promise!Abandon
         \/ \E outcome \in {"delivered", "failed", "pending"} : Promise!Record(d, outcome)
         \/ UNCHANGED PromiseVars
  <1> USE DEF GoTo
  <1>1. Shown' = Shown /\ Occurred' = Occurred
    BY DEF Deliver, Store, Post, Reply, StoreDelivered, StoreRetry, StoreFails, WakeUp,
       dispatching, Shown, Occurred
  <1>2. /\ job \in [Delivery -> {"none", "post", "wait", "storeOk", "storeBad", "catch",
                                 "sleep", "over"}]
        /\ row[d] \in {"none", "pending", "delivered", "failed", "gone"}
        /\ attempt[d] \in Nat /\ posts[d] \in Nat /\ acks \in [Delivery -> Nat]
        /\ JobCounts(d) /\ JobAcks(d) /\ JobLate(d) /\ Outcome(d)
    BY DEF WebhooksInv, TypeOK, JobInv, PromiseInv, OutcomeInv
  <1>3. d \in Open
    BY DEF Open, Deliver, Store, Post, Reply, StoreDelivered, StoreRetry, StoreFails, WakeUp
  <1>4. ASSUME NEW label \in {"post", "wait", "storeOk", "storeBad", "catch", "sleep"},
               job' = [job EXCEPT ![d] = label]
        PROVE  Open' = Open
    BY <1>2, <1>3, <1>4 DEF Open
  <1>5. ASSUME job' = [job EXCEPT ![d] = "over"]
        PROVE  Open' = Open \ {d}
    BY <1>2, <1>5 DEF Open
  <1>6. CASE Post(d)
    <2>1. /\ posts' = [posts EXCEPT ![d] = @ + 1] /\ UNCHANGED <<row, tries, acks>>
          /\ job' = [job EXCEPT ![d] = "wait"]
          /\ tries[d] = posts[d] /\ posts[d] < MaxAttempts
      BY <1>2, <1>6 DEF Post, table, JobCounts, Outcome, MaxAttempts
    <2>2. Open' = Open
      BY <1>4, <2>1
    <2>3. Promise!Post(d)
      BY <1>1, <1>3, <2>1, <2>2
      DEF Promise!Post, Promise!MaxAttempts, MaxAttempts, Shown, Occurred, Open
    <2> QED BY <2>3
  <1>7. CASE Reply(d)
    <2>1. PICK label \in {"storeOk", "storeBad", "catch"} : job' = [job EXCEPT ![d] = label]
      BY <1>7 DEF Reply
    <2>2. Open' = Open
      BY <1>4, <2>1
    <2>3. /\ UNCHANGED <<row, tries, posts>> /\ acks[d] < posts[d]
          /\ acks' = acks \/ acks' = [acks EXCEPT ![d] = @ + 1]
      <3>1. \/ acks' = acks
            \/ \E n \in {0, 1} : acks' = [acks EXCEPT ![d] = @ + n]
        BY <1>7 DEF Reply
      <3>2. [acks EXCEPT ![d] = @ + 0] = acks
        BY <1>2
      <3> QED BY <1>2, <1>7, <3>1, <3>2 DEF Reply, table, Outcome
    <2>4. CASE acks' = acks
      BY <1>1, <2>2, <2>3, <2>4 DEF PromiseVars
    <2>5. CASE acks' = [acks EXCEPT ![d] = @ + 1]
      BY <1>1, <2>2, <2>3, <2>5 DEF Promise!Process, Shown, Occurred, Open
    <2> QED BY <2>3, <2>4, <2>5
  <1>8. CASE StoreDelivered(d)
    <2>1. /\ row' = [row EXCEPT ![d] = "delivered"] /\ job' = [job EXCEPT ![d] = "over"]
          /\ tries' = [tries EXCEPT ![d] = posts[d]] /\ UNCHANGED <<posts, acks>>
          /\ acks[d] > 0 /\ tries[d] < posts[d] /\ row[d] = "pending"
      BY <1>2, <1>8 DEF StoreDelivered, history, JobCounts, JobAcks, JobLate, Outcome, Posting
    <2>2. Open' = Open \ {d}
      BY <1>5, <2>1
    <2>3. Promise!Record(d, "delivered")
      BY <1>1, <1>3, <2>1, <2>2 DEF Promise!Record, Shown, Occurred, Open
    <2> QED BY <2>3
  <1>9. CASE StoreRetry(d)
    <2>1. /\ row' = [row EXCEPT ![d] = IF posts[d] = MaxAttempts THEN "failed" ELSE "pending"]
          /\ job' = [job EXCEPT ![d] = IF posts[d] < MaxAttempts THEN "sleep" ELSE "over"]
          /\ tries' = [tries EXCEPT ![d] = posts[d]] /\ UNCHANGED <<posts, acks>>
          /\ tries[d] < posts[d] /\ row[d] = "pending" /\ posts[d] <= MaxAttempts
      BY <1>2, <1>9 DEF StoreRetry, history, JobCounts, JobLate, Outcome, Posting
    <2>2. CASE posts[d] = MaxAttempts
      <3>1. Open' = Open \ {d}
        BY <1>5, <2>1, <2>2 DEF MaxAttempts
      <3>2. Promise!Record(d, "failed")
        BY <1>1, <1>3, <2>1, <2>2, <3>1
        DEF Promise!Record, Promise!MaxAttempts, MaxAttempts, Shown, Occurred, Open
      <3> QED BY <3>2
    <2>3. CASE posts[d] < MaxAttempts
      <3>1. Open' = Open
        BY <1>4, <2>1, <2>3
      <3>2. row' = [row EXCEPT ![d] = "pending"]
        <4>1. posts[d] # MaxAttempts
          BY <1>2, <2>3 DEF MaxAttempts
        <4> QED BY <2>1, <4>1
      <3>3. Promise!Record(d, "pending")
        BY <1>1, <1>3, <2>1, <2>3, <3>1, <3>2
        DEF Promise!Record, Promise!MaxAttempts, MaxAttempts, Shown, Occurred, Open
      <3> QED BY <3>3
    <2> QED BY <1>2, <2>1, <2>2, <2>3 DEF MaxAttempts
  <1>10. CASE StoreFails(d)
    <2>1. /\ UNCHANGED <<row, tries, posts, acks>>
          /\ job' = [job EXCEPT ![d] = "catch"] \/ job' = [job EXCEPT ![d] = "over"]
      BY <1>10 DEF StoreFails, table, history
    <2>2. CASE job' = [job EXCEPT ![d] = "catch"]
      <3>1. Open' = Open
        BY <1>4, <2>2
      <3> QED BY <1>1, <2>1, <3>1 DEF PromiseVars
    <2>3. CASE job' = [job EXCEPT ![d] = "over"]
      <3>1. Open' = Open \ {d} /\ {d} \in SUBSET Open
        BY <1>3, <1>5, <2>3
      <3>2. Promise!Abandon
        BY <1>1, <2>1, <3>1 DEF Promise!Abandon, Shown, Occurred, Open
      <3> QED BY <3>2
    <2> QED BY <2>1, <2>2, <2>3
  <1>11. CASE WakeUp(d)
    <2>1. job' = [job EXCEPT ![d] = "post"] /\ UNCHANGED <<row, tries, posts, acks>>
      BY <1>11 DEF WakeUp, table, history
    <2>2. Open' = Open
      BY <1>4, <2>1
    <2> QED BY <1>1, <2>1, <2>2 DEF PromiseVars
  <1> QED BY <1>6, <1>7, <1>8, <1>9, <1>10, <1>11 DEF Deliver, Store

(* What clients and receivers see of the deliveries is what the abstract   *)
(* delivery allows, whatever is deleted, fails or crashes under a job: no  *)
(* attempt is made with an earlier one not on record, none after the end,  *)
(* and the history tells of each what came of it.                          *)
THEOREM WebhooksKeepTheirPromise == Spec => DeliverySpec
  <1>1. Init => Promise!Init
    <2> SUFFICES ASSUME Init PROVE Promise!Init
      OBVIOUS
    <2>1. Shown = [s \in Subscription |-> "unused"] /\ Occurred = {} /\ Open = {}
      BY DEF Init, Shown, Occurred, Open
    <2> QED BY <2>1 DEF Init, Promise!Init, Promise!Delivery, Delivery, Shown, Occurred, Open
  <1>2. Init => PromiseInv
    BY DEF Init, PromiseInv, OutcomeInv, Outcome, MatchInv, Posting
  <1>3. ASSUME WebhooksInv, PromiseInv, [Next]_vars
        PROVE  [Promise!Next]_(Promise!vars)
    <2>1. Promise!vars = PromiseVars /\ Promise!vars' = PromiseVars'
      BY DEF Promise!vars, PromiseVars, Shown, Occurred, Open
    <2>2. CASE Crash
      <3>1. UNCHANGED <<row, tries, posts, acks>> /\ Shown' = Shown /\ Open' = {}
        BY <2>2 DEF Crash, table, history, Shown, Open
      <3>2. Occurred' = Occurred
        BY <2>2 DEF Crash, Occurred
      <3>3. Open \in SUBSET Open /\ Open' = Open \ Open
        BY <3>1
      <3>4. Promise!Abandon
        BY <3>1, <3>2, <3>3 DEF Promise!Abandon, Shown, Occurred, Open
      <3> QED BY <3>4 DEF Promise!Next
    <2>3. CASE UNCHANGED vars
      BY <2>1, <2>3 DEF vars, PromiseVars, Shown, Occurred, Open
    <2>4. ASSUME NEW s \in Subscription, Client(s)
          PROVE  Promise!Next \/ UNCHANGED PromiseVars
      BY <1>3, <2>4, ClientImplements DEF Promise!Next
    <2>5. ASSUME NEW e \in Event, Occur(e) \/ Dispatch(e) \/ DispatchFails(e)
          PROVE  Promise!Next \/ UNCHANGED PromiseVars
      BY <1>3, <2>5, DispatchImplements DEF Promise!Next, Promise!Delivery, Delivery
    <2>6. ASSUME NEW d \in Delivery, Deliver(d)
          PROVE  Promise!Next \/ UNCHANGED PromiseVars
      BY <1>3, <2>6, DeliverImplements DEF Promise!Next, Promise!Delivery, Delivery
    <2> QED BY <1>3, <2>1, <2>2, <2>3, <2>4, <2>5, <2>6 DEF Next
  <1> QED BY <1>1, <1>2, <1>3, PromiseKept, WebhooksInvariantHolds, PTL
          DEF Spec, DeliverySpec, Promise!Spec
=============================================================================
