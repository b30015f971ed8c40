--------------------------- MODULE ReportsProofs ----------------------------
(***************************************************************************)
(* Theorems about Reports, for every set of operations, every length of    *)
(* the day, zone, timeout, page size and bound.                            *)
(***************************************************************************)
EXTENDS Reports, TLAPS, FiniteSetTheorems

IsOp(o) == op[o].pc \in {"idle", "open", "recorded", "committed", "received", "over"}

(* What an operation carries while its transaction is open: it began and   *)
(* was stamped in the past, and has the funds it spends once it holds the  *)
(* lock of the account's row.                                              *)
Pending(o) == op[o].pc \in {"open", "recorded"}

Opened == [pc : {"open", "recorded"}, kind : {"DEPOSIT", "WITHDRAWAL", "TRANSFER", Received},
           began : 0..now, stamp : 0..now]

Carries(o) ==
  /\ IsOp(o)
  /\ Pending(o) =>
       /\ op[o] \in Opened
       /\ reader = Statements => op[o].began <= op[o].stamp
  /\ Holds(o) => (op[o].kind \in Debit => balance > 0)
  /\ op[o].pc = "committed" => op[o].kind \in Credit \union Debit

Row(t) == [op : Op, kind : Credit \union Debit, stamp : 0..t, read : BOOLEAN]

Operations ==
  /\ op = [o \in Op |-> op[o]]
  /\ \A o \in Op : Carries(o)
  /\ \A o1, o2 \in Op : Holds(o1) /\ Holds(o2) => o1 = o2

(* A statement that is final has every row it will ever have.              *)
Final(s) ==
  /\ s.first \in Int /\ s.last \in Int /\ s.at \in Int /\ s.at <= now
  /\ s.alive /\ account /\ RangeEnd(s.last) + Timeout < s.at => s.rows = Within(s.first, s.last)

Readings ==
  /\ taken # {} \/ asked # <<>> => reader = Statements
  /\ \A s \in taken : Final(s)

ReportsInv == TypeOK /\ Operations /\ "pc" \in DOMAIN walk /\ Readings /\ PastPeriodsAreFinal

LEMMA ConstantFacts ==
  /\ Day \in Nat /\ Day > 0 /\ Timeout \in Nat /\ MaxTime \in Nat
  /\ Dates \subseteq Int
  <1>1. /\ Day \in Nat /\ Day > 0 /\ Timeout \in Nat /\ MaxTime \in Nat
    BY ReportsAssumption
  <1>2. Dates \subseteq Int
    BY <1>1 DEF Dates
  <1> QED BY <1>1, <1>2

LEMMA ZoneFacts ==
  ASSUME TypeOK
  PROVE  /\ zone.before \in Int /\ 1 - Day <= zone.before /\ zone.before <= Day - 1
         /\ zone.after \in Int /\ 1 - Day <= zone.after /\ zone.after <= Day - 1
         /\ zone.change \in Int
  <1>1. CASE zone \in Zones
    BY <1>1, ReportsAssumption
  <1>2. CASE zone = Greenwich
    BY <1>2, ReportsAssumption DEF Greenwich
  <1> QED BY <1>1, <1>2 DEF TypeOK

(* The ends of a period are instants.                                      *)
LEMMA RangeFacts ==
  ASSUME TypeOK, NEW d \in Int
  PROVE  RangeStart(d) \in Int /\ RangeEnd(d) \in Int
  <1> DEFINE k == LocalDay(Utc(d))
  <1>1. d * Day \in Int /\ Day \in Nat /\ Day > 0
    BY ConstantFacts
  <1>2. Utc(d) + ShiftAt(Utc(d)) \in Int
    BY <1>1, ZoneFacts DEF Utc, ShiftAt
  <1>3. k \in Int
    BY <1>1, <1>2 DEF LocalDay
  <1> HIDE DEF k
  <1>4. k * Day \in Int /\ k * Day + Day - 1 \in Int
    BY <1>1, <1>3
  <1>5. \A l \in Int : InstantOf(l) \in Int
    BY ZoneFacts DEF InstantOf
  <1> QED BY <1>4, <1>5 DEF RangeStart, RangeEnd, LocalMidnight, LocalEnd, k

(* They depend on the zone alone.                                          *)
LEMMA RangesKept ==
  ASSUME UNCHANGED zone
  PROVE  \A d : RangeStart(d)' = RangeStart(d) /\ RangeEnd(d)' = RangeEnd(d)
  BY DEF RangeStart, RangeEnd, LocalMidnight, LocalEnd, LocalDay, InstantOf, ShiftAt

LEMMA ReportsInit == Init => ReportsInv
  <1> SUFFICES ASSUME Init PROVE ReportsInv
    OBVIOUS
  <1>1. \A o \in Op : op[o].pc = "idle"
    BY DEF Init
  <1>2. zone \in Zones \union {Greenwich}
    BY DEF Init
  <1>3. TypeOK
    BY <1>1, <1>2, ConstantFacts DEF Init, TypeOK, NoWalk
  <1>4. Operations
    BY <1>1 DEF Init, Operations, Carries, IsOp, Pending, Holds
  <1> QED BY <1>3, <1>4 DEF Init, ReportsInv, Readings, PastPeriodsAreFinal, NoWalk

(* The reader of a list is still where it was.                             *)
LEMMA WatchKeeps ==
  ASSUME Watch, "pc" \in DOMAIN walk
  PROVE  walk'.pc = walk.pc /\ "pc" \in DOMAIN walk'
  BY DEF Watch

(* Statements stay final while no row comes that is as old as theirs.      *)
LEMMA ReadingsKept ==
  ASSUME TypeOK, Readings, PastPeriodsAreFinal, UNCHANGED <<reader, zone, asked, taken>>,
         now <= now', now' \in Int, account' => account,
         \A r : r \in journal \ journal' => ~account',
         \A r \in journal' \ journal : r.stamp \in Int /\ now - Timeout <= r.stamp
  PROVE  Readings' /\ PastPeriodsAreFinal'
  <1> USE ConstantFacts
  <1>1. ASSUME NEW s \in taken PROVE Final(s)'
    <2>1. Final(s) /\ now \in Int
      BY DEF Readings, TypeOK
    <2>2. CASE s.alive /\ account' /\ RangeEnd(s.last) + Timeout < s.at
      <3>1. journal \subseteq journal' /\ s.rows = Within(s.first, s.last)
        BY <2>1, <2>2 DEF Final
      <3>2. RangeEnd(s.last) \in Int
        BY <2>1, RangeFacts DEF Final
      <3>3. ASSUME NEW r \in journal' \ journal PROVE ~(r.stamp <= RangeEnd(s.last))
        BY <2>1, <2>2, <3>2, <3>3 DEF Final
      <3>4. RangeEnd(s.last)' = RangeEnd(s.last) /\ RangeStart(s.first)' = RangeStart(s.first)
        BY RangesKept
      <3>5. Within(s.first, s.last)' = Within(s.first, s.last)
        BY <3>1, <3>3, <3>4 DEF Within
      <3> QED BY <2>1, <3>1, <3>5 DEF Final
    <2>3. CASE ~(s.alive /\ account' /\ RangeEnd(s.last) + Timeout < s.at)
      <3>1. RangeEnd(s.last)' = RangeEnd(s.last)
        BY RangesKept
      <3> QED BY <2>1, <2>3, <3>1 DEF Final
    <2> QED BY <2>2, <2>3
  <1>2. \A d : RangeEnd(d)' = RangeEnd(d)
    BY RangesKept
  <1>3. PastPeriodsAreFinal'
    BY <1>2 DEF PastPeriodsAreFinal
  <1> QED BY <1>1, <1>3 DEF Readings

-----------------------------------------------------------------------------
(* One lemma per action, or per group of actions that touch the same part. *)

(* Nothing but the operations changes, and only o's.                       *)
LEMMA OperationKeeps ==
  ASSUME ReportsInv, NEW o \in Op, UNCHANGED <<reader, now, zone, account, balance, journal, notes, walk, asked, taken>>,
         op' = [s \in Op |-> op'[s]], \A s \in Op \ {o} : op'[s] = op[s],
         Carries(o)', Holds(o)' => \A s \in Op : ~Holds(s)
  PROVE  ReportsInv'
  <1> USE DEF ReportsInv
  <1>1. \A s \in Op : Carries(s)'
    BY DEF Operations, Carries, IsOp, Pending, Holds, Opened
  <1>2. \A s, t \in Op : Holds(s)' /\ Holds(t)' => s = t
    BY DEF Operations, Holds
  <1>3. TypeOK'
    BY <1>1 DEF TypeOK, Carries, IsOp, Walking, Dates
  <1>4. Readings' /\ PastPeriodsAreFinal'
    BY ReadingsKept DEF TypeOK
  <1> QED BY <1>1, <1>2, <1>3, <1>4 DEF Operations

LEMMA BeginKeeps ==
  ASSUME ReportsInv, NEW o \in Op, Begin(o)
  PROVE  ReportsInv'
  <1>1. PICK kind \in Kind[o] :
          op' = [op EXCEPT ![o] = [pc |-> "open", kind |-> kind, began |-> now, stamp |-> now]]
    BY DEF Begin
  <1>2. /\ op' = [s \in Op |-> op'[s]] /\ \A s \in Op \ {o} : op'[s] = op[s]
        /\ op'[o] = [pc |-> "open", kind |-> kind, began |-> now, stamp |-> now]
    BY <1>1 DEF ReportsInv, Operations
  <1>3. now \in 0..now' /\ now <= now
    BY DEF Begin, ReportsInv, TypeOK
  <1>4. op'[o] \in Opened'
    BY <1>2, <1>3, ReportsAssumption DEF Opened, Received
  <1>5. Carries(o)' /\ ~Holds(o)'
    BY <1>2, <1>3, <1>4 DEF Carries, IsOp, Pending, Holds
  <1> QED BY <1>2, <1>5, OperationKeeps DEF Begin

LEMMA RecordKeeps ==
  ASSUME ReportsInv, NEW o \in Op, Record(o)
  PROVE  ReportsInv'
  <1>1. PICK t \in Stamps(o) : op' = [op EXCEPT ![o].pc = "recorded", ![o].stamp = t]
    BY DEF Record
  <1>2. /\ op[o].pc = "open" /\ op[o] \in Opened
        /\ op[o].kind \in Debit => balance > 0
        /\ \A s \in Op : ~Holds(s)
    BY DEF Record, ReportsInv, Operations, Carries, Pending, Holds
  <1>3. t \in 0..now /\ (reader = Statements => op[o].began <= t)
    <2>1. op[o].began \in 0..now /\ now \in Nat
      BY <1>2, ConstantFacts DEF Opened, ReportsInv, TypeOK
    <2>2. CASE reader.list = "notifications"
      BY <2>1, <2>2 DEF Stamps, Statements
    <2>3. CASE reader.list # "notifications"
      BY <2>1, <2>3 DEF Stamps
    <2> QED BY <2>2, <2>3
  <1>4. /\ op' = [s \in Op |-> op'[s]] /\ \A s \in Op \ {o} : op'[s] = op[s]
    BY <1>1 DEF ReportsInv, Operations
  <1>5. op'[o] = [op[o] EXCEPT !.pc = "recorded", !.stamp = t]
    BY <1>1 DEF ReportsInv, Operations
  <1>6. /\ op'[o] \in Opened /\ op'[o].pc = "recorded" /\ op'[o].stamp = t
        /\ op'[o].began = op[o].began /\ op'[o].kind = op[o].kind
    BY <1>2, <1>3, <1>5 DEF Opened
  <1>7. op'[o] \in Opened' /\ UNCHANGED <<reader, now, balance>>
    BY <1>6 DEF Record, Opened
  <1>8. Carries(o)'
    BY <1>2, <1>3, <1>6, <1>7 DEF Carries, IsOp, Pending, Holds
  <1> QED BY <1>2, <1>4, <1>8, OperationKeeps DEF Record

LEMMA AbortKeeps ==
  ASSUME ReportsInv, NEW o \in Op, Abort(o)
  PROVE  ReportsInv'
  <1>1. /\ op' = [s \in Op |-> op'[s]] /\ \A s \in Op \ {o} : op'[s] = op[s]
        /\ op'[o] = Over
    BY DEF Abort, ReportsInv, Operations
  <1>2. Carries(o)' /\ ~Holds(o)'
    BY <1>1 DEF Carries, IsOp, Pending, Holds, Over
  <1> QED BY <1>1, <1>2, OperationKeeps DEF Abort

LEMMA TickKeeps ==
  ASSUME ReportsInv, Tick
  PROVE  ReportsInv'
  <1> USE ConstantFacts DEF ReportsInv
  <1>1. now \in Nat /\ now' = now + 1 /\ now' \in 0..MaxTime
    BY DEF Tick, TypeOK
  <1>2. UNCHANGED <<reader, zone, account, balance, op, journal, notes, walk, asked, taken>>
    BY DEF Tick, money
  <1>3. TypeOK'
    BY <1>1, <1>2 DEF TypeOK, Walking, Dates
  <1>4. Operations'
    BY <1>1, <1>2 DEF Operations, Carries, IsOp, Pending, Holds, Opened
  <1>5. Readings' /\ PastPeriodsAreFinal'
    BY <1>1, <1>2, ReadingsKept
  <1> QED BY <1>2, <1>3, <1>4, <1>5

(* What a commit adds to the journal is no older than the timeout.         *)
LEMMA CommitKeeps ==
  ASSUME ReportsInv, NEW o \in Op, Commit(o)
  PROVE  ReportsInv'
  <1> USE ConstantFacts DEF ReportsInv
  <1>1. /\ Holds(o) /\ op[o] \in Opened /\ now <= op[o].began + Timeout
        /\ reader = Statements => op[o].began <= op[o].stamp
        /\ op[o].kind \in Debit => balance > 0
        /\ UNCHANGED <<reader, now, zone, account, notes, asked, taken>>
        /\ Watch
    BY DEF Commit, Commits, Operations, Carries, Holds, Pending
  <1>2. /\ op' = [s \in Op |-> op'[s]] /\ \A s \in Op \ {o} : op'[s] = op[s]
        /\ op'[o].pc = "received" \/ (op'[o].pc = "committed" /\ op'[o].kind \in Credit \union Debit)
    BY <1>1 DEF Commit, Commits, Operations, Opened, Received, Credit, Debit
  <1>3. balance' \in Nat
    BY <1>1 DEF Commit, Commits, TypeOK
  <1>4. /\ op[o].began \in 0..now /\ op[o].stamp \in 0..now /\ now \in Nat
    BY <1>1 DEF Opened, TypeOK
  <1>5. \/ journal' = journal
        \/ /\ op[o].kind \in Credit \union Debit
           /\ journal' = journal \union {[op |-> o, kind |-> op[o].kind, stamp |-> op[o].stamp, read |-> FALSE]}
    BY <1>1 DEF Commit, Commits, Opened, Received, Credit, Debit
  <1>6. journal' \subseteq Row(now)
    <2>1. journal \subseteq Row(now)
      BY DEF TypeOK, Row
    <2>2. op[o].kind \in Credit \union Debit =>
            [op |-> o, kind |-> op[o].kind, stamp |-> op[o].stamp, read |-> FALSE] \in Row(now)
      BY <1>4 DEF Row
    <2> QED BY <1>5, <2>1, <2>2
  <1>7. "pc" \in DOMAIN walk' /\ walk'.pc = walk.pc
    BY <1>1, WatchKeeps
  <1>8. \A s \in Op : ~Holds(s)'
    BY <1>1, <1>2 DEF Operations, Holds
  <1>9. Operations'
    BY <1>1, <1>2, <1>8 DEF Operations, Carries, IsOp, Pending, Holds, Opened
  <1>10. TypeOK'
    BY <1>1, <1>3, <1>6, <1>7, <1>9 DEF TypeOK, Row, Operations, Carries, IsOp, Walking, Dates
  <1>11. Readings' /\ PastPeriodsAreFinal'
    <2>1. CASE reader = Statements
      <3>1. \A r \in journal' \ journal : r.stamp \in Int /\ now - Timeout <= r.stamp
        BY <1>1, <1>4, <1>5, <2>1
      <3>2. journal \subseteq journal'
        BY <1>5
      <3> QED BY <1>1, <1>4, <3>1, <3>2, ReadingsKept
    <2>2. CASE reader # Statements
      BY <1>1, <2>2 DEF Readings, PastPeriodsAreFinal
    <2> QED BY <2>1, <2>2
  <1> QED BY <1>7, <1>9, <1>10, <1>11

LEMMA NotifyKeeps ==
  ASSUME ReportsInv, NEW o \in Op, Notify(o)
  PROVE  ReportsInv'
  <1> USE ConstantFacts DEF ReportsInv
  <1>1. /\ op' = [s \in Op |-> op'[s]] /\ \A s \in Op \ {o} : op'[s] = op[s]
        /\ op'[o] = Over /\ Watch
        /\ UNCHANGED <<reader, now, zone, account, balance, journal, asked, taken>>
    BY DEF Notify, Operations
  <1>2. now \in Nat
    BY DEF TypeOK
  <1>3. notes' \subseteq Row(now)
    <2>1. notes \subseteq Row(now)
      BY DEF TypeOK, Row
    <2>2. op[o].kind \in Credit \union Debit
      BY DEF Notify, Operations, Carries
    <2>3. [op |-> o, kind |-> op[o].kind, stamp |-> now, read |-> FALSE] \in Row(now)
      BY <1>2, <2>2 DEF Row
    <2> QED BY <2>1, <2>3 DEF Notify
  <1>4. "pc" \in DOMAIN walk' /\ walk'.pc = walk.pc
    BY <1>1, WatchKeeps
  <1>5. Carries(o)' /\ ~Holds(o)'
    BY <1>1 DEF Carries, IsOp, Pending, Holds, Over
  <1>6. Operations'
    BY <1>1, <1>5 DEF Operations, Carries, IsOp, Pending, Holds, Opened
  <1>7. TypeOK'
    BY <1>1, <1>3, <1>4, <1>6 DEF TypeOK, Row, Operations, Carries, IsOp, Walking, Dates
  <1>8. Readings' /\ PastPeriodsAreFinal'
    BY <1>1, <1>2, ReadingsKept
  <1> QED BY <1>4, <1>6, <1>7, <1>8

LEMMA DeleteAccountKeeps ==
  ASSUME ReportsInv, DeleteAccount
  PROVE  ReportsInv'
  <1> USE ConstantFacts DEF ReportsInv
  <1>1. /\ account' = FALSE /\ journal' = {} /\ Watch
        /\ UNCHANGED <<reader, now, zone, balance, op, notes, asked, taken>>
    BY DEF DeleteAccount
  <1>2. "pc" \in DOMAIN walk' /\ walk'.pc = walk.pc
    BY <1>1, WatchKeeps
  <1>3. TypeOK' /\ Operations'
    BY <1>1, <1>2 DEF TypeOK, Row, Operations, Carries, IsOp, Pending, Holds, Opened, Walking, Dates
  <1>4. Readings' /\ PastPeriodsAreFinal'
    BY <1>1, ReadingsKept DEF TypeOK
  <1> QED BY <1>2, <1>3, <1>4

LEMMA MarkAsReadKeeps ==
  ASSUME ReportsInv, NEW n \in notes, MarkAsRead(n)
  PROVE  ReportsInv'
  <1> USE ConstantFacts DEF ReportsInv
  <1>1. /\ notes' = (notes \ {n}) \union {[n EXCEPT !.read = TRUE]} /\ Watch
        /\ UNCHANGED <<reader, now, zone, account, balance, op, journal, asked, taken>>
    BY DEF MarkAsRead
  <1>2. "pc" \in DOMAIN walk' /\ walk'.pc = walk.pc
    BY <1>1, WatchKeeps
  <1>3. notes' \subseteq Row(now)
    BY <1>1 DEF TypeOK, Row
  <1>4. TypeOK' /\ Operations'
    BY <1>1, <1>2, <1>3 DEF TypeOK, Row, Operations, Carries, IsOp, Pending, Holds, Opened, Walking, Dates
  <1>5. Readings' /\ PastPeriodsAreFinal'
    BY <1>1, ReadingsKept DEF TypeOK
  <1> QED BY <1>2, <1>4, <1>5

LEMMA WalkKeeps ==
  ASSUME ReportsInv, BeginWalk \/ LookUp \/ FindMany \/ Count \/ Answer
  PROVE  ReportsInv'
  <1> USE ConstantFacts DEF ReportsInv
  <1>1. UNCHANGED <<reader, now, zone, account, balance, op, journal, notes, asked, taken>>
    BY DEF BeginWalk, LookUp, FindMany, Count, Answer, money
  <1>2. "pc" \in DOMAIN walk' /\ walk'.pc \in {"ask", "query", "refused", "done"}
    <2>1. CASE BeginWalk
      BY <2>1 DEF BeginWalk, Reader
    <2>2. CASE LookUp
      BY <2>2 DEF LookUp
    <2>3. CASE FindMany
      <3>1. walk'.pc = walk.pc /\ walk.pc = "query" /\ DOMAIN walk' = DOMAIN walk
        BY <2>3 DEF FindMany
      <3> QED BY <3>1
    <2>4. CASE Count
      BY <2>4 DEF Count
    <2>5. CASE Answer
      BY <2>5 DEF Answer
    <2> QED BY <2>1, <2>2, <2>3, <2>4, <2>5
  <1>3. TypeOK' /\ Operations'
    BY <1>1, <1>2 DEF TypeOK, Operations, Carries, IsOp, Pending, Holds, Opened, Walking, Dates
  <1>4. Readings' /\ PastPeriodsAreFinal'
    BY <1>1, ReadingsKept DEF TypeOK
  <1> QED BY <1>2, <1>3, <1>4

LEMMA AskStatementKeeps ==
  ASSUME ReportsInv, NEW first \in Dates, NEW last \in Dates, AskStatement(first, last)
  PROVE  ReportsInv'
  <1> USE ConstantFacts DEF ReportsInv
  <1>1. /\ reader = Statements /\ asked' = <<first, last>>
        /\ UNCHANGED <<reader, now, zone, account, balance, op, journal, notes, walk, taken>>
    BY DEF AskStatement, money
  <1>2. TypeOK' /\ Operations'
    BY <1>1 DEF TypeOK, Operations, Carries, IsOp, Pending, Holds, Opened, Walking, Dates
  <1>3. \A f, l : RangeEnd(l)' = RangeEnd(l) /\ Within(f, l)' = Within(f, l)
    BY <1>1, RangesKept DEF Within
  <1>4. Readings'
    BY <1>1, <1>3 DEF Readings, Final
  <1>5. PastPeriodsAreFinal'
    BY <1>1, <1>3 DEF PastPeriodsAreFinal
  <1> QED BY <1>1, <1>2, <1>4, <1>5

(* The new statement is the latest; an earlier one that is final has the   *)
(* rows that are in the journal now.                                       *)
LEMMA MakeStatementKeeps ==
  ASSUME ReportsInv, MakeStatement
  PROVE  ReportsInv'
  <1> USE ConstantFacts DEF ReportsInv
  <1> DEFINE new == [first |-> asked[1], last |-> asked[2], at |-> now, alive |-> account,
                     rows |-> Within(asked[1], asked[2])]
  <1>1. /\ asked # <<>> /\ taken' = taken \union {new} /\ asked' = <<>>
        /\ UNCHANGED <<reader, now, zone, account, balance, op, journal, notes, walk>>
    BY DEF MakeStatement, money
  <1>2. asked[1] \in Int /\ asked[2] \in Int /\ now \in Nat
    <2>1. asked \in Dates \X Dates /\ now \in Nat
      BY <1>1 DEF TypeOK
    <2>2. asked[1] \in Dates /\ asked[2] \in Dates
      BY <2>1
    <2> QED BY <2>1, <2>2
  <1>3. TypeOK' /\ Operations'
    BY <1>1 DEF TypeOK, Operations, Carries, IsOp, Pending, Holds, Opened, Walking, Dates
  <1>4. \A f, l : RangeEnd(l)' = RangeEnd(l) /\ Within(f, l)' = Within(f, l)
    BY <1>1, RangesKept DEF Within
  <1>5. Final(new)
    BY <1>2 DEF Final
  <1>6. \A s \in taken' : Final(s)
    BY <1>1, <1>5 DEF Readings
  <1>7. Readings'
    BY <1>1, <1>4, <1>6 DEF Readings, Final
  <1>8. ASSUME NEW s \in taken', NEW t \in taken',
               s.first = t.first, s.last = t.last, s.alive, t.alive,
               RangeEnd(s.last) + Timeout < s.at, s.at <= t.at
        PROVE  s.rows = t.rows
    <2>1. CASE s \in taken /\ t \in taken
      BY <1>8, <2>1 DEF PastPeriodsAreFinal
    <2>2. CASE t = new
      BY <1>6, <1>8, <2>2 DEF Final
    <2>3. CASE s = new
      <3>1. t.at = s.at /\ account
        BY <1>2, <1>6, <1>8, <2>3 DEF Final
      <3>2. t.rows = Within(t.first, t.last)
        BY <1>6, <1>8, <3>1 DEF Final
      <3> QED BY <1>8, <2>3, <3>2
    <2> QED BY <1>1, <2>1, <2>2, <2>3
  <1>9. PastPeriodsAreFinal'
    BY <1>1, <1>4, <1>8 DEF PastPeriodsAreFinal
  <1> QED BY <1>1, <1>3, <1>7, <1>9

LEMMA ReportsStep == ReportsInv /\ [Next]_vars => ReportsInv'
  <1> SUFFICES ASSUME ReportsInv, [Next]_vars
               PROVE  ReportsInv'
    OBVIOUS
  <1>1. CASE Tick
    BY <1>1, TickKeeps
  <1>2. ASSUME NEW o \in Op, Begin(o) PROVE ReportsInv'
    BY <1>2, BeginKeeps
  <1>3. ASSUME NEW o \in Op, Record(o) PROVE ReportsInv'
    BY <1>3, RecordKeeps
  <1>4. ASSUME NEW o \in Op, Commit(o) PROVE ReportsInv'
    BY <1>4, CommitKeeps
  <1>5. ASSUME NEW o \in Op, Abort(o) PROVE ReportsInv'
    BY <1>5, AbortKeeps
  <1>6. ASSUME NEW o \in Op, Notify(o) PROVE ReportsInv'
    BY <1>6, NotifyKeeps
  <1>7. CASE DeleteAccount
    BY <1>7, DeleteAccountKeeps
  <1>8. ASSUME NEW n \in notes, MarkAsRead(n) PROVE ReportsInv'
    BY <1>8, MarkAsReadKeeps
  <1>9. CASE BeginWalk \/ LookUp \/ FindMany \/ Count \/ Answer
    BY <1>9, WalkKeeps
  <1>10. ASSUME NEW first \in Dates, NEW last \in Dates, AskStatement(first, last) PROVE ReportsInv'
    BY <1>10, AskStatementKeeps
  <1>11. CASE MakeStatement
    BY <1>11, MakeStatementKeeps
  <1>12. CASE UNCHANGED vars
    <2>1. TypeOK' /\ Operations' /\ UNCHANGED vars
      BY <1>12 DEF vars, ReportsInv, TypeOK, Operations, Carries, IsOp, Pending, Holds, Opened, Walking, Dates
    <2>2. Readings' /\ PastPeriodsAreFinal'
      BY <2>1, ConstantFacts, ReadingsKept DEF vars, ReportsInv, TypeOK
    <2> QED BY <2>1, <2>2 DEF vars, ReportsInv
  <1> QED BY <1>1, <1>2, <1>3, <1>4, <1>5, <1>6, <1>7, <1>8, <1>9, <1>10, <1>11, <1>12 DEF Next

LEMMA ReportsInvariant == Spec => []ReportsInv
  BY ReportsInit, ReportsStep, PTL DEF Spec

(* Rows are well formed and stamped in the past, and no balance is         *)
(* negative.                                                               *)
THEOREM ReportsTypes == Spec => []TypeOK
  <1>1. ReportsInv => TypeOK
    BY DEF ReportsInv
  <1> QED BY <1>1, ReportsInvariant, PTL

(* In any zone and for any timeout, a statement of a period that ended     *)
(* more than the timeout ago never changes.                                *)
THEOREM PastStatementsAreFinal == Spec => []PastPeriodsAreFinal
  <1>1. ReportsInv => PastPeriodsAreFinal
    BY DEF ReportsInv
  <1> QED BY <1>1, ReportsInvariant, PTL

-----------------------------------------------------------------------------
(* The balance: what the rows of the journal and the transfers received    *)
(* add up to.                                                              *)
Credits == {r \in journal : r.kind \in Credit}
Debits == {r \in journal : r.kind \in Debit}
ReceivedOps == {o \in Op : op[o].pc = "received"}

Sum ==
  /\ IsFiniteSet(journal) /\ IsFiniteSet(ReceivedOps)
  /\ \A r \in journal : op[r.op].pc \in {"committed", "over"}
  /\ account => balance = Cardinality(Credits) - Cardinality(Debits) + Cardinality(ReceivedOps)

LEMMA SumFacts ==
  ASSUME IsFiniteSet(journal), IsFiniteSet(ReceivedOps)
  PROVE  /\ IsFiniteSet(Credits) /\ IsFiniteSet(Debits)
         /\ Cardinality(Credits) \in Nat /\ Cardinality(Debits) \in Nat /\ Cardinality(ReceivedOps) \in Nat
  <1>1. Credits \subseteq journal /\ Debits \subseteq journal
    BY DEF Credits, Debits
  <1>2. IsFiniteSet(Credits) /\ IsFiniteSet(Debits)
    BY <1>1, FS_Subset
  <1> QED BY <1>2, FS_CardinalityType

LEMMA OneMore ==
  ASSUME NEW S, IsFiniteSet(S), NEW x, x \notin S
  PROVE  IsFiniteSet(S \union {x}) /\ Cardinality(S \union {x}) = Cardinality(S) + 1
  BY FS_AddElement

LEMMA CommitSums ==
  ASSUME ReportsInv, Sum, NEW o \in Op, Commit(o)
  PROVE  Sum'
  <1> DEFINE row == [op |-> o, kind |-> op[o].kind, stamp |-> op[o].stamp, read |-> FALSE]
             outcome == [pc |-> IF op[o].kind = Received THEN "received" ELSE "committed", kind |-> op[o].kind]
  <1>1. /\ op[o].pc = "recorded" /\ account' = account
        /\ op[o].kind \in {"DEPOSIT", "WITHDRAWAL", "TRANSFER", Received}
        /\ balance \in Nat
    BY DEF Commit, Commits, Holds, ReportsInv, Operations, Carries, Pending, Opened, TypeOK
  <1>2. /\ op' = [s \in Op |-> op'[s]] /\ op'[o] = outcome
        /\ \A s \in Op \ {o} : op'[s] = op[s]
    BY DEF Commit, Commits, ReportsInv, Operations
  <1>3. row \notin journal /\ o \notin ReceivedOps
    BY <1>1 DEF Sum, ReceivedOps
  <1>4. /\ IsFiniteSet(Credits) /\ IsFiniteSet(Debits)
        /\ Cardinality(Credits) \in Nat /\ Cardinality(Debits) \in Nat /\ Cardinality(ReceivedOps) \in Nat
    BY SumFacts DEF Sum
  <1>5. row \notin Credits /\ row \notin Debits
    BY <1>3 DEF Credits, Debits
  <1>6. \A r \in journal : op'[r.op].pc \in {"committed", "over"}
    <2> SUFFICES ASSUME NEW r \in journal PROVE op'[r.op].pc \in {"committed", "over"}
      OBVIOUS
    <2>1. r.op \in Op /\ op[r.op].pc \in {"committed", "over"}
      BY DEF Sum, ReportsInv, TypeOK
    <2> QED BY <1>1, <1>2, <2>1
  <1>7. CASE op[o].kind = Received
    <2>1. journal' = journal /\ balance' = balance + 1
      BY <1>7 DEF Commit, Commits, Received, Debit
    <2>2. ReceivedOps' = ReceivedOps \union {o}
      BY <1>2, <1>7 DEF ReceivedOps
    <2>3. IsFiniteSet(ReceivedOps') /\ Cardinality(ReceivedOps') = Cardinality(ReceivedOps) + 1
      BY <1>3, <2>2, OneMore DEF Sum
    <2>4. Credits' = Credits /\ Debits' = Debits
      BY <2>1 DEF Credits, Debits
    <2> QED BY <1>1, <1>4, <1>6, <2>1, <2>3, <2>4 DEF Sum
  <1>8. CASE op[o].kind # Received
    <2>1. journal' = journal \union {row} /\ row.kind = op[o].kind
      BY <1>8 DEF Commit, Commits
    <2>2. ReceivedOps' = ReceivedOps
      BY <1>1, <1>2, <1>8 DEF ReceivedOps
    <2>3. IsFiniteSet(journal')
      BY <1>3, <2>1, OneMore DEF Sum
    <2>4. op'[row.op].pc = "committed"
      BY <1>2, <1>8
    <2>5. \A r \in journal' : op'[r.op].pc \in {"committed", "over"}
      BY <1>6, <2>1, <2>4
    <2>6. CASE op[o].kind = "DEPOSIT"
      <3>1. Credits' = Credits \union {row} /\ Debits' = Debits
        BY <2>1, <2>6 DEF Credits, Debits, Credit, Debit
      <3>2. Cardinality(Credits') = Cardinality(Credits) + 1
        BY <1>4, <1>5, <3>1, OneMore
      <3>3. balance' = balance + 1
        BY <2>6 DEF Commit, Commits, Debit
      <3> QED BY <1>1, <1>4, <2>2, <2>3, <2>5, <3>1, <3>2, <3>3 DEF Sum
    <2>7. CASE op[o].kind \in {"WITHDRAWAL", "TRANSFER"}
      <3>1. Debits' = Debits \union {row} /\ Credits' = Credits
        BY <2>1, <2>7 DEF Credits, Debits, Credit, Debit
      <3>2. Cardinality(Debits') = Cardinality(Debits) + 1
        BY <1>4, <1>5, <3>1, OneMore
      <3>3. balance' = balance - 1
        BY <2>7 DEF Commit, Commits, Debit
      <3> QED BY <1>1, <1>4, <2>2, <2>3, <2>5, <3>1, <3>2, <3>3 DEF Sum
    <2> QED BY <1>1, <1>8, <2>6, <2>7
  <1> QED BY <1>7, <1>8

(* An operation that neither was nor becomes a received transfer, and has  *)
(* no row yet or is over.                                                  *)
LEMMA OperationSums ==
  ASSUME ReportsInv, Sum, NEW o \in Op, UNCHANGED <<account, balance, journal>>,
         op' = [s \in Op |-> op'[s]], \A s \in Op \ {o} : op'[s] = op[s],
         op[o].pc # "received", op'[o].pc # "received",
         op[o].pc \in {"committed", "over"} => op'[o].pc \in {"committed", "over"}
  PROVE  Sum'
  <1>1. ReceivedOps' = ReceivedOps /\ Credits' = Credits /\ Debits' = Debits
    BY DEF ReceivedOps, Credits, Debits
  <1>2. \A r \in journal : r.op \in Op
    BY DEF ReportsInv, TypeOK
  <1> QED BY <1>1, <1>2 DEF Sum

LEMMA SumStep == ReportsInv /\ Sum /\ [Next]_vars => Sum'
  <1> SUFFICES ASSUME ReportsInv, Sum, [Next]_vars PROVE Sum'
    OBVIOUS
  <1>1. ASSUME NEW o \in Op, Begin(o) PROVE Sum'
    <2>1. /\ op' = [s \in Op |-> op'[s]] /\ \A s \in Op \ {o} : op'[s] = op[s]
          /\ op[o].pc = "idle" /\ op'[o].pc = "open"
      BY <1>1 DEF Begin, ReportsInv, Operations
    <2> QED BY <1>1, <2>1, OperationSums DEF Begin
  <1>2. ASSUME NEW o \in Op, Record(o) PROVE Sum'
    <2>1. op[o].pc = "open" /\ op[o] \in Opened
      BY <1>2 DEF Record, ReportsInv, Operations, Carries, Pending
    <2>2. /\ op' = [s \in Op |-> op'[s]] /\ \A s \in Op \ {o} : op'[s] = op[s]
          /\ op'[o].pc = "recorded"
      BY <1>2, <2>1 DEF Record, ReportsInv, Operations, Opened
    <2> QED BY <1>2, <2>1, <2>2, OperationSums DEF Record
  <1>3. ASSUME NEW o \in Op, Abort(o) PROVE Sum'
    <2>1. /\ op' = [s \in Op |-> op'[s]] /\ \A s \in Op \ {o} : op'[s] = op[s]
          /\ op[o].pc \in {"open", "recorded"} /\ op'[o].pc = "over"
      BY <1>3 DEF Abort, ReportsInv, Operations, Over
    <2> QED BY <1>3, <2>1, OperationSums DEF Abort
  <1>4. ASSUME NEW o \in Op, Notify(o) PROVE Sum'
    <2>1. /\ op' = [s \in Op |-> op'[s]] /\ \A s \in Op \ {o} : op'[s] = op[s]
          /\ op[o].pc = "committed" /\ op'[o].pc = "over"
      BY <1>4 DEF Notify, ReportsInv, Operations, Over
    <2> QED BY <1>4, <2>1, OperationSums DEF Notify
  <1>5. CASE DeleteAccount
    <2>1. account' = FALSE /\ journal' = {} /\ ReceivedOps' = ReceivedOps
      BY <1>5 DEF DeleteAccount, ReceivedOps
    <2> QED BY <2>1, FS_EmptySet DEF Sum
  <1>6. ASSUME UNCHANGED <<account, balance, op, journal>> PROVE Sum'
    BY <1>6 DEF Sum, Credits, Debits, ReceivedOps
  <1>7. ASSUME NEW o \in Op, Commit(o) PROVE Sum'
    BY <1>7, CommitSums
  <1> QED BY <1>1, <1>2, <1>3, <1>4, <1>5, <1>6, <1>7
          DEF Next, Tick, MarkAsRead, BeginWalk, LookUp, FindMany, Count, Answer, AskStatement,
              MakeStatement, money, vars

LEMMA SumInit == Init => Sum
  <1> SUFFICES ASSUME Init PROVE Sum
    OBVIOUS
  <1>1. journal = {} /\ ReceivedOps = {} /\ Credits = {} /\ Debits = {} /\ balance = 0
    BY DEF Init, ReceivedOps, Credits, Debits
  <1> QED BY <1>1, FS_EmptySet DEF Sum

(* The rows of the journal are no older than the clock's first instant and *)
(* no younger than now: a period around both has all of them.              *)
THEOREM StatementsExplainTheBalance == Spec => []BalanceExplained
  <1>1. ReportsInv /\ Sum => BalanceExplained
    <2> SUFFICES ASSUME ReportsInv, Sum, account, NEW first \in Dates, NEW last \in Dates,
                        RangeStart(first) <= 0, now <= RangeEnd(last)
                 PROVE  LET totals == Totals(Within(first, last))
                            received == {o \in Op : op[o].pc = "received"} IN
                        balance = totals.credits - totals.debits + Cardinality(received)
      BY DEF BalanceExplained
    <2>1. first \in Int /\ last \in Int
      BY ConstantFacts
    <2>2. RangeEnd(last) \in Int /\ RangeStart(first) \in Int
      BY <2>1, RangeFacts DEF ReportsInv
    <2>3. Within(first, last) = journal
      <3>1. \A r \in journal : r.stamp \in 0..now /\ now \in Nat
        BY DEF ReportsInv, TypeOK
      <3> QED BY <2>2, <3>1 DEF Within
    <2>4. Totals(Within(first, last)) = [credits |-> Cardinality(Credits), debits |-> Cardinality(Debits)]
      BY <2>3 DEF Totals, Credits, Debits
    <2> QED BY <2>4 DEF Sum, ReceivedOps
  <1> QED BY <1>1, ReportsInvariant, SumInit, SumStep, PTL DEF Spec

-----------------------------------------------------------------------------
(* Days in local time.  Arithmetic with a symbolic Day: one step of        *)
(* multiplication at a time.                                               *)
LEMMA Products ==
  ASSUME NEW D \in Nat, D > 0, NEW j \in Int, NEW k \in Int, j < k
  PROVE  k * D >= j * D + D
  <1>1. (k - j) * D >= D
    <2>1. ASSUME NEW n \in Int, n >= 1 PROVE n * D >= D
      BY <2>1
    <2> QED BY <2>1
  <1>2. (k - j) * D = k * D - j * D
    OBVIOUS
  <1> QED BY <1>1, <1>2

LEMMA Division ==
  ASSUME NEW D \in Nat, D > 0, NEW t \in Int
  PROVE  t \div D \in Int /\ t % D \in 0..(D - 1) /\ t = (t \div D) * D + (t % D)
  OBVIOUS

LEMMA DivisionIsUnique ==
  ASSUME NEW D \in Nat, D > 0, NEW k \in Int, NEW r \in 0..(D - 1)
  PROVE  (k * D + r) % D = r /\ (k * D + r) \div D = k
  <1> DEFINE t == k * D + r
             q == t \div D
             s == t % D
  <1>1. t \in Int /\ k * D \in Int
    OBVIOUS
  <1>2. q \in Int /\ s \in 0..(D - 1) /\ t = q * D + s
    BY <1>1, Division
  <1>3. q * D \in Int /\ t = k * D + r
    BY <1>2
  <1> HIDE DEF t, q, s
  <1>4. ASSUME q < k PROVE FALSE
    <2>1. k * D >= q * D + D
      BY <1>2, <1>4, Products
    <2> QED BY <1>1, <1>2, <1>3, <2>1
  <1>5. ASSUME k < q PROVE FALSE
    <2>1. q * D >= k * D + D
      BY <1>2, <1>5, Products
    <2> QED BY <1>1, <1>2, <1>3, <2>1
  <1>6. q = k
    BY <1>2, <1>4, <1>5
  <1>7. s = r
    BY <1>1, <1>2, <1>3, <1>6
  <1> QED BY <1>6, <1>7 DEF t, q, s

(* An instant's day is k or a later one when it is past k * D.             *)
LEMMA DivisionOrders ==
  ASSUME NEW D \in Nat, D > 0, NEW t \in Int, NEW k \in Int
  PROVE  t \div D \in Int /\ (k <= t \div D <=> k * D <= t)
  <1> DEFINE q == t \div D
             s == t % D
  <1>1. q \in Int /\ s \in 0..(D - 1) /\ t = q * D + s
    BY Division
  <1>2. q * D \in Int /\ k * D \in Int
    BY <1>1
  <1> HIDE DEF q, s
  <1>3. ASSUME k <= q PROVE k * D <= t
    <2>1. CASE k = q
      BY <1>1, <1>2, <2>1
    <2>2. CASE k < q
      <3>1. q * D >= k * D + D
        BY <1>1, <2>2, Products
      <3> QED BY <1>1, <1>2, <3>1
    <2> QED BY <1>1, <1>3, <2>1, <2>2
  <1>4. ASSUME q < k PROVE ~(k * D <= t)
    <2>1. k * D >= q * D + D
      BY <1>1, <1>4, Products
    <2> QED BY <1>1, <1>2, <2>1
  <1> QED BY <1>1, <1>3, <1>4 DEF q

(* Where the clock keeps its dates, a local midnight is not between the    *)
(* two readings of the instant it is set at.                               *)
LEMMA MidnightsAreApart ==
  ASSUME TypeOK, KeepsDates(zone), NEW k \in Int
  PROVE  k * Day \in Int /\ (k * Day <= zone.change + zone.before <=> k * Day <= zone.change + zone.after)
  <1> DEFINE first == zone.change + zone.before
             second == zone.change + zone.after
  <1>1. Day \in Nat /\ Day > 0 /\ first \in Int /\ second \in Int
    BY ConstantFacts, ZoneFacts
  <1>2. first \div Day = second \div Day
    BY DEF KeepsDates
  <1> HIDE DEF first, second
  <1>3. k * Day \in Int
    BY <1>1
  <1>4. k <= first \div Day <=> k * Day <= first
    BY <1>1, DivisionOrders
  <1>5. k <= second \div Day <=> k * Day <= second
    BY <1>1, DivisionOrders
  <1> QED BY <1>2, <1>3, <1>4, <1>5 DEF first, second

(* An instant is past the midnight of day k, as InstantOf takes it, when   *)
(* its local day is k or a later one.                                      *)
LEMMA MidnightFacts ==
  ASSUME TypeOK, KeepsDates(zone), NEW k \in Int
  PROVE  /\ InstantOf(k * Day) \in Int /\ InstantOf(k * Day - 1) = InstantOf(k * Day) - 1
         /\ \A t \in Int : LocalDay(t) \in Int /\ (InstantOf(k * Day) <= t <=> k <= LocalDay(t))
  <1> DEFINE K == k * Day
  <1>1. K \in Int /\ (K <= zone.change + zone.before <=> K <= zone.change + zone.after)
    BY MidnightsAreApart
  <1>2. zone.before \in Int /\ zone.after \in Int /\ zone.change \in Int
    BY ZoneFacts
  <1>3. \A t \in Int : LocalDay(t) \in Int /\ (K <= t + ShiftAt(t) <=> k <= LocalDay(t))
    <2> TAKE t \in Int
    <2>1. t + ShiftAt(t) \in Int
      BY <1>2 DEF ShiftAt
    <2> QED BY <2>1, ConstantFacts, DivisionOrders DEF LocalDay
  <1> HIDE DEF K
  <1>4. InstantOf(K) \in Int /\ InstantOf(K - 1) = InstantOf(K) - 1
    BY <1>1, <1>2 DEF InstantOf
  <1>5. \A t \in Int : InstantOf(K) <= t <=> K <= t + ShiftAt(t)
    BY <1>1, <1>2 DEF InstantOf, ShiftAt
  <1> QED BY <1>3, <1>4, <1>5 DEF K

(* The date a query names is read in UTC: west of Greenwich the statement  *)
(* is that of the day before.                                              *)
West == IF zone.before < 0 THEN 1 ELSE 0

LEMMA DateIsItsDay ==
  ASSUME TypeOK, KeepsDates(zone), NEW d \in Int
  PROVE  Utc(d) \in Int /\ LocalDay(Utc(d)) = d - West
  <1> DEFINE s == ShiftAt(d * Day)
  <1>1. Day \in Nat /\ Day > 0 /\ d * Day \in Int
    BY ConstantFacts
  <1>2. s \in Int /\ 1 - Day <= s /\ s <= Day - 1 /\ (s < 0 <=> zone.before < 0)
    BY <1>1, ZoneFacts DEF ShiftAt, KeepsDates
  <1> HIDE DEF s
  <1>3. CASE s >= 0
    <2>1. s \in 0..(Day - 1)
      BY <1>1, <1>2, <1>3
    <2>2. (d * Day + s) \div Day = d
      BY <1>1, <2>1, DivisionIsUnique
    <2> QED BY <1>1, <1>2, <1>3, <2>2 DEF LocalDay, Utc, West, s
  <1>4. CASE s < 0
    <2>1. s + Day \in 0..(Day - 1) /\ d - 1 \in Int
      BY <1>1, <1>2, <1>4
    <2>2. ((d - 1) * Day + (s + Day)) \div Day = d - 1
      BY <1>1, <2>1, DivisionIsUnique
    <2>3. (d - 1) * Day + (s + Day) = d * Day + s
      BY <1>1, <1>2
    <2> QED BY <1>1, <1>2, <1>4, <2>2, <2>3 DEF LocalDay, Utc, West, s
  <1> QED BY <1>2, <1>3, <1>4

(* The period of date d: the instants of its local day.                    *)
LEMMA DayIsItsPeriod ==
  ASSUME TypeOK, KeepsDates(zone), NEW d \in Int, NEW t \in Int
  PROVE  RangeStart(d) <= t /\ t <= RangeEnd(d) <=> LocalDay(t) = d - West
  <1> DEFINE k == d - West
  <1>1. k \in Int /\ k + 1 \in Int
    BY DEF West
  <1>2. LocalDay(Utc(d)) = k
    BY DateIsItsDay
  <1>3. Day \in Int /\ k * Day \in Int /\ (k + 1) * Day \in Int /\ k * Day + Day - 1 = (k + 1) * Day - 1
    <2> HIDE DEF k
    <2> QED BY <1>1, ConstantFacts
  <1> HIDE DEF k
  <1>4. RangeStart(d) = InstantOf(k * Day) /\ RangeEnd(d) = InstantOf((k + 1) * Day) - 1
    BY <1>1, <1>2, <1>3, MidnightFacts DEF RangeStart, RangeEnd, LocalMidnight, LocalEnd
  <1>5. /\ LocalDay(t) \in Int /\ (InstantOf(k * Day) <= t <=> k <= LocalDay(t))
        /\ InstantOf((k + 1) * Day) \in Int /\ (InstantOf((k + 1) * Day) <= t <=> k + 1 <= LocalDay(t))
    BY <1>1, MidnightFacts
  <1> QED BY <1>1, <1>4, <1>5 DEF k

(* The date of an instant that has passed may be asked for.                *)
LEMMA PastDaysMayBeAsked ==
  ASSUME TypeOK, KeepsDates(zone), NEW t \in 0..now
  PROVE  LET d == LocalDay(t) + West IN d \in Dates /\ MayAsk(d, d)
  <1>1. Day \in Nat /\ Day > 0 /\ now \in Nat /\ now <= MaxTime /\ MaxTime \in Nat /\ MaxSpan \in Nat
    BY ConstantFacts, ReportsAssumption DEF TypeOK
  <1> DEFINE k == LocalDay(t)
             d == k + West
             n == LocalDay(now)
             m == MaxTime \div Day
             s == ShiftAt(t)
  <1>2. k \in Int /\ n \in Int /\ t \in Int /\ West \in {0, 1} /\ d \in Int /\ d = k + West
    <2>1. t \in Int /\ now \in Int /\ 0 \in Int
      BY <1>1
    <2>2. k \in Int /\ n \in Int
      BY <2>1, MidnightFacts
    <2>3. West \in {0, 1}
      BY DEF West
    <2> HIDE DEF k
    <2> QED BY <2>1, <2>2, <2>3
  <1>3. k <= n
    <2> HIDE DEF k, n
    <2>1. InstantOf(k * Day) \in Int /\ InstantOf(k * Day) <= t
      BY <1>2, MidnightFacts DEF k
    <2>2. InstantOf(k * Day) <= now
      BY <1>1, <1>2, <2>1
    <2> QED BY <1>1, <1>2, <2>2, MidnightFacts DEF n
  <1>4. Utc(d) <= LocalEnd(now)
    <2> HIDE DEF k, n, d
    <2>1. Utc(d) \in Int /\ LocalDay(Utc(d)) = k
      BY <1>2, DateIsItsDay
    <2>2. Day \in Int /\ n * Day \in Int /\ (n + 1) * Day \in Int /\ n * Day + Day - 1 = (n + 1) * Day - 1
      BY <1>1, <1>2
    <2>3. n + 1 \in Int
      BY <1>2
    <2>4. /\ InstantOf((n + 1) * Day) \in Int /\ InstantOf((n + 1) * Day - 1) = InstantOf((n + 1) * Day) - 1
          /\ InstantOf((n + 1) * Day) <= Utc(d) <=> n + 1 <= LocalDay(Utc(d))
      BY <2>1, <2>3, MidnightFacts
    <2>5. LocalEnd(now) = InstantOf((n + 1) * Day) - 1
      BY <2>2, <2>4 DEF LocalEnd, n
    <2> QED BY <1>2, <1>3, <2>1, <2>4, <2>5
  <1>5. /\ s \in Int /\ 1 - Day <= s /\ s <= Day - 1 /\ (s < 0 <=> West = 1)
    BY <1>1, ZoneFacts DEF ShiftAt, KeepsDates, West
  <1>6. k = (t + s) \div Day
    BY DEF LocalDay
  <1>7. m \in Int /\ MaxTime <= m * Day + Day - 1 /\ m * Day \in Int
    BY <1>1, Division
  <1> HIDE DEF k, d, n, m, s
  <1>8. /\ k * Day \in Int /\ k * Day <= t + s /\ t + s <= k * Day + Day - 1
    <2>1. t + s \in Int
      BY <1>2, <1>5
    <2> QED BY <1>1, <1>6, <2>1, Division
  <1>9. d * Day \in Int /\ (d * Day = k * Day \/ (West = 1 /\ d * Day = k * Day + Day)) /\ (West = 0 => d * Day = k * Day)
    <2>1. CASE West = 0
      BY <1>2, <1>8, <2>1
    <2>2. CASE West = 1
      BY <1>1, <1>2, <1>8, <2>2
    <2> QED BY <1>2, <2>1, <2>2
  <1>10. d * Day > -Day /\ d * Day <= MaxTime + Day - 1
    BY <1>1, <1>2, <1>5, <1>8, <1>9
  <1>11. d >= 0
    <2> SUFFICES ASSUME d < 0 PROVE FALSE
      BY <1>2
    <2>1. 0 * Day >= d * Day + Day
      BY <1>1, <1>2, Products
    <2> QED BY <1>1, <1>9, <1>10, <2>1
  <1>12. d <= m + 1
    <2> SUFFICES ASSUME m + 1 < d PROVE FALSE
      BY <1>2, <1>7
    <2>1. d * Day >= (m + 1) * Day + Day /\ (m + 1) * Day >= m * Day + Day
      BY <1>1, <1>2, <1>7, Products
    <2>2. (m + 1) * Day \in Int
      BY <1>1, <1>7
    <2> QED BY <1>1, <1>7, <1>9, <1>10, <2>1, <2>2
  <1>13. d \in Dates
    BY <1>2, <1>7, <1>11, <1>12 DEF Dates, m
  <1>14. MayAsk(d, d)
    BY <1>1, <1>2, <1>4 DEF MayAsk
  <1> QED BY <1>13, <1>14 DEF d, k

(* Whatever the length of the day, and whether or not the clock is set for *)
(* daylight saving time, where the zone keeps its dates each row is on the *)
(* statement of one date and no other, and that date may be asked for as   *)
(* soon as the row is there.  (Where it does not, a row may be on none or  *)
(* on two.)                                                                *)
THEOREM RowsHaveTheirDay == Spec => []OnExactlyOneDay
  <1>1. ReportsInv => OnExactlyOneDay
    <2> SUFFICES ASSUME ReportsInv, KeepsDates(zone), NEW r \in journal
                 PROVE  Cardinality({d \in Dates : MayAsk(d, d) /\ r \in Within(d, d)}) = 1
      BY DEF OnExactlyOneDay
    <2> DEFINE date == LocalDay(r.stamp) + West
    <2>1. TypeOK /\ r.stamp \in 0..now /\ r.stamp \in Int /\ LocalDay(r.stamp) \in Int
      <3>1. TypeOK /\ r.stamp \in 0..now /\ r.stamp \in Int
        BY DEF ReportsInv, TypeOK
      <3> QED BY <3>1, MidnightFacts
    <2>2. \A d \in Dates : r \in Within(d, d) <=> d = date
      <3> TAKE d \in Dates
      <3>1. d \in Int /\ West \in Int
        BY ConstantFacts DEF West
      <3>2. r \in Within(d, d) <=> LocalDay(r.stamp) = d - West
        BY <2>1, <3>1, DayIsItsPeriod DEF Within
      <3> QED BY <2>1, <3>1, <3>2
    <2>3. date \in Dates /\ MayAsk(date, date)
      BY <2>1, PastDaysMayBeAsked
    <2> HIDE DEF date
    <2>4. {d \in Dates : MayAsk(d, d) /\ r \in Within(d, d)} = {date}
      BY <2>2, <2>3
    <2> QED BY <2>4, FS_Singleton
  <1> QED BY <1>1, ReportsInvariant, PTL

-----------------------------------------------------------------------------
(* Walks through a list.  A row that nobody ties with has as many rows     *)
(* ahead of it as its place says.  While no row leaves, those that are     *)
(* ahead stay there, and a row not listed yet is behind the end of the     *)
(* pages read; while no row comes, one that was listed stays in front.     *)
Before(q, x, y) == IF q.newest THEN x.stamp > y.stamp ELSE x.stamp < y.stamp
Ahead(q, o) ==
  {p \in Ids(q) : \E x, y \in Matching(q) : x.op = p /\ y.op = o /\ Before(q, x, y)}

TheirOwnRow(table) == \A x, y \in table : x.op = y.op => x = y
Tables ==
  /\ IsFiniteSet(journal) /\ IsFiniteSet(notes)
  /\ TheirOwnRow(journal) /\ TheirOwnRow(notes)
  /\ \A r \in journal : op[r.op].pc \in {"committed", "over"}
  /\ \A r \in notes : op[r.op].pc = "over"

WalkRecord ==
  [pc : {"ask", "query"}, page : Nat \ {0}, rows : Seq(Op), total : Nat \union {NoCount},
   fetched : BOOLEAN, seen : Seq(Op), stayed : SUBSET Op, left : BOOLEAN, grew : BOOLEAN,
   late : BOOLEAN, tied : SUBSET Op]

At(s, o) == {i \in 1..Len(s) : s[i] = o}
Listed(o) == At(walk.seen, o) # {} \/ At(walk.rows, o) # {}
ListedOnce(o) ==
  /\ At(walk.seen, o) = {} \/ At(walk.rows, o) = {}
  /\ \A i, j \in At(walk.seen, o) : i = j
  /\ \A i, j \in At(walk.rows, o) : i = j
End == IF walk.fetched THEN Offset(walk.page) + PageSize ELSE Offset(walk.page)

Unlisted(o) == o \in walk.stayed /\ ~walk.left /\ ~Listed(o)
Progress(o) ==
  /\ Unlisted(o) => Cardinality(Ahead(reader, o)) >= End
  /\ Unlisted(o) /\ walk.fetched /\ walk.total # NoCount /\ ~walk.late => walk.total > End
  /\ ~walk.grew => ListedOnce(o)
  /\ ~walk.grew /\ Listed(o) /\ o \in Ids(reader) => Cardinality(Ahead(reader, o)) < End
Walks ==
  /\ walk \in WalkRecord /\ reader \in Queries
  /\ walk.stayed \subseteq Ids(reader)
  /\ ~walk.fetched => walk.rows = <<>>
  /\ ~walk.fetched /\ walk.total # NoCount /\ ~walk.left /\ ~walk.late =>
       walk.total = Cardinality(Ids(reader))
  /\ \A o \in Op \ walk.tied : Progress(o)
WalkInv == (Walking => Walks) /\ WalkErrsForAReason

-----------------------------------------------------------------------------
(* The order of a page.                                                    *)
LEMMA IdsCounted ==
  ASSUME NEW q, IsFiniteSet(Matching(q)), TheirOwnRow(Matching(q))
  PROVE  IsFiniteSet(Ids(q)) /\ Cardinality(Ids(q)) = Cardinality(Matching(q))
  <1> DEFINE f == [r \in Matching(q) |-> r.op]
  <1>1. f \in Bijection(Matching(q), Ids(q))
    BY DEF Bijection, Injection, Surjection, IsInjective, Ids, TheirOwnRow
  <1> QED BY <1>1, FS_Bijection DEF ExistsBijection

(* An enumeration without repetition has all rows.                         *)
LEMMA OrderedFacts ==
  ASSUME NEW q, IsFiniteSet(Matching(q)), NEW s \in Ordered(q)
  PROVE  LET n == Cardinality(Matching(q)) IN
         /\ n \in Nat /\ s \in [1..n -> Matching(q)] /\ s \in Seq(Matching(q)) /\ Len(s) = n
         /\ \A i, j \in 1..n : s[i] = s[j] => i = j
         /\ \A r \in Matching(q) : \E i \in 1..n : s[i] = r
         /\ \A i, j \in 1..n : i < j => IF q.newest THEN s[i].stamp >= s[j].stamp ELSE s[i].stamp <= s[j].stamp
  <1> DEFINE n == Cardinality(Matching(q))
  <1>1. n \in Nat
    BY FS_CardinalityType
  <1>2. /\ s \in [1..n -> Matching(q)]
        /\ \A i, j \in 1..n : i < j => s[i] # s[j]
        /\ \A i, j \in 1..n : i < j => IF q.newest THEN s[i].stamp >= s[j].stamp ELSE s[i].stamp <= s[j].stamp
    BY DEF Ordered
  <1>3. \A i, j \in 1..n : s[i] = s[j] => i = j
    <2> SUFFICES ASSUME NEW i \in 1..n, NEW j \in 1..n, s[i] = s[j], i # j PROVE FALSE
      OBVIOUS
    <2>1. i < j \/ j < i
      BY <1>1
    <2> QED BY <1>2, <2>1
  <1>4. s \in Injection(1..n, Matching(q))
    BY <1>2, <1>3 DEF Injection, IsInjective
  <1>5. Cardinality(1..n) = n
    BY <1>1, FS_Interval
  <1>6. s \in Surjection(1..n, Matching(q))
    BY <1>4, <1>5, FS_Injection
  <1>7. s \in Seq(Matching(q)) /\ Len(s) = n
    BY <1>1, <1>2
  <1> QED BY <1>1, <1>2, <1>3, <1>6, <1>7 DEF Surjection

Untied(q, o) == \A x, y \in Matching(q) : x.op = o /\ y # x => y.stamp # x.stamp

(* The place of a row without ties tells how many are ahead of it.         *)
LEMMA PlaceOf ==
  ASSUME NEW q, IsFiniteSet(Matching(q)), TheirOwnRow(Matching(q)),
         \A r \in Matching(q) : r.stamp \in Nat,
         NEW s \in Ordered(q), NEW o \in Ids(q), Untied(q, o)
  PROVE  \E j \in 1..Cardinality(Matching(q)) :
           /\ s[j].op = o /\ Cardinality(Ahead(q, o)) = j - 1
           /\ \A i \in 1..Cardinality(Matching(q)) : s[i].op = o => i = j
  <1> DEFINE n == Cardinality(Matching(q))
  <1>1. /\ n \in Nat /\ s \in [1..n -> Matching(q)]
        /\ \A i, j \in 1..n : s[i] = s[j] => i = j
        /\ \A r \in Matching(q) : \E i \in 1..n : s[i] = r
        /\ \A i, j \in 1..n : i < j => IF q.newest THEN s[i].stamp >= s[j].stamp ELSE s[i].stamp <= s[j].stamp
    BY OrderedFacts
  <1>2. PICK row \in Matching(q) : row.op = o
    BY DEF Ids
  <1>3. PICK j \in 1..n : s[j] = row
    BY <1>1, <1>2
  <1> HIDE DEF n
  <1>4. \A i \in 1..n : s[i].op = o => i = j
    BY <1>1, <1>2, <1>3 DEF TheirOwnRow
  <1> DEFINE f == [i \in 1..(j - 1) |-> s[i].op]
  <1>5. \A i \in 1..(j - 1) : i \in 1..n /\ i < j /\ i # j /\ s[i] # row /\ s[i] \in Matching(q)
    BY <1>1, <1>3
  <1>6. \A i \in 1..(j - 1) : Before(q, s[i], row)
    <2> SUFFICES ASSUME NEW i \in 1..(j - 1) PROVE Before(q, s[i], row)
      OBVIOUS
    <2>1. s[i].stamp # row.stamp /\ s[i].stamp \in Nat /\ row.stamp \in Nat
      BY <1>2, <1>5 DEF Untied
    <2>2. IF q.newest THEN s[i].stamp >= row.stamp ELSE s[i].stamp <= row.stamp
      BY <1>1, <1>3, <1>5
    <2> QED BY <2>1, <2>2 DEF Before
  <1>7. f \in [1..(j - 1) -> Ahead(q, o)]
    BY <1>2, <1>5, <1>6 DEF Ahead, Ids
  <1>8. \A i, k \in 1..(j - 1) : f[i] = f[k] => i = k
    BY <1>1, <1>5 DEF TheirOwnRow
  <1>9. ASSUME NEW p \in Ahead(q, o) PROVE \E i \in 1..(j - 1) : f[i] = p
    <2>1. PICK x \in Matching(q), y \in Matching(q) : x.op = p /\ y.op = o /\ Before(q, x, y)
      BY <1>9 DEF Ahead
    <2>2. y = row
      BY <1>2, <2>1 DEF TheirOwnRow
    <2>3. PICK i \in 1..n : s[i] = x
      BY <1>1
    <2>4. x.stamp \in Nat /\ row.stamp \in Nat
      BY <1>2
    <2>5. ~(j < i) /\ i # j
      BY <1>1, <1>3, <2>1, <2>2, <2>3, <2>4 DEF Before
    <2>6. i \in 1..(j - 1)
      BY <1>1, <2>5
    <2> QED BY <2>1, <2>3, <2>6
  <1>10. f \in Bijection(1..(j - 1), Ahead(q, o))
    BY <1>7, <1>8, <1>9 DEF Bijection, Injection, Surjection, IsInjective
  <1>11. Cardinality(Ahead(q, o)) = j - 1
    <2>1. j - 1 \in Nat
      BY <1>1
    <2> HIDE DEF f
    <2> QED BY <1>10, <2>1, FS_CountingElements DEF ExistsBijection
  <1> QED BY <1>2, <1>3, <1>4, <1>11 DEF n

(* Skip, then take.                                                        *)
LEMMA SliceFacts ==
  ASSUME NEW S, NEW s \in Seq(S), NEW page \in Nat \ {0}
  PROVE  LET m == Offset(page)
             t == Slice(s, page) IN
         /\ m \in Nat /\ Len(t) \in Nat
         /\ \A i \in 1..Len(t) : m + i \in 1..Len(s) /\ i <= PageSize /\ t[i] = s[m + i]
         /\ \A j \in 1..Len(s) : m < j /\ j <= m + PageSize => j - m \in 1..Len(t) /\ t[j - m] = s[j]
  <1> DEFINE m == Offset(page)
             last == IF m + PageSize < Len(s) THEN m + PageSize ELSE Len(s)
             t == SubSeq(s, m + 1, last)
  <1>1. PageSize \in Nat /\ PageSize > 0
    BY ReportsAssumption
  <1>2. m \in Nat
    BY <1>1 DEF Offset
  <1>3. t = Slice(s, page)
    BY DEF Slice
  <1>4. last \in Nat /\ last <= Len(s) /\ last <= m + PageSize /\ Len(s) \in Nat
    BY <1>1, <1>2
  <1>5. \A j \in 1..Len(s) : j <= m + PageSize => j <= last
    BY <1>1, <1>2
  <1> HIDE DEF m, last
  <1>6. /\ Len(t) = IF m + 1 <= last THEN last - m ELSE 0
        /\ \A i \in 1..Len(t) : t[i] = s[m + i]
    <2>1. CASE m + 1 <= last
      <3>1. m + 1 \in 1..Len(s) /\ last \in 1..Len(s)
        BY <1>2, <1>4, <2>1
      <3> QED BY <1>2, <1>4, <2>1, <3>1
    <2>2. CASE ~(m + 1 <= last)
      BY <1>2, <1>4, <2>2
    <2> QED BY <2>1, <2>2
  <1> HIDE DEF t
  <1>7. \A i \in 1..Len(t) : m + i \in 1..Len(s) /\ i <= PageSize
    BY <1>1, <1>2, <1>4, <1>6
  <1>8. \A j \in 1..Len(s) : m < j /\ j <= m + PageSize => j - m \in 1..Len(t) /\ t[j - m] = s[j]
    <2> SUFFICES ASSUME NEW j \in 1..Len(s), m < j, j <= m + PageSize
                 PROVE  j - m \in 1..Len(t) /\ t[j - m] = s[j]
      OBVIOUS
    <2>1. j - m \in 1..Len(t)
      BY <1>2, <1>4, <1>5, <1>6
    <2>2. m + (j - m) = j
      BY <1>2
    <2> QED BY <1>6, <2>1, <2>2
  <1>9. Len(t) \in Nat
    BY <1>2, <1>4, <1>6
  <1> QED BY <1>2, <1>3, <1>6, <1>7, <1>8, <1>9 DEF m

-----------------------------------------------------------------------------
(* An operation has one row, whose stamp does not change.                  *)
Stamped ==
  /\ \A x \in journal, y \in journal' : x.op = y.op => x.stamp = y.stamp
  /\ \A x \in notes, y \in notes' : x.op = y.op => x.stamp = y.stamp

LEMMA TablesStep ==
  ASSUME ReportsInv, Tables, [Next]_vars
  PROVE  Tables' /\ Stamped
  <1>1. /\ op = [o \in Op |-> op[o]] /\ \A o \in Op : Carries(o)
        /\ \A r \in journal \union notes : r.op \in Op
    BY DEF ReportsInv, Operations, TypeOK
  <1>2. ASSUME NEW o \in Op, Begin(o) \/ Record(o) \/ Abort(o) PROVE Tables' /\ Stamped
    <2>1. /\ journal' = journal /\ notes' = notes /\ op[o].pc \in {"idle", "open", "recorded"}
          /\ \A s \in Op \ {o} : op'[s] = op[s]
      <3>1. CASE Begin(o)
        BY <1>1, <3>1 DEF Begin
      <3>2. CASE Record(o)
        BY <1>1, <3>2 DEF Record
      <3>3. CASE Abort(o)
        BY <1>1, <3>3 DEF Abort
      <3> QED BY <1>2, <3>1, <3>2, <3>3
    <2>2. \A r \in journal \union notes : op'[r.op] = op[r.op]
      BY <1>1, <2>1 DEF Tables
    <2> QED BY <2>1, <2>2 DEF Tables, TheirOwnRow, Stamped
  <1>3. ASSUME NEW o \in Op, Commit(o) PROVE Tables' /\ Stamped
    <2> DEFINE row == [op |-> o, kind |-> op[o].kind, stamp |-> op[o].stamp, read |-> FALSE]
    <2>1. op[o].pc = "recorded" /\ notes' = notes
      BY <1>3 DEF Commit, Commits, Holds
    <2>2. /\ \A s \in Op \ {o} : op'[s] = op[s]
          /\ op[o].kind # Received => op'[o].pc = "committed"
      BY <1>1, <1>3 DEF Commit, Commits
    <2>3. journal' = IF op[o].kind = Received THEN journal ELSE journal \union {row}
      BY <1>3 DEF Commit, Commits
    <2>4. row.op = o
      OBVIOUS
    <2> HIDE DEF row
    <2>5. \A r \in journal \union notes : r.op # o /\ op'[r.op] = op[r.op]
      BY <1>1, <2>1, <2>2 DEF Tables
    <2>6. CASE journal' = journal
      BY <2>1, <2>5, <2>6 DEF Tables, TheirOwnRow, Stamped
    <2>7. CASE op[o].kind # Received /\ journal' = journal \union {row}
      <3>1. IsFiniteSet(journal')
        BY <2>7, FS_AddElement DEF Tables
      <3> QED BY <2>1, <2>2, <2>4, <2>5, <2>7, <3>1 DEF Tables, TheirOwnRow, Stamped
    <2> QED BY <2>3, <2>6, <2>7
  <1>4. ASSUME NEW o \in Op, Notify(o) PROVE Tables' /\ Stamped
    <2> DEFINE row == [op |-> o, kind |-> op[o].kind, stamp |-> now, read |-> FALSE]
    <2>1. op[o].pc = "committed" /\ journal' = journal
      BY <1>4 DEF Notify
    <2>2. op'[o].pc = "over" /\ \A s \in Op \ {o} : op'[s] = op[s]
      BY <1>1, <1>4 DEF Notify, Over
    <2>3. notes' = notes \/ notes' = notes \union {row}
      BY <1>4 DEF Notify
    <2>4. row.op = o
      OBVIOUS
    <2> HIDE DEF row
    <2>5. /\ \A r \in notes : r.op # o /\ op'[r.op] = op[r.op]
          /\ \A r \in journal : op'[r.op].pc \in {"committed", "over"}
      BY <1>1, <2>1, <2>2 DEF Tables
    <2>6. CASE notes' = notes
      BY <2>1, <2>5, <2>6 DEF Tables, TheirOwnRow, Stamped
    <2>7. CASE notes' = notes \union {row}
      <3>1. IsFiniteSet(notes')
        BY <2>7, FS_AddElement DEF Tables
      <3> QED BY <2>1, <2>2, <2>4, <2>5, <2>7, <3>1 DEF Tables, TheirOwnRow, Stamped
    <2> QED BY <2>3, <2>6, <2>7
  <1>5. CASE DeleteAccount
    BY <1>5, FS_EmptySet DEF DeleteAccount, Tables, TheirOwnRow, Stamped
  <1>6. ASSUME NEW n \in notes, MarkAsRead(n) PROVE Tables' /\ Stamped
    <2> DEFINE marked == [n EXCEPT !.read = TRUE]
    <2>1. notes' = (notes \ {n}) \union {marked} /\ journal' = journal /\ op' = op
      BY <1>6 DEF MarkAsRead
    <2>2. marked.op = n.op /\ marked.stamp = n.stamp
      BY DEF ReportsInv, TypeOK
    <2> HIDE DEF marked
    <2>3. IsFiniteSet(notes')
      BY <2>1, FS_RemoveElement, FS_AddElement DEF Tables
    <2> QED BY <2>1, <2>2, <2>3 DEF Tables, TheirOwnRow, Stamped
  <1>7. CASE UNCHANGED <<journal, notes, op>>
    BY <1>7 DEF Tables, TheirOwnRow, Stamped
  <1>8. CASE Tick \/ BeginWalk \/ LookUp \/ FindMany \/ Count \/ Answer \/ MakeStatement
    <2>1. UNCHANGED money
      <3>1. CASE Tick
        BY <3>1 DEF Tick
      <3>2. CASE BeginWalk
        BY <3>2 DEF BeginWalk
      <3>3. CASE FindMany
        BY <3>3, Zenon DEF FindMany
      <3>4. CASE LookUp \/ Count
        BY <3>4 DEF LookUp, Count
      <3>5. CASE Answer
        BY <3>5 DEF Answer
      <3>6. CASE MakeStatement
        BY <3>6 DEF MakeStatement
      <3> QED BY <1>8, <3>1, <3>2, <3>3, <3>4, <3>5, <3>6
    <2> QED BY <1>7, <2>1 DEF money
  <1>9. ASSUME NEW first \in Dates, NEW last \in Dates, AskStatement(first, last) PROVE Tables' /\ Stamped
    BY <1>7, <1>9 DEF AskStatement, money
  <1>10. CASE UNCHANGED vars
    BY <1>7, <1>10 DEF vars
  <1> QED BY <1>2, <1>3, <1>4, <1>5, <1>6, <1>8, <1>9, <1>10 DEF Next

LEMMA TablesInit == Init => Tables
  BY FS_EmptySet DEF Init, Tables, TheirOwnRow

(* What a query matches is a part of its table.                            *)
RankedRows(q) ==
  /\ IsFiniteSet(Matching(q)) /\ TheirOwnRow(Matching(q))
  /\ \A r \in Matching(q) : r.op \in Op /\ r.stamp \in Nat
  /\ Ids(q) \subseteq Op /\ IsFiniteSet(Ids(q)) /\ Cardinality(Ids(q)) = Cardinality(Matching(q))
  /\ \A o : IsFiniteSet(Ahead(q, o)) /\ Cardinality(Ahead(q, o)) \in Nat

LEMMA MatchingFacts == TypeOK /\ Tables => \A q \in Queries : RankedRows(q)
  <1> SUFFICES ASSUME TypeOK, Tables, NEW q \in Queries PROVE RankedRows(q)
    OBVIOUS
  <1>1. Matching(q) \subseteq journal \/ Matching(q) \subseteq notes
    BY DEF Matching, Table
  <1>2. IsFiniteSet(Matching(q)) /\ TheirOwnRow(Matching(q))
    BY <1>1, FS_Subset DEF Tables, TheirOwnRow
  <1>3. \A r \in Matching(q) : r.op \in Op /\ r.stamp \in Nat
    BY <1>1 DEF TypeOK
  <1>4. Ids(q) \subseteq Op
    BY <1>3 DEF Ids
  <1>5. IsFiniteSet(Ids(q)) /\ Cardinality(Ids(q)) = Cardinality(Matching(q))
    BY <1>2, IdsCounted
  <1>6. \A o : Ahead(q, o) \subseteq Ids(q)
    BY DEF Ahead
  <1>7. \A o : IsFiniteSet(Ahead(q, o)) /\ Cardinality(Ahead(q, o)) \in Nat
    BY <1>5, <1>6, FS_Subset, FS_CardinalityType
  <1> QED BY <1>2, <1>3, <1>4, <1>5, <1>7 DEF RankedRows

LEMMA MatchingFactsNext == (TypeOK /\ Tables => \A q \in Queries : RankedRows(q))'
  BY MatchingFacts, PTL

LEMMA ReaderRanked == TypeOK /\ Tables /\ reader \in Queries => RankedRows(reader)
  BY MatchingFacts

LEMMA ReaderRankedNext == (TypeOK /\ Tables /\ reader \in Queries => RankedRows(reader))'
  BY ReaderRanked, PTL

(* While no row leaves the ones ahead of another stay there; while none    *)
(* comes there are no new ones.                                            *)
LEMMA AheadFacts ==
  ASSUME TypeOK, Tables, TypeOK', Tables', Stamped, NEW q \in Queries, NEW o \in Ids(q), o \in Ids(q)'
  PROVE  /\ Ids(q) \subseteq Ids(q)' => Cardinality(Ahead(q, o)) <= Cardinality(Ahead(q, o)')
         /\ Ids(q)' \subseteq Ids(q) => Cardinality(Ahead(q, o)') <= Cardinality(Ahead(q, o))
  <1>1. /\ TheirOwnRow(Matching(q)) /\ IsFiniteSet(Ahead(q, o))
        /\ TheirOwnRow(Matching(q)') /\ IsFiniteSet(Ahead(q, o)')
    <2>1. IsFiniteSet(Ahead(q, o)) /\ TheirOwnRow(Matching(q))
      BY MatchingFacts DEF RankedRows
    <2>2. IsFiniteSet(Ahead(q, o)') /\ TheirOwnRow(Matching(q))'
      <3>1. RankedRows(q)'
        BY MatchingFactsNext
      <3> QED BY <3>1 DEF RankedRows, TheirOwnRow
    <2> QED BY <2>1, <2>2 DEF TheirOwnRow
  <1>2. \A x \in Matching(q), y \in Matching(q)' : x.op = y.op => x.stamp = y.stamp
    BY DEF Stamped, Matching, Table
  <1>3. /\ \A p : p \in Ids(q) <=> \E x \in Matching(q) : x.op = p
        /\ \A p : p \in Ids(q)' <=> \E x \in Matching(q)' : x.op = p
    BY DEF Ids
  <1>4. ASSUME Ids(q) \subseteq Ids(q)' PROVE Ahead(q, o) \subseteq Ahead(q, o)'
    <2> SUFFICES ASSUME NEW p \in Ahead(q, o) PROVE p \in Ahead(q, o)'
      OBVIOUS
    <2>1. PICK x \in Matching(q), y \in Matching(q) : x.op = p /\ y.op = o /\ Before(q, x, y)
      BY DEF Ahead
    <2>2. p \in Ids(q)'
      BY <1>4 DEF Ahead
    <2>3. PICK x2 \in Matching(q)', y2 \in Matching(q)' : x2.op = p /\ y2.op = o
      BY <1>3, <2>2
    <2>4. x2.stamp = x.stamp /\ y2.stamp = y.stamp
      BY <1>2, <2>1, <2>3
    <2>5. Before(q, x2, y2)
      BY <2>1, <2>4 DEF Before
    <2> QED BY <2>2, <2>3, <2>5 DEF Ahead, Before
  <1>5. ASSUME Ids(q)' \subseteq Ids(q) PROVE Ahead(q, o)' \subseteq Ahead(q, o)
    <2> SUFFICES ASSUME NEW p \in Ahead(q, o)' PROVE p \in Ahead(q, o)
      OBVIOUS
    <2>1. PICK x \in Matching(q)', y \in Matching(q)' : x.op = p /\ y.op = o /\ Before(q, x, y)
      BY DEF Ahead, Before
    <2>2. p \in Ids(q)
      BY <1>5 DEF Ahead
    <2>3. PICK x2 \in Matching(q), y2 \in Matching(q) : x2.op = p /\ y2.op = o
      BY <1>3, <2>2
    <2>4. x2.stamp = x.stamp /\ y2.stamp = y.stamp
      BY <1>2, <2>1, <2>3
    <2>5. Before(q, x2, y2)
      BY <2>1, <2>4 DEF Before
    <2> QED BY <2>2, <2>3, <2>5 DEF Ahead
  <1> QED BY <1>1, <1>4, <1>5, FS_Subset

-----------------------------------------------------------------------------
(* One lemma for the reader under whom the tables change, and one for each *)
(* of its own steps.                                                       *)
LEMMA WatchWalks ==
  ASSUME TypeOK, Tables, TypeOK', Tables', Stamped, WalkInv, Watch, reader' = reader
  PROVE  WalkInv'
  <1>1. CASE ~Walking
    <2>1. walk' = walk
      BY <1>1 DEF Watch
    <2> QED BY <1>1, <2>1 DEF WalkInv, Walking, WalkErrsForAReason
  <1>2. CASE Walking
    <2> DEFINE came == Ids(reader)' \ Ids(reader)
               kept == walk.stayed \intersect Ids(reader)'
               left == walk.left \/ ~(Ids(reader) \subseteq Ids(reader)')
               grew == walk.grew \/ came # {}
               late == walk.late \/ (came # {} /\ walk.total # NoCount /\ ~walk.fetched)
    <2>1. walk \in WalkRecord /\ reader \in Queries
      BY <1>2 DEF WalkInv, Walks
    <2>2. walk' = [walk EXCEPT !.stayed = kept, !.left = left, !.grew = grew, !.late = late]
      <3>1. PICK q \in {reader} :
              LET new == Ids(q)' \ Ids(q) IN
              walk' = [walk EXCEPT
                !.stayed = @ \intersect Ids(q)',
                !.left = @ \/ ~(Ids(q) \subseteq Ids(q)'),
                !.grew = @ \/ new # {},
                !.late = @ \/ (new # {} /\ walk.total # NoCount /\ ~walk.fetched)]
        BY <1>2 DEF Watch
      <3>2. q = reader /\ Ids(q)' = Ids(reader)'
        BY <3>1 DEF Ids, Matching, Table
      <3> QED BY <3>1, <3>2
    <2> HIDE DEF left, grew, late, kept
    <2>3. left \in BOOLEAN /\ grew \in BOOLEAN /\ late \in BOOLEAN /\ kept \in SUBSET Op
      BY <2>1 DEF WalkRecord, left, grew, late, kept
    <2>4. /\ walk'.pc = walk.pc /\ walk'.page = walk.page /\ walk'.rows = walk.rows
          /\ walk'.total = walk.total /\ walk'.fetched = walk.fetched /\ walk'.seen = walk.seen
          /\ walk'.tied = walk.tied
          /\ walk'.stayed = kept /\ walk'.left = left /\ walk'.grew = grew /\ walk'.late = late
          /\ walk' \in WalkRecord
      BY <2>1, <2>2, <2>3 DEF WalkRecord
    <2>5. /\ kept = walk.stayed \intersect Ids(reader)'
          /\ ~left => ~walk.left /\ Ids(reader) \subseteq Ids(reader)'
          /\ ~grew => ~walk.grew /\ Ids(reader)' \subseteq Ids(reader)
          /\ ~late => ~walk.late /\ (walk.total # NoCount /\ ~walk.fetched => Ids(reader)' \subseteq Ids(reader))
      BY DEF left, grew, late, kept
    <2>6. ~walk'.fetched /\ walk'.total # NoCount /\ ~walk'.left /\ ~walk'.late =>
            walk'.total = Cardinality(Ids(reader)')
      <3> SUFFICES ASSUME ~walk.fetched, walk.total # NoCount, ~left, ~late
                   PROVE  walk.total = Cardinality(Ids(reader)')
        BY <2>4
      <3>1. Ids(reader)' = Ids(reader)
        BY <2>5
      <3> QED BY <1>2, <2>5, <3>1 DEF WalkInv, Walks
    <2>7. ASSUME NEW o \in Op, o \notin walk'.tied PROVE Progress(o)'
      <3>1. Progress(o) /\ walk.stayed \subseteq Ids(reader)
        BY <1>2, <2>4, <2>7 DEF WalkInv, Walks
      <3>2. End' = End /\ (Listed(o)' <=> Listed(o)) /\ (ListedOnce(o)' <=> ListedOnce(o)) /\ End \in Nat
        <4>1. End \in Nat
          <5>1. PageSize \in Nat /\ walk.page - 1 \in Nat
            BY <2>1, ReportsAssumption DEF WalkRecord
          <5>2. (walk.page - 1) * PageSize \in Nat
            BY <5>1
          <5> QED BY <5>1, <5>2 DEF End, Offset
        <4> QED BY <2>4, <4>1 DEF End, Listed, ListedOnce, At
      <3>3. /\ Cardinality(Ahead(reader, o)) \in Nat
            /\ Cardinality(Ahead(reader, o)') \in Nat
        <4>1. RankedRows(reader)
          BY <2>1, MatchingFacts
        <4>2. RankedRows(reader)'
          BY <2>1, ReaderRankedNext
        <4> QED BY <4>1, <4>2 DEF RankedRows
      <3>4. o \in Ids(reader) /\ o \in Ids(reader)' =>
              /\ Ids(reader) \subseteq Ids(reader)' => Cardinality(Ahead(reader, o)) <= Cardinality(Ahead(reader, o)')
              /\ Ids(reader)' \subseteq Ids(reader) => Cardinality(Ahead(reader, o)') <= Cardinality(Ahead(reader, o))
        BY <2>1, AheadFacts
      <3>5. Unlisted(o)' => Unlisted(o) /\ Ids(reader) \subseteq Ids(reader)' /\ o \in Ids(reader) /\ o \in Ids(reader)'
        BY <2>4, <2>5, <3>1, <3>2 DEF Unlisted
      <3>6. Unlisted(o)' => Cardinality(Ahead(reader, o)') >= End'
        BY <3>1, <3>2, <3>3, <3>4, <3>5 DEF Progress
      <3>7. Unlisted(o)' /\ walk'.fetched /\ walk'.total # NoCount /\ ~walk'.late => walk'.total > End'
        BY <2>4, <2>5, <3>1, <3>2, <3>5 DEF Progress
      <3>8. ~walk'.grew => ListedOnce(o)'
        BY <2>4, <2>5, <3>1, <3>2 DEF Progress
      <3>9. ~walk'.grew /\ Listed(o)' /\ o \in Ids(reader)' => Cardinality(Ahead(reader, o)') < End'
        BY <2>4, <2>5, <3>1, <3>2, <3>3, <3>4 DEF Progress
      <3> QED BY <3>6, <3>7, <3>8, <3>9 DEF Progress
    <2>8. Walks'
      BY <1>2, <2>1, <2>4, <2>5, <2>6, <2>7 DEF WalkInv, Walks
    <2> QED BY <1>2, <2>4, <2>8 DEF WalkInv, Walking, WalkErrsForAReason
  <1> QED BY <1>1, <1>2

(* Nothing of a list changes, and not its reader.                          *)
LEMMA WalkRests ==
  ASSUME WalkInv, UNCHANGED <<reader, journal, notes, walk>>
  PROVE  WalkInv'
  <1>1. Ids(reader)' = Ids(reader) /\ \A o : Ahead(reader, o)' = Ahead(reader, o)
    BY DEF Ids, Ahead, Matching, Table, Before
  <1>2. \A o \in Op : Progress(o) => Progress(o)'
    BY <1>1 DEF Progress, Unlisted, Listed, ListedOnce, At, End
  <1>3. Walks => Walks'
    BY <1>1, <1>2 DEF Walks, WalkRecord
  <1> QED BY <1>3 DEF WalkInv, Walking, WalkErrsForAReason

LEMMA BeginWalks ==
  ASSUME TypeOK, Tables, BeginWalk
  PROVE  WalkInv'
  <1>1. reader \in Queries /\ walk' = Reader(reader) /\ UNCHANGED <<reader, journal, notes>>
    BY DEF BeginWalk, money
  <1>2. RankedRows(reader)
    BY <1>1, MatchingFacts
  <1>3. Ids(reader)' = Ids(reader) /\ \A o : Ahead(reader, o)' = Ahead(reader, o)
    BY <1>1 DEF Ids, Ahead, Matching, Table, Before
  <1>4. Ids(reader) \subseteq Op /\ \A o : Cardinality(Ahead(reader, o)) \in Nat
    BY <1>2 DEF RankedRows
  <1>5. /\ walk'.pc = "ask" /\ walk'.page = 1 /\ walk'.rows = <<>> /\ walk'.total = NoCount
        /\ walk'.fetched = FALSE /\ walk'.seen = <<>> /\ walk'.stayed = Ids(reader) /\ walk'.left = FALSE
        /\ walk'.grew = FALSE /\ walk'.late = FALSE /\ walk'.tied = {}
    BY <1>1 DEF Reader, Ids
  <1>6. walk' \in WalkRecord
    BY <1>1, <1>4 DEF Reader, WalkRecord, Ids
  <1>7. \A o : At(<<>>, o) = {}
    BY DEF At
  <1>8. End' = 0
    <2>1. PageSize \in Nat
      BY ReportsAssumption
    <2> QED BY <1>5, <2>1 DEF End, Offset
  <1>9. \A o \in Op : Progress(o)'
    BY <1>3, <1>4, <1>5, <1>7, <1>8 DEF Progress, Unlisted, Listed, ListedOnce
  <1> QED BY <1>1, <1>3, <1>5, <1>6, <1>9 DEF WalkInv, Walks, WalkErrsForAReason

LEMMA LookUpWalks ==
  ASSUME WalkInv, LookUp
  PROVE  WalkInv'
  <1>1. walk.pc = "ask" /\ UNCHANGED <<reader, journal, notes>> /\ Walks
    BY DEF LookUp, money, WalkInv, Walking
  <1>2. PICK label \in {"refused", "query"} : walk' = [walk EXCEPT !.pc = label]
    BY DEF LookUp
  <1>3. walk \in WalkRecord
    BY <1>1 DEF Walks
  <1>4. /\ walk'.pc = label /\ walk'.page = walk.page /\ walk'.rows = walk.rows
        /\ walk'.total = walk.total /\ walk'.fetched = walk.fetched /\ walk'.seen = walk.seen
        /\ walk'.tied = walk.tied /\ walk'.stayed = walk.stayed /\ walk'.left = walk.left
        /\ walk'.grew = walk.grew /\ walk'.late = walk.late
        /\ label = "query" => walk' \in WalkRecord
    BY <1>2, <1>3 DEF WalkRecord
  <1>5. Ids(reader)' = Ids(reader) /\ \A o : Ahead(reader, o)' = Ahead(reader, o)
    BY <1>1 DEF Ids, Ahead, Matching, Table, Before
  <1>6. \A o \in Op : Progress(o) => Progress(o)'
    BY <1>4, <1>5 DEF Progress, Unlisted, Listed, ListedOnce, At, End
  <1>7. label = "query" => Walks'
    BY <1>1, <1>4, <1>5, <1>6 DEF Walks
  <1> QED BY <1>4, <1>7 DEF WalkInv, Walking, WalkErrsForAReason

LEMMA FetchWalks ==
  ASSUME TypeOK, Tables, WalkInv, FindMany
  PROVE  WalkInv'
  <1> DEFINE shared == {r.op : r \in {x \in Matching(reader) :
                                        \E y \in Matching(reader) : y # x /\ y.stamp = x.stamp}}
             m == Offset(walk.page)
             n == Cardinality(Matching(reader))
  <1>1. walk.pc = "query" /\ ~walk.fetched /\ Walks
    BY DEF FindMany, WalkInv, Walking
  <1>2. UNCHANGED <<reader, journal, notes>>
    BY Zenon DEF FindMany, money
  <1>3. PICK s \in Ordered(reader) :
          walk' = [walk EXCEPT !.fetched = TRUE,
                               !.rows = [i \in 1..Len(Slice(s, walk.page)) |-> Slice(s, walk.page)[i].op],
                               !.tied = @ \union shared]
    BY Zenon DEF FindMany
  <1> DEFINE t == Slice(s, walk.page)
             names == [i \in 1..Len(t) |-> t[i].op]
             tied == walk.tied \union shared
  <1>4. walk \in WalkRecord /\ reader \in Queries /\ walk.rows = <<>> /\ walk.page \in Nat \ {0}
    BY <1>1 DEF Walks, WalkRecord
  <1>5. /\ IsFiniteSet(Matching(reader)) /\ TheirOwnRow(Matching(reader))
        /\ \A r \in Matching(reader) : r.op \in Op /\ r.stamp \in Nat
        /\ Ids(reader) \subseteq Op /\ Cardinality(Ids(reader)) = n
    BY <1>4, MatchingFacts DEF RankedRows
  <1>6. /\ n \in Nat /\ s \in [1..n -> Matching(reader)] /\ s \in Seq(Matching(reader)) /\ Len(s) = n
    BY <1>5, OrderedFacts
  <1>7. /\ m \in Nat /\ Len(t) \in Nat
        /\ \A i \in 1..Len(t) : m + i \in 1..n /\ i <= PageSize /\ t[i] = s[m + i]
        /\ \A j \in 1..n : m < j /\ j <= m + PageSize => j - m \in 1..Len(t) /\ t[j - m] = s[j]
    BY <1>4, <1>6, SliceFacts
  <1> HIDE DEF t, shared, n, m
  <1>8. \A i \in 1..Len(t) : t[i] \in Matching(reader) /\ t[i].op \in Ids(reader)
    BY <1>6, <1>7 DEF Ids
  <1>9. names \in Seq(Op) /\ shared \subseteq Op /\ Len(names) = Len(t)
    <2>1. shared \subseteq Op
      BY <1>5 DEF shared
    <2>2. \A i \in 1..Len(t) : t[i].op \in Op
      BY <1>5, <1>8
    <2> QED BY <1>7, <2>1, <2>2
  <1>10. tied \in SUBSET Op
    BY <1>4, <1>9 DEF WalkRecord
  <1>11. walk' = [walk EXCEPT !.fetched = TRUE, !.rows = names, !.tied = tied]
    BY <1>3 DEF t
  <1>12. \A i \in 1..Len(names) : names[i] = t[i].op
    BY <1>9
  <1> HIDE DEF names, tied
  <1>13. /\ walk'.pc = walk.pc /\ walk'.page = walk.page /\ walk'.rows = names
         /\ walk'.total = walk.total /\ walk'.fetched = TRUE /\ walk'.seen = walk.seen
         /\ walk'.tied = tied /\ walk'.stayed = walk.stayed /\ walk'.left = walk.left
         /\ walk'.grew = walk.grew /\ walk'.late = walk.late
         /\ walk' \in WalkRecord
    BY <1>4, <1>9, <1>10, <1>11 DEF WalkRecord
  <1>14. Ids(reader)' = Ids(reader) /\ \A o : Ahead(reader, o)' = Ahead(reader, o)
    BY <1>2 DEF Ids, Ahead, Matching, Table, Before
  <1>15. PageSize \in Nat /\ End = m /\ End' = m + PageSize
    BY <1>1, <1>13, ReportsAssumption DEF End, m
  <1>16. ASSUME NEW o \in Op, o \notin tied PROVE Progress(o)'
    <2>1. Progress(o) /\ walk.stayed \subseteq Ids(reader)
      BY <1>1, <1>16 DEF Walks, tied
    <2>2. At(walk.rows, o) = {} /\ (Listed(o) <=> At(walk.seen, o) # {})
      BY <1>4 DEF At, Listed
    <2>3. /\ At(names, o) = {i \in 1..Len(t) : t[i].op = o}
          /\ Listed(o)' <=> At(walk.seen, o) # {} \/ At(names, o) # {}
          /\ ListedOnce(o)' <=> /\ At(walk.seen, o) = {} \/ At(names, o) = {}
                                /\ \A i, j \in At(walk.seen, o) : i = j
                                /\ \A i, j \in At(names, o) : i = j
      BY <1>9, <1>12, <1>13 DEF At, Listed, ListedOnce
    <2>4. CASE o \notin Ids(reader)
      <3>1. At(names, o) = {}
        BY <1>8, <2>3, <2>4
      <3>2. ListedOnce(o) => ListedOnce(o)'
        BY <2>3, <3>1 DEF ListedOnce
      <3> QED BY <1>13, <1>14, <2>1, <2>4, <3>2 DEF Progress, Unlisted
    <2>5. CASE o \in Ids(reader)
      <3>1. Untied(reader, o)
        BY <1>16 DEF Untied, tied, shared
      <3>2. PICK j \in 1..n : /\ s[j].op = o /\ Cardinality(Ahead(reader, o)) = j - 1
                              /\ \A i \in 1..n : s[i].op = o => i = j
        BY <1>5, <2>5, <3>1, PlaceOf DEF n
      <3>3. \A i \in At(names, o) : i = j - m /\ m < j /\ j <= m + PageSize
        <4> SUFFICES ASSUME NEW i \in At(names, o) PROVE i = j - m /\ m < j /\ j <= m + PageSize
          OBVIOUS
        <4>1. i \in 1..Len(t) /\ t[i].op = o
          BY <2>3
        <4>2. m + i \in 1..n /\ i <= PageSize /\ s[m + i].op = o
          BY <1>7, <4>1
        <4>3. m + i = j
          BY <3>2, <4>2
        <4> QED BY <1>6, <1>7, <1>15, <4>1, <4>2, <4>3
      <3>4. At(names, o) = {} => ~(m < j /\ j <= m + PageSize)
        BY <1>7, <2>3, <3>2
      <3>5. At(walk.seen, o) # {} /\ ~walk.grew => j - 1 < m
        BY <1>15, <2>1, <2>2, <2>5, <3>2 DEF Progress
      <3>6. ~walk.grew => ListedOnce(o)
        BY <2>1 DEF Progress
      <3>7. ~walk.grew => ListedOnce(o)'
        BY <1>6, <1>7, <2>3, <3>3, <3>5, <3>6 DEF ListedOnce
      <3>8. ~walk.grew /\ Listed(o)' => j - 1 < m + PageSize
        BY <1>6, <1>7, <1>15, <2>3, <3>3, <3>5
      <3>9. Unlisted(o)' => Unlisted(o) /\ j - 1 >= m + PageSize
        <4>1. Unlisted(o)' => Unlisted(o) /\ At(names, o) = {}
          BY <1>13, <2>2, <2>3 DEF Unlisted
        <4>2. Unlisted(o) => j - 1 >= m
          BY <1>15, <2>1, <3>2 DEF Progress
        <4> QED BY <1>6, <1>7, <1>15, <3>2, <3>4, <4>1, <4>2
      <3>10. Unlisted(o)' /\ walk.total # NoCount /\ ~walk.late => walk.total > m + PageSize
        <4>1. Unlisted(o) /\ walk.total # NoCount /\ ~walk.late => walk.total = n
          BY <1>1, <1>5 DEF Walks, Unlisted
        <4> QED BY <1>6, <1>7, <1>15, <3>2, <3>9, <4>1
      <3> QED BY <1>13, <1>14, <1>15, <3>2, <3>7, <3>8, <3>9, <3>10 DEF Progress
    <2> QED BY <2>4, <2>5
  <1>17. Walks'
    BY <1>1, <1>2, <1>4, <1>13, <1>14, <1>16 DEF Walks
  <1> QED BY <1>1, <1>13, <1>17 DEF WalkInv, Walking, WalkErrsForAReason

LEMMA CountWalks ==
  ASSUME TypeOK, Tables, WalkInv, Count
  PROVE  WalkInv'
  <1> DEFINE n == Cardinality(Matching(reader))
  <1>1. /\ walk.pc = "query" /\ walk.total = NoCount /\ Walks
        /\ walk' = [walk EXCEPT !.total = n] /\ UNCHANGED <<reader, journal, notes>>
    BY DEF Count, money, WalkInv, Walking
  <1>2. walk \in WalkRecord /\ reader \in Queries
    BY <1>1 DEF Walks
  <1>3. /\ n \in Nat /\ Cardinality(Ids(reader)) = n /\ IsFiniteSet(Ids(reader))
        /\ \A o : Cardinality(Ahead(reader, o)) \in Nat
    BY <1>2, MatchingFacts, FS_CardinalityType DEF RankedRows
  <1> HIDE DEF n
  <1>4. /\ walk'.pc = walk.pc /\ walk'.page = walk.page /\ walk'.rows = walk.rows
        /\ walk'.total = n /\ walk'.fetched = walk.fetched /\ walk'.seen = walk.seen
        /\ walk'.tied = walk.tied /\ walk'.stayed = walk.stayed /\ walk'.left = walk.left
        /\ walk'.grew = walk.grew /\ walk'.late = walk.late
        /\ walk' \in WalkRecord
    BY <1>1, <1>2, <1>3 DEF WalkRecord
  <1>5. Ids(reader)' = Ids(reader) /\ \A o : Ahead(reader, o)' = Ahead(reader, o)
    BY <1>1 DEF Ids, Ahead, Matching, Table, Before
  <1>6. \A o \in Ids(reader) : Cardinality(Ahead(reader, o)) < n
    <2> SUFFICES ASSUME NEW o \in Ids(reader) PROVE Cardinality(Ahead(reader, o)) < n
      OBVIOUS
    <2>1. Ahead(reader, o) \in SUBSET Ids(reader)
      BY DEF Ahead
    <2>2. o \notin Ahead(reader, o)
      <3>1. TheirOwnRow(Matching(reader)) /\ \A r \in Matching(reader) : r.stamp \in Nat
        BY <1>2, MatchingFacts DEF RankedRows
      <3> QED BY <3>1 DEF Ahead, Before, TheirOwnRow
    <2> QED BY <1>3, <2>1, <2>2, FS_Subset
  <1>7. End' = End
    BY <1>4 DEF End
  <1>8. End \in Nat
    <2>1. PageSize \in Nat /\ walk.page - 1 \in Nat
      BY <1>2, ReportsAssumption DEF WalkRecord
    <2>2. (walk.page - 1) * PageSize \in Nat
      BY <2>1
    <2> QED BY <2>1, <2>2 DEF End, Offset
  <1>9. ASSUME NEW o \in Op, o \notin walk.tied PROVE Progress(o)'
    <2>1. Progress(o) /\ walk.stayed \subseteq Ids(reader)
      BY <1>1, <1>9 DEF Walks
    <2>2. /\ Unlisted(o)' <=> Unlisted(o)
          /\ Listed(o)' <=> Listed(o)
          /\ ListedOnce(o)' <=> ListedOnce(o)
      BY <1>4 DEF Unlisted, Listed, ListedOnce, At
    <2>3. Unlisted(o) => n > End
      <3>1. Unlisted(o) => Cardinality(Ahead(reader, o)) >= End /\ o \in Ids(reader)
        BY <2>1 DEF Progress, Unlisted
      <3> QED BY <1>3, <1>6, <1>8, <3>1
    <2> QED BY <1>4, <1>5, <1>7, <2>1, <2>2, <2>3 DEF Progress
  <1>10. Walks'
    BY <1>1, <1>2, <1>3, <1>4, <1>5, <1>9 DEF Walks
  <1> QED BY <1>1, <1>4, <1>10 DEF WalkInv, Walking, WalkErrsForAReason

LEMMA AtConcat ==
  ASSUME NEW S, NEW s \in Seq(S), NEW t \in Seq(S), NEW o
  PROVE  /\ s \o t \in Seq(S)
         /\ At(s \o t, o) = At(s, o) \union {Len(s) + i : i \in At(t, o)}
  <1>1. s \o t \in Seq(S) /\ Len(s \o t) = Len(s) + Len(t) /\ Len(s) \in Nat /\ Len(t) \in Nat
    OBVIOUS
  <1>2. /\ \A i \in 1..Len(s) : (s \o t)[i] = s[i]
        /\ \A i \in 1..Len(t) : (s \o t)[Len(s) + i] = t[i]
    BY <1>1
  <1>3. \A k \in 1..Len(s \o t) : k \in 1..Len(s) \/ \E i \in 1..Len(t) : k = Len(s) + i
    <2> SUFFICES ASSUME NEW k \in 1..Len(s \o t), k \notin 1..Len(s)
                 PROVE  \E i \in 1..Len(t) : k = Len(s) + i
      OBVIOUS
    <2>1. k - Len(s) \in 1..Len(t) /\ k = Len(s) + (k - Len(s))
      BY <1>1
    <2> QED BY <2>1
  <1>4. /\ \A i \in 1..Len(s) : i \in 1..Len(s \o t)
        /\ \A i \in 1..Len(t) : Len(s) + i \in 1..Len(s \o t)
    BY <1>1
  <1> QED BY <1>1, <1>2, <1>3, <1>4 DEF At

(* totalPages is rounded up: a row behind the end of a page has a next one.*)
LEMMA PagesCover ==
  ASSUME NEW page \in Nat \ {0}, NEW total \in Nat, total > Offset(page) + PageSize
  PROVE  HasNext(page, total)
  <1>1. PageSize \in Nat /\ PageSize > 0
    BY ReportsAssumption
  <1> DEFINE rounded == total + PageSize - 1
             q == rounded \div PageSize
  <1>2. page * PageSize \in Int /\ Offset(page) + PageSize = page * PageSize
    BY <1>1 DEF Offset
  <1>3. q \in Int /\ rounded <= q * PageSize + PageSize - 1 /\ q * PageSize \in Int
    <2>1. rounded \in Int
      BY <1>1
    <2> HIDE DEF rounded
    <2> QED BY <1>1, <2>1, Division
  <1>4. rounded \in Int /\ rounded >= page * PageSize + PageSize
    BY <1>1, <1>2
  <1> HIDE DEF q, rounded
  <1>5. ~(q < page) /\ q # page
    <2>1. q < page => page * PageSize >= q * PageSize + PageSize
      BY <1>1, <1>3, Products
    <2>2. q = page => q * PageSize = page * PageSize
      OBVIOUS
    <2> QED BY <1>1, <1>2, <1>3, <1>4, <2>1, <2>2
  <1>6. page < q
    BY <1>3, <1>5
  <1> QED BY <1>6 DEF HasNext, TotalPages, q, rounded

LEMMA OneAtMost ==
  ASSUME NEW S, \A i, j \in S : i = j
  PROVE  ~(Cardinality(S) > 1)
  <1>1. CASE S = {}
    BY <1>1, FS_EmptySet
  <1>2. ASSUME NEW x \in S PROVE ~(Cardinality(S) > 1)
    <2>1. S = {x}
      BY <1>2
    <2> QED BY <2>1, FS_Singleton
  <1> QED BY <1>1, <1>2

LEMMA AnswerWalks ==
  ASSUME TypeOK, Tables, WalkInv, Answer
  PROVE  WalkInv'
  <1>1. /\ walk.pc = "query" /\ walk.fetched /\ walk.total # NoCount /\ Walks
        /\ UNCHANGED <<reader, journal, notes>>
    BY DEF Answer, money, WalkInv, Walking
  <1>2. walk \in WalkRecord /\ reader \in Queries
    BY <1>1 DEF Walks
  <1>3. /\ walk.seen \in Seq(Op) /\ walk.rows \in Seq(Op) /\ walk.page \in Nat \ {0} /\ walk.total \in Nat
    BY <1>1, <1>2 DEF WalkRecord
  <1> DEFINE all == walk.seen \o walk.rows
  <1>4. /\ all \in Seq(Op)
        /\ \A o : At(all, o) = At(walk.seen, o) \union {Len(walk.seen) + i : i \in At(walk.rows, o)}
    BY <1>3, AtConcat
  <1>5. Len(walk.seen) \in Nat
    BY <1>3
  <1> HIDE DEF all
  <1>6. \A o : /\ Listed(o) <=> At(all, o) # {}
               /\ ListedOnce(o) => \A i, j \in At(all, o) : i = j
    <2> SUFFICES ASSUME NEW o
                 PROVE  /\ Listed(o) <=> At(all, o) # {}
                        /\ ListedOnce(o) => \A i, j \in At(all, o) : i = j
      OBVIOUS
    <2>1. \A k : k \in At(all, o) <=> k \in At(walk.seen, o) \/ \E i \in At(walk.rows, o) : k = Len(walk.seen) + i
      BY <1>4
    <2>2. Listed(o) <=> At(all, o) # {}
      BY <2>1 DEF Listed
    <2>3. ListedOnce(o) => \A i, j \in At(all, o) : i = j
      BY <2>1 DEF ListedOnce
    <2> QED BY <2>2, <2>3
  <1>7. \A o \in Op \ walk.tied : Progress(o)
    BY <1>1 DEF Walks
  <1>8. PageSize \in Nat /\ Offset(walk.page) \in Nat /\ End = Offset(walk.page) + PageSize
    <2>1. PageSize \in Nat /\ walk.page - 1 \in Nat
      BY <1>3, ReportsAssumption
    <2>2. (walk.page - 1) * PageSize \in Nat
      BY <2>1
    <2> QED BY <1>1, <2>1, <2>2 DEF End, Offset
  <1>9. CASE HasNext(walk.page, walk.total)
    <2>1. walk' = [walk EXCEPT !.pc = "ask", !.page = walk.page + 1, !.seen = all,
                               !.rows = <<>>, !.total = NoCount, !.fetched = FALSE, !.late = FALSE]
      BY <1>9 DEF Answer, all
    <2>2. <<>> \in Seq(Op) /\ walk.page + 1 \in Nat \ {0}
      BY <1>3
    <2>3. /\ walk'.pc = "ask" /\ walk'.page = walk.page + 1 /\ walk'.rows = <<>>
          /\ walk'.total = NoCount /\ walk'.fetched = FALSE /\ walk'.seen = all
          /\ walk'.tied = walk.tied /\ walk'.stayed = walk.stayed /\ walk'.left = walk.left
          /\ walk'.grew = walk.grew /\ walk'.late = FALSE
          /\ walk' \in WalkRecord
      BY <1>2, <1>4, <2>1, <2>2 DEF WalkRecord
    <2>4. Ids(reader)' = Ids(reader) /\ \A o : Ahead(reader, o)' = Ahead(reader, o)
      BY <1>1 DEF Ids, Ahead, Matching, Table, Before
    <2>5. End' = End
      <3>1. (walk.page + 1) - 1 = (walk.page - 1) + 1 /\ walk.page - 1 \in Nat
        BY <1>3
      <3>2. ((walk.page - 1) + 1) * PageSize = (walk.page - 1) * PageSize + PageSize
        BY <1>8, <3>1
      <3> QED BY <1>8, <2>3, <3>1, <3>2 DEF End, Offset
    <2>6. \A o : At(<<>>, o) = {}
      BY DEF At
    <2>7. \A o : (Listed(o)' <=> Listed(o)) /\ (ListedOnce(o) => ListedOnce(o)') /\ (Unlisted(o)' <=> Unlisted(o))
      BY <1>6, <2>3, <2>6 DEF Listed, ListedOnce, Unlisted
    <2>8. \A o \in Op \ walk.tied : Progress(o)'
      BY <1>7, <2>3, <2>4, <2>5, <2>7 DEF Progress
    <2>9. Walks'
      BY <1>1, <1>2, <2>3, <2>4, <2>8 DEF Walks
    <2> QED BY <2>3, <2>9 DEF WalkInv, Walking, WalkErrsForAReason
  <1>10. CASE ~HasNext(walk.page, walk.total)
    <2>1. walk' = [walk EXCEPT !.pc = "done", !.seen = all, !.rows = <<>>]
      BY <1>10 DEF Answer, all
    <2>2. /\ walk'.pc = "done" /\ walk'.seen = all /\ walk'.tied = walk.tied /\ walk'.stayed = walk.stayed
          /\ walk'.left = walk.left /\ walk'.grew = walk.grew /\ walk'.late = walk.late
      BY <1>2, <2>1 DEF WalkRecord
    <2>3. ~(walk.total > End)
      BY <1>3, <1>8, <1>10, PagesCover
    <2>4. ASSUME NEW o \in Op \ walk.tied
          PROVE  /\ o \in walk.stayed => At(all, o) # {} \/ walk.left \/ walk.late
                 /\ Cardinality(At(all, o)) > 1 => walk.grew
      <3>1. Progress(o)
        BY <1>7
      <3>2. o \in walk.stayed => At(all, o) # {} \/ walk.left \/ walk.late
        BY <1>1, <1>6, <2>3, <3>1 DEF Progress, Unlisted
      <3>3. ~walk.grew => \A i, j \in At(all, o) : i = j
        BY <1>6, <3>1 DEF Progress
      <3>4. ~walk.grew => ~(Cardinality(At(all, o)) > 1)
        BY <3>3, OneAtMost
      <3> QED BY <3>2, <3>4
    <2>5. WalkErrsForAReason'
      BY <2>2, <2>4 DEF WalkErrsForAReason, At
    <2> QED BY <2>2, <2>5 DEF WalkInv, Walking
  <1> QED BY <1>9, <1>10

LEMMA WalkStep ==
  ReportsInv /\ ReportsInv' /\ Tables /\ WalkInv /\ [Next]_vars => Tables' /\ WalkInv'
  <1> SUFFICES ASSUME ReportsInv, ReportsInv', Tables, WalkInv, [Next]_vars PROVE Tables' /\ WalkInv'
    OBVIOUS
  <1>1. TypeOK /\ TypeOK' /\ Tables' /\ Stamped
    BY TablesStep DEF ReportsInv
  <1>2. CASE BeginWalk \/ LookUp \/ FindMany \/ Count \/ Answer
    BY <1>1, <1>2, BeginWalks, LookUpWalks, FetchWalks, CountWalks, AnswerWalks
  <1>3. ASSUME NEW o \in Op, Commit(o) \/ Notify(o) PROVE WalkInv'
    <2>1. Watch /\ reader' = reader
      BY <1>3 DEF Commit, Commits, Notify
    <2> QED BY <1>1, <2>1, WatchWalks
  <1>4. CASE DeleteAccount
    <2>1. Watch /\ reader' = reader
      BY <1>4 DEF DeleteAccount
    <2> QED BY <1>1, <2>1, WatchWalks
  <1>5. ASSUME NEW n \in notes, MarkAsRead(n) PROVE WalkInv'
    <2>1. Watch /\ reader' = reader
      BY <1>5 DEF MarkAsRead
    <2> QED BY <1>1, <2>1, WatchWalks
  <1>6. ASSUME NEW o \in Op, Begin(o) \/ Record(o) \/ Abort(o) PROVE WalkInv'
    <2>1. UNCHANGED <<reader, journal, notes, walk>>
      BY <1>6 DEF Begin, Record, Abort
    <2> QED BY <2>1, WalkRests
  <1>7. CASE Tick \/ MakeStatement \/ \E first, last \in Dates : AskStatement(first, last)
    <2>1. UNCHANGED <<reader, journal, notes, walk>>
      BY <1>7 DEF Tick, MakeStatement, AskStatement, money
    <2> QED BY <1>1, <2>1, WalkRests
  <1>8. CASE UNCHANGED vars
    BY <1>1, <1>8, WalkRests DEF vars
  <1> QED BY <1>1, <1>2, <1>3, <1>4, <1>5, <1>6, <1>7, <1>8 DEF Next

LEMMA WalkInit == Init => WalkInv
  BY DEF Init, WalkInv, Walking, WalkErrsForAReason, NoWalk

(* Page after page, while rows come, leave and change: a reader misses a   *)
(* row that was there all the time only if another left, or came between   *)
(* the count and the rows of the last page; it sees one twice only if      *)
(* another came.  For every page size, filter and order.                   *)
THEOREM WalksErrForAReason == Spec => []WalkErrsForAReason
  <1>1. WalkInv => WalkErrsForAReason
    BY DEF WalkInv
  <1>2. Spec => [](Tables /\ WalkInv)
    BY ReportsInvariant, TablesInit, WalkInit, WalkStep, PTL DEF Spec
  <1> QED BY <1>1, <1>2, PTL
=============================================================================
