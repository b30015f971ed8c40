------------------------------ MODULE Reports -------------------------------
(***************************************************************************)
(* What a user reads of one account while money moves on it: lists, page   *)
(* after page, statements of past days, and notifications.                 *)
(*                                                                         *)
(* Time is counted in instants, Day of them to a day of UTC; the server's  *)
(* clock is some instants ahead of UTC, or behind it, and is set once      *)
(* while the model looks, as for daylight saving time.  Every list         *)
(* endpoint (accounts, wallets, payment methods, beneficiaries,            *)
(* deliveries) pages as the two lists here do, with a filter or none.      *)
(* Amounts are 1.                                                          *)
(***************************************************************************)
EXTENDS Integers, Sequences, FiniteSets

CONSTANTS
  Op, Kind, \* money operations that may come, Kind[o]: what o may be
  Day,      \* instants per day
  Zones,    \* the zones the server may run in: how far its clock is ahead
            \* of UTC before the instant it is set, and after
  Timeout,  \* how long a transaction of the database may last
  MaxSpan,  \* the longest period of a statement, in days
  PageSize, \* the limit the reader asks for
  Queries,  \* the lists it may walk
  MaxTime, MaxStatements \* bounds of the model

ASSUME ReportsAssumption ==
  /\ Day \in Nat \ {0} /\ Timeout \in Nat /\ PageSize \in Nat \ {0}
  /\ \A z \in Zones : /\ z.before \in (1 - Day)..(Day - 1) /\ z.after \in (1 - Day)..(Day - 1)
                      /\ z.change \in Int
  /\ \A o \in Op : Kind[o] \subseteq {"DEPOSIT", "WITHDRAWAL", "TRANSFER", "received"}
  /\ MaxSpan \in Nat /\ MaxTime \in Nat
  /\ Queries \subseteq [list : {"transactions", "notifications"}, unread : BOOLEAN, newest : BOOLEAN]

Credit == {"DEPOSIT"}
Debit == {"WITHDRAWAL", "TRANSFER"}
Received == "received" \* the other account's transfer: it has no row here

VARIABLES
  reader,  \* a list, or statements: readers change nothing, one is enough
  now, zone,
  account, \* it exists
  balance,
  op,      \* the handler of each operation
  journal, \* the committed rows of transactions
  notes,   \* the user's notifications
  walk,    \* the reader of a list
  asked,   \* the period of the statement under way
  taken    \* the statements answered

vars == <<reader, now, zone, account, balance, op, journal, notes, walk, asked, taken>>
money == <<account, balance, op, journal, notes>>

-----------------------------------------------------------------------------
(* Dates: day d is the string of the d-th day, read as midnight in UTC.    *)
Utc(d) == d * Day
ShiftAt(t) == IF t < zone.change THEN zone.before ELSE zone.after
LocalDay(t) == (t + ShiftAt(t)) \div Day

(* The instant at which the clock reads l.  A reading that comes twice, as *)
(* the clock is put back, is taken the first time; one that is skipped is  *)
(* taken as if the clock had not been set yet.                             *)
InstantOf(l) ==
  IF l - zone.before < zone.change \/ l - zone.after < zone.change
  THEN l - zone.before ELSE l - zone.after

(* setHours(0, 0, 0, 0) and setHours(23, 59, 59, 999). *)
LocalMidnight(t) == InstantOf(LocalDay(t) * Day)
LocalEnd(t) == InstantOf(LocalDay(t) * Day + Day - 1)

(* Slip: the hours are set in UTC at one end of the period only.           *)
RangeEndUtc(d) == Utc(d) + Day - 1

RangeStart(d) == LocalMidnight(Utc(d))
RangeEnd(d) == LocalEnd(Utc(d))

(* statementQuerySchema. *)
MayAsk(first, last) ==
  /\ first <= last
  /\ Utc(last) <= LocalEnd(now)
  /\ last - first <= MaxSpan

Within(first, last) == {r \in journal : RangeStart(first) <= r.stamp /\ r.stamp <= RangeEnd(last)}

(* Slip: a transfer is counted on neither side.                            *)
TotalsForgetful(rows) ==
  [credits |-> Cardinality({r \in rows : r.kind \in Credit}),
   debits |-> Cardinality({r \in rows : r.kind = "WITHDRAWAL"})]

Totals(rows) ==
  [credits |-> Cardinality({r \in rows : r.kind \in Credit}),
   debits |-> Cardinality({r \in rows : r.kind \in Debit})]

-----------------------------------------------------------------------------
(* Lists: the rows a query matches, in an order that leaves rows of the    *)
(* same instant as the database likes.                                     *)
Table(q) == IF q.list = "transactions" THEN journal ELSE notes
Matching(q) == {r \in Table(q) : q.unread => ~r.read}

Ordered(q) ==
  LET rows == Matching(q)
      n == Cardinality(rows) IN
  {s \in [1..n -> rows] : \A i, j \in 1..n : i < j =>
     /\ s[i] # s[j]
     /\ IF q.newest THEN s[i].stamp >= s[j].stamp ELSE s[i].stamp <= s[j].stamp}

Offset(page) == (page - 1) * PageSize

(* Slip: the last, shorter page is not counted.                            *)
TotalPagesFloor(total) == total \div PageSize

TotalPages(total) == (total + PageSize - 1) \div PageSize
HasNext(page, total) == page < TotalPages(total)

(* skip, then take. *)
Slice(s, page) ==
  LET end == Offset(page) + PageSize IN
  SubSeq(s, Offset(page) + 1, IF end < Len(s) THEN end ELSE Len(s))

Over == [pc |-> "over"]
NoWalk == [pc |-> "idle"]
NoCount == -1
Statements == [list |-> "statements"]

(* The reader, and what befell its list: the rows that were there all the  *)
(* time, whether one left it, whether one came (late: between the count    *)
(* and the rows of this page), and the rows that shared an instant.        *)
Reader(q) ==
  [pc |-> "ask", page |-> 1, rows |-> <<>>, total |-> NoCount, fetched |-> FALSE,
   seen |-> <<>>, stayed |-> {r.op : r \in Matching(q)},
   left |-> FALSE, grew |-> FALSE, late |-> FALSE, tied |-> {}]

Walking == walk.pc \in {"ask", "query"}

Ids(q) == {r.op : r \in Matching(q)}

(* The same rows seen from the reader's side when the tables change.       *)
Watch ==
  IF ~Walking THEN UNCHANGED walk
  ELSE \E q \in {reader} :
    LET came == Ids(q)' \ Ids(q) IN
    walk' = [walk EXCEPT
      !.stayed = @ \intersect Ids(q)',
      !.left = @ \/ ~(Ids(q) \subseteq Ids(q)'),
      !.grew = @ \/ came # {},
      !.late = @ \/ (came # {} /\ walk.total # NoCount /\ ~walk.fetched)]

-----------------------------------------------------------------------------
(* Lists do not look at the clock. *)
Greenwich == [before |-> 0, after |-> 0, change |-> 0]

Init ==
  /\ reader \in Queries \union {Statements}
  /\ now = 0
  /\ zone \in IF reader = Statements THEN Zones ELSE {Greenwich}
  /\ account = TRUE /\ balance = 0
  /\ op = [o \in Op |-> [pc |-> "idle"]]
  /\ journal = {} /\ notes = {}
  /\ walk = NoWalk
  /\ asked = <<>> /\ taken = {}

Tick ==
  /\ now < MaxTime
  /\ now' = now + 1
  /\ UNCHANGED <<reader, zone, money, walk, asked, taken>>

(* The transaction of a deposit, withdrawal or transfer begins. *)
Begin(o) ==
  /\ op[o].pc = "idle" /\ account
  /\ \E kind \in Kind[o] :
       op' = [op EXCEPT ![o] = [pc |-> "open", kind |-> kind, began |-> now, stamp |-> now]]
  /\ UNCHANGED <<reader, now, zone, account, balance, journal, notes, walk, asked, taken>>

Holds(o) == op[o].pc = "recorded"

(* The default of createdAt is an instant since the transaction began; one *)
(* is enough where only notifications are read.                            *)
Stamps(o) == IF reader.list = "notifications" THEN {0} ELSE op[o].began..now

(* It locks the account's row, finds the funds and inserts its row.        *)
Record(o) ==
  /\ op[o].pc = "open" /\ account
  /\ \A other \in Op : ~Holds(other)
  /\ op[o].kind \in Debit => balance > 0
  /\ \E t \in Stamps(o) : op' = [op EXCEPT ![o].pc = "recorded", ![o].stamp = t]
  /\ UNCHANGED <<reader, now, zone, account, balance, journal, notes, walk, asked, taken>>

Commits(o) ==
  /\ op' = [op EXCEPT ![o] = [pc |-> IF op[o].kind = Received THEN "received" ELSE "committed",
                              kind |-> op[o].kind]]
  /\ balance' = IF op[o].kind \in Debit THEN balance - 1 ELSE balance + 1
  /\ journal' = IF op[o].kind = Received THEN journal
                ELSE journal \union {[op |-> o, kind |-> op[o].kind, stamp |-> op[o].stamp, read |-> FALSE]}
  /\ UNCHANGED <<reader, now, zone, account, notes, asked, taken>>
  /\ Watch

(* Slip: no timeout is set on the transaction.                             *)
CommitAnyTime(o) == Holds(o) /\ Commits(o)

Commit(o) == Holds(o) /\ now <= op[o].began + Timeout /\ Commits(o)

(* The transaction runs out of time, or a query of it fails. *)
Abort(o) ==
  /\ op[o].pc \in {"open", "recorded"}
  /\ op' = [op EXCEPT ![o] = Over]
  /\ UNCHANGED <<reader, now, zone, account, balance, journal, notes, walk, asked, taken>>

(* createForTransaction, after the commit; its INSERT may fail. *)
Notify(o) ==
  /\ op[o].pc = "committed" /\ reader.list = "notifications"
  /\ op' = [op EXCEPT ![o] = Over]
  /\ \/ notes' = notes \union {[op |-> o, kind |-> op[o].kind, stamp |-> now, read |-> FALSE]}
     \/ UNCHANGED notes
  /\ UNCHANGED <<reader, now, zone, account, balance, journal, asked, taken>>
  /\ Watch

(* The account is deleted, and its transactions with it (bulkDelete looks  *)
(* at no balance).                                                         *)
DeleteAccount ==
  /\ account /\ \A o \in Op : ~Holds(o)
  /\ account' = FALSE /\ journal' = {}
  /\ UNCHANGED <<reader, now, zone, balance, op, notes, asked, taken>>
  /\ Watch

(* markAsRead of a notification of the user; others are refused. *)
MarkAsRead(n) ==
  /\ n \in notes /\ ~n.read
  /\ notes' = (notes \ {n}) \union {[n EXCEPT !.read = TRUE]}
  /\ UNCHANGED <<reader, now, zone, account, balance, op, journal, asked, taken>>
  /\ Watch

-----------------------------------------------------------------------------
BeginWalk ==
  /\ walk = NoWalk /\ reader \in Queries
  /\ walk' = Reader(reader)
  /\ UNCHANGED <<reader, now, zone, money, asked, taken>>

(* findByAccount looks the account up before it lists. *)
LookUp ==
  /\ walk.pc = "ask"
  /\ walk' = [walk EXCEPT !.pc = IF reader.list = "transactions" /\ ~account THEN "refused" ELSE "query"]
  /\ UNCHANGED <<reader, now, zone, money, asked, taken>>

(* The two queries of a page run in either order. *)
FindMany ==
  /\ walk.pc = "query" /\ ~walk.fetched
  /\ \E s \in Ordered(reader) :
       LET rows == Slice(s, walk.page) IN
       walk' = [walk EXCEPT !.fetched = TRUE,
                            !.rows = [i \in 1..Len(rows) |-> rows[i].op],
                            !.tied = @ \union {r.op : r \in {x \in Matching(reader) :
                                        \E y \in Matching(reader) : y # x /\ y.stamp = x.stamp}}]
  /\ UNCHANGED <<reader, now, zone, money, asked, taken>>

Count ==
  /\ walk.pc = "query" /\ walk.total = NoCount
  /\ walk' = [walk EXCEPT !.total = Cardinality(Matching(reader))]
  /\ UNCHANGED <<reader, now, zone, money, asked, taken>>

(* The page and its meta are answered; the reader goes on while hasNext.   *)
Answer ==
  /\ walk.pc = "query" /\ walk.fetched /\ walk.total # NoCount
  /\ walk' = IF HasNext(walk.page, walk.total)
             THEN [walk EXCEPT !.pc = "ask", !.page = @ + 1, !.seen = @ \o walk.rows,
                               !.rows = <<>>, !.total = NoCount, !.fetched = FALSE, !.late = FALSE]
             ELSE [walk EXCEPT !.pc = "done", !.seen = @ \o walk.rows, !.rows = <<>>]
  /\ UNCHANGED <<reader, now, zone, money, asked, taken>>

(* getStatement: validation and the look-up of the account ... (the model  *)
(* asks for one period, again and again)                                   *)
AskStatement(first, last) ==
  /\ reader = Statements /\ asked = <<>> /\ account /\ MayAsk(first, last)
  /\ Cardinality(taken) < MaxStatements
  /\ \A s \in taken : s.first = first /\ s.last = last
  /\ asked' = <<first, last>>
  /\ UNCHANGED <<reader, now, zone, money, walk, taken>>

(* ... and, an await later, the query of its transactions.                 *)
MakeStatement ==
  /\ asked # <<>>
  /\ taken' = taken \union {[first |-> asked[1], last |-> asked[2], at |-> now, alive |-> account,
                             rows |-> Within(asked[1], asked[2])]}
  /\ asked' = <<>>
  /\ UNCHANGED <<reader, now, zone, money, walk>>

Dates == (-1)..(MaxTime \div Day + 1)

Next ==
  \/ Tick
  \/ \E o \in Op : Begin(o) \/ Record(o) \/ Commit(o) \/ Abort(o) \/ Notify(o)
  \/ DeleteAccount
  \/ \E n \in notes : MarkAsRead(n)
  \/ BeginWalk \/ LookUp \/ FindMany \/ Count \/ Answer
  \/ \E first, last \in Dates : AskStatement(first, last)
  \/ MakeStatement

Spec == Init /\ [][Next]_vars

-----------------------------------------------------------------------------
(* The type invariant. *)
TypeOK ==
  /\ now \in 0..MaxTime /\ zone \in Zones \union {Greenwich} /\ account \in BOOLEAN /\ balance \in Nat
  /\ \A o \in Op : op[o].pc \in {"idle", "open", "recorded", "committed", "received", "over"}
  /\ journal \union notes \subseteq
       [op : Op, kind : Credit \union Debit, stamp : 0..now, read : BOOLEAN]
  /\ Walking \/ walk.pc \in {"idle", "refused", "done"}
  /\ asked \in {<<>>} \union (Dates \X Dates)

(* A reader that follows hasNext to the end has seen every row that was    *)
(* there all the time, unless a row left the list under it, one came       *)
(* between the count and the rows of the last page, or the sort left the   *)
(* row's place open; and it has seen no row twice unless one came or the   *)
(* place was open.  (Skip, take, count and the rounding of totalPages.)    *)
WalkErrsForAReason ==
  walk.pc = "done" =>
    \A o \in Op \ walk.tied :
      LET places == {i \in 1..Len(walk.seen) : walk.seen[i] = o} IN
      /\ o \in walk.stayed => places # {} \/ walk.left \/ walk.late
      /\ Cardinality(places) > 1 => walk.grew

(* A statement of a period that ended longer ago than a transaction may    *)
(* last is final: whoever asks again, later, gets the same.  Just after    *)
(* midnight it is not, since a row is stamped before it is committed.      *)
PastPeriodsAreFinal ==
  \A s, t \in taken :
    /\ s.first = t.first /\ s.last = t.last /\ s.alive /\ t.alive
    /\ RangeEnd(s.last) + Timeout < s.at /\ s.at <= t.at
    => s.rows = t.rows

(* Days of the clock and days of UTC go together: the clock stays on one   *)
(* side of UTC, and is not set from one day into another (put back at      *)
(* midnight, say, or forward to it).                                       *)
KeepsDates(z) ==
  /\ (z.before < 0) = (z.after < 0)
  /\ (z.change + z.before) \div Day = (z.change + z.after) \div Day

(* In a zone that keeps its dates, daylight saving time or not, each       *)
(* transaction is on the statement of exactly one of the days that may be  *)
(* asked for: the date the query names in UTC, the hours set in local time *)
(* and the rule against the future agree.  Elsewhere they do not: where    *)
(* the offset crosses zero a local day is named by no date or by two, and  *)
(* an hour that is repeated at midnight is in no day.                      *)
OnExactlyOneDay ==
  KeepsDates(zone) =>
    \A r \in journal : Cardinality({d \in Dates : MayAsk(d, d) /\ r \in Within(d, d)}) = 1

(* What a statement from the account's first day to today totals, together *)
(* with the transfers received - which no statement of this account        *)
(* mentions - is its balance.                                              *)
BalanceExplained ==
  account => \A first, last \in Dates :
    /\ MayAsk(first, last) /\ RangeStart(first) <= 0 /\ now <= RangeEnd(last)
    => LET totals == Totals(Within(first, last))
           received == {o \in Op : op[o].pc = "received"} IN
       balance = totals.credits - totals.debits + Cardinality(received)
=============================================================================
