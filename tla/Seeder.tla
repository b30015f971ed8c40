------------------------------- MODULE Seeder -------------------------------
(***************************************************************************)
(* prisma/seed.ts run against a database in use: each query of it is a     *)
(* step of its own, no transaction holds them together, and other seeders  *)
(* may be under way.  One row of each kind per seeded user stands for the  *)
(* lists of the script; the API registers users and stores their files     *)
(* meanwhile.                                                              *)
(***************************************************************************)
EXTENDS Files

CONSTANTS
  Seeder,   \* runs of the script
  SeedUser  \* the addresses of SEED_USERS, in order

ASSUME SeederAssumption ==
  /\ IsFiniteSet(Seeder) /\ Seeder \cap Person = {}
  /\ SeedUser \in Seq(Email)
  /\ \A i, j \in 1..Len(SeedUser) : SeedUser[i] = SeedUser[j] => i = j
  /\ \A p \in Person : Address[p] \in Email

VARIABLES
  seeder,  \* pc: idle, clearing, seeding, ok, failed; at: table; left: rows of it to create
  last,    \* history: the seeder that stopped last
  cut,     \* history: since the seeders last rested one stopped while clearing
  before   \* history: the users a seeder met when it started

vars == <<db, joined, disk, up, down, seeder, last, cut, before>>

NoSeeder == "none"
Number == 1..Len(SeedUser)

(* The foreign keys, all of them ON DELETE CASCADE: what a table's rows    *)
(* refer to, and what goes with them.                                      *)
Parents == [users |-> {}, accounts |-> {"users"}, transactions |-> {"accounts"}, wallets |-> {"users"},
            paymentMethods |-> {"users"}, links |-> {"wallets", "paymentMethods"},
            beneficiaries |-> {"users"}, notifications |-> {"users"}]

Dependents(table) ==
  CASE table = "users" -> DOMAIN Parents \union {"files"}
    [] table = "accounts" -> {"accounts", "transactions"}
    [] table \in {"wallets", "paymentMethods"} -> {table, "links"}
    [] OTHER -> {table}

(* Slip: the users are not cleared.                                        *)
ClearOrderForgetful ==
  <<"files", "notifications", "links", "wallets", "paymentMethods", "beneficiaries", "transactions", "accounts">>

(* clearDatabase.  Files stand for the other tables the script clears and  *)
(* does not fill: deliveries, subscriptions, API keys, refresh tokens.     *)
ClearOrder ==
  <<"files", "notifications", "links", "wallets", "paymentMethods", "beneficiaries", "transactions",
    "accounts", "users">>

(* seed: one table after the other; a loop awaits each of its rows, a      *)
(* Promise.all sends them together.                                        *)
SeedOrder ==
  <<"users", "accounts", "transactions", "wallets", "paymentMethods", "links", "beneficiaries", "notifications">>
Looped == {"users", "transactions"}

SeedRow(s, table, i) == Row(table, s, SeedUser[i])
Seed(s) == {SeedRow(s, table, i) : table \in DOMAIN Parents, i \in Number}

(* The keys the database checks. *)
Accepts(row) ==
  /\ \A parent \in Parents[row.table] : Row(parent, row.by, row.n) \in db
  /\ row.table = "users" => \A user \in Users : user.n # row.n

-----------------------------------------------------------------------------
Init ==
  /\ db = {} /\ FilesInit
  /\ seeder = [s \in Seeder |-> [pc |-> "idle", at |-> 0, left |-> {}]]
  /\ last = NoSeeder /\ cut = FALSE
  /\ before = [s \in Seeder |-> {}]

Running(s) == seeder[s].pc \in {"clearing", "seeding"}

Start(s) ==
  /\ seeder[s].pc = "idle"
  /\ seeder' = [seeder EXCEPT ![s] = [pc |-> "clearing", at |-> 1, left |-> {}]]
  /\ before' = [before EXCEPT ![s] = Users]
  /\ cut' = (cut /\ \E t \in Seeder : Running(t))
  /\ UNCHANGED <<db, fileVars, last>>

(* One deleteMany: all rows of a table, and by cascade those that refer to *)
(* them.                                                                   *)
Clear(s) ==
  /\ seeder[s].pc = "clearing"
  /\ db' = {r \in db : r.table \notin Dependents(ClearOrder[seeder[s].at])}
  /\ seeder' = [seeder EXCEPT ![s] =
       IF @.at < Len(ClearOrder) THEN [@ EXCEPT !.at = seeder[s].at + 1]
       ELSE [pc |-> "seeding", at |-> 1, left |-> Number]]
  /\ UNCHANGED <<fileVars, last, cut, before>>

(* Row i of the table is due; behind the last table the script exits with 0. *)
Advance(s, i) ==
  LET rest == seeder[s].left \ {i} IN
  /\ seeder[s].pc = "seeding" /\ i \in seeder[s].left
  /\ SeedOrder[seeder[s].at] \in Looped => \A j \in seeder[s].left : i <= j
  /\ seeder' = [seeder EXCEPT ![s] =
       IF rest # {} THEN [@ EXCEPT !.left = rest]
       ELSE IF @.at < Len(SeedOrder) THEN [@ EXCEPT !.at = seeder[s].at + 1, !.left = Number]
       ELSE [@ EXCEPT !.pc = "ok", !.left = {}]]
  /\ last' = IF seeder'[s].pc = "ok" THEN s ELSE last
  /\ UNCHANGED <<fileVars, cut, before>>

(* Slip: a row that is refused is passed over.                             *)
CreateOrPass(s, i) ==
  /\ Advance(s, i)
  /\ LET row == SeedRow(s, SeedOrder[seeder[s].at], i) IN
     db' = IF Accepts(row) THEN db \union {row} ELSE db

(* One create. *)
Create(s, i) ==
  /\ Advance(s, i)
  /\ LET row == SeedRow(s, SeedOrder[seeder[s].at], i) IN
     Accepts(row) /\ db' = db \union {row}

(* A row is refused or a query fails: exit(1); or the script is killed.    *)
Exit(s) ==
  /\ Running(s)
  /\ seeder' = [seeder EXCEPT ![s].pc = "failed", ![s].left = {}]
  /\ last' = s
  /\ cut' = (cut \/ seeder[s].pc = "clearing")
  /\ UNCHANGED <<db, fileVars, before>>

Next ==
  \/ \E s \in Seeder : Start(s) \/ Clear(s) \/ Exit(s) \/ \E i \in Number : Create(s, i)
  \/ FilesNext /\ UNCHANGED <<seeder, last, cut, before>>

Spec == Init /\ [][Next]_vars

-----------------------------------------------------------------------------
(* The type invariant. *)
TypeOK ==
  /\ FilesTypeOK
  /\ \A s \in Seeder : seeder[s].left \subseteq Number /\ seeder[s].at \in 0..Len(ClearOrder)
  /\ \A r \in db : r.by \in Seeder \union Person /\ r.n \in Email
  /\ last \in Seeder \union {NoSeeder} /\ cut \in BOOLEAN

(* Once the seeders rest and the one that stopped last exited with 0, the  *)
(* database holds exactly one seed, however their queries overlapped - if  *)
(* none of them stopped while it was clearing.                             *)
SeededOnce ==
  (\A s \in Seeder : ~Running(s)) /\ ~cut /\ last # NoSeeder /\ seeder[last].pc = "ok"
  => {r \in db \ FileRows : r.by \in Seeder} = Seed(last)

(* Behind its clearing a seeder has left no user from before its start,    *)
(* and no row of theirs: an upload that overtakes the clearing of files is *)
(* caught by the cascade.                                                  *)
ClearedCompletely ==
  \A s \in Seeder : seeder[s].pc \in {"seeding", "ok"} =>
    \A r \in db : Row("users", r.by, r.n) \notin before[s]
=============================================================================
