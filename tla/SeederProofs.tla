---------------------------- MODULE SeederProofs ----------------------------
(***************************************************************************)
(* Theorems about Seeder and Files, for every set of seeders, users,       *)
(* uploads and downloads and every list of seeded users.                   *)
(***************************************************************************)
EXTENDS Seeder, TLAPS

Tables == DOMAIN Parents
By == Seeder \union Person
Plain == [table : Tables, by : By, n : Email]
Described == [table : {"files"}, by : By, n : Email, id : Upload]
UserRow == [table : {"users"}, by : By, n : Email]

LEMMA TablesFacts ==
  /\ Tables = {"users", "accounts", "transactions", "wallets", "paymentMethods", "links",
               "beneficiaries", "notifications"}
  /\ Dependents("users") = Tables \union {"files"}
  /\ \A table \in (Tables \union {"files"}) \ {"users"} : "users" \notin Dependents(table)
  <1>1. Tables = {"users", "accounts", "transactions", "wallets", "paymentMethods", "links",
               "beneficiaries", "notifications"}
    BY DEF Tables, Parents
  <1>2. Dependents("users") = Tables \union {"files"}
    BY DEF Dependents, Tables
  <1>3. ASSUME NEW table \in (Tables \union {"files"}) \ {"users"}
        PROVE  "users" \notin Dependents(table)
    BY <1>1, <1>3 DEF Dependents
  <1> QED BY <1>1, <1>2, <1>3

LEMMA OrderFacts ==
  /\ Len(ClearOrder) = 9 /\ ClearOrder[9] = "users"
  /\ \A i \in 1..9 : ClearOrder[i] \in Tables \union {"files"}
  /\ \A i \in 1..8 : ClearOrder[i] # "users"
  /\ Len(SeedOrder) = 8 /\ SeedOrder[1] = "users"
  /\ \A i \in 1..8 : SeedOrder[i] \in Tables
  /\ \A i \in 2..8 : SeedOrder[i] # "users"
  <1>1. Len(ClearOrder) = 9 /\ ClearOrder[9] = "users"
    BY DEF ClearOrder
  <1>2. \A i \in 1..9 : ClearOrder[i] \in Tables \union {"files"}
    BY TablesFacts DEF ClearOrder
  <1>3. \A i \in 1..8 : ClearOrder[i] # "users"
    BY DEF ClearOrder
  <1>4. Len(SeedOrder) = 8 /\ SeedOrder[1] = "users"
    BY DEF SeedOrder
  <1>5. \A i \in 1..8 : SeedOrder[i] \in Tables
    BY TablesFacts DEF SeedOrder
  <1>6. \A i \in 2..8 : SeedOrder[i] # "users"
    BY DEF SeedOrder
  <1> QED BY <1>1, <1>2, <1>3, <1>4, <1>5, <1>6

(* The key a row of the seed must find: its user's, on the way through its *)
(* parents.                                                                *)
LEMMA ParentFacts ==
  \A table \in Tables : table # "users" => Parents[table] # {} /\ Parents[table] \subseteq Tables
  BY TablesFacts DEF Parents

LEMMA SameUser ==
  ASSUME NEW x \in UserRow, NEW y \in UserRow, x.by = y.by, x.n = y.n
  PROVE  x = y
  BY DEF UserRow

-----------------------------------------------------------------------------
SeederPc == {"idle", "clearing", "seeding", "ok", "failed"}
SeederRecord == [pc : SeederPc, at : 0..9, left : SUBSET Number]

Shape ==
  /\ db \subseteq Plain \union Described
  /\ seeder \in [Seeder -> SeederRecord]
  /\ \A s \in Seeder : seeder[s].pc = "clearing" => seeder[s].at \in 1..9
  /\ \A s \in Seeder : seeder[s].pc = "seeding" => seeder[s].at \in 1..8
  /\ joined \subseteq Person
  /\ last \in Seeder \union {NoSeeder} /\ cut \in BOOLEAN
  /\ before \in [Seeder -> SUBSET UserRow]

UpRecord == [pc : {"idle", "writing", "written", "answered", "failed", "lost"},
             user : UserRow \union {NoUser}]
DownPc == {"idle", "missing", "refused", "found", "served", "lost"}
Code == {0, 200, 403, 404}
DownRecord == [pc : DownPc, user : UserRow \union {NoUser}, file : Upload \union {"none"}, status : Code]

(* An upload is on the disk before its row is in the table, and what is    *)
(* found in the table is its owner's.                                      *)
Uploads ==
  /\ up \in [Upload -> UpRecord]
  /\ disk \in [Upload -> {"none", "partial", "whole"}]
  /\ \A u \in Upload : up[u].pc \in {"writing", "written"} => up[u].user \in UserRow
  /\ \A u \in Upload : up[u].pc \in {"written", "answered"} => disk[u] = "whole"
  /\ \A r \in FileRows : up[r.id].pc = "answered" /\ r = FileRow(r.id, up[r.id].user) /\ up[r.id].user \in UserRow

Downloads ==
  /\ down \in [Download -> DownRecord]
  /\ \A d \in Download : down[d].pc \in {"found", "served"} =>
       /\ down[d].file \in Upload /\ up[down[d].file].pc = "answered"
       /\ up[down[d].file].user = down[d].user
  /\ \A d \in Download : down[d].pc = "served" => down[d].status = 200

(* The keys hold, nobody joins twice, no seeder makes a user twice.        *)
Made(t, i) ==
  \/ seeder[t].pc \in {"ok", "failed"}
  \/ seeder[t].pc = "seeding" /\ (seeder[t].at > 1 \/ i \notin seeder[t].left)

Known(r) == r \in db \/ \E s \in Seeder : r \in before[s]

Keys ==
  /\ \A r \in db : Row("users", r.by, r.n) \in db
  /\ \A p \in Person, n \in Email : Known(Row("users", p, n)) => p \in joined
  /\ \A t \in Seeder, n \in Email : Known(Row("users", t, n)) =>
       \E i \in Number : n = SeedUser[i] /\ Made(t, i)
  /\ \A s \in Seeder : seeder[s].pc \in {"seeding", "ok"} => before[s] \intersect db = {}

SeederInv == Shape /\ Uploads /\ Downloads /\ Keys

LEMMA SeederInit == Init => SeederInv
  <1> SUFFICES ASSUME Init PROVE SeederInv
    OBVIOUS
  <1>1. Shape
    <2>1. [pc |-> "idle", at |-> 0, left |-> {}] \in SeederRecord
      BY DEF SeederRecord, SeederPc
    <2>2. seeder \in [Seeder -> SeederRecord]
      BY <2>1 DEF Init
    <2>3. \A s \in Seeder : seeder[s].pc = "idle"
      BY DEF Init
    <2> QED BY <2>2, <2>3 DEF Init, FilesInit, Shape
  <1>2. Uploads
    BY DEF Init, FilesInit, Uploads, UpRecord, FileRows
  <1>3. Downloads
    BY DEF Init, FilesInit, Downloads, DownRecord, DownPc, Code
  <1>4. Keys
    BY DEF Init, FilesInit, Keys, Known
  <1> QED BY <1>1, <1>2, <1>3, <1>4 DEF SeederInv

(* Of the file handlers only Store and Register write to the tables.       *)
LEMMA KeysRest ==
  ASSUME Keys, UNCHANGED <<db, joined, seeder, before>>
  PROVE  Keys'
  BY DEF Keys, Known, Made

LEMMA ReceiveKeeps ==
  ASSUME SeederInv, NEW u \in Upload, Receive(u), UNCHANGED <<seeder, last, cut, before>>
  PROVE  SeederInv'
  <1> USE DEF SeederInv
  <1>1. PICK user \in Users :
          /\ up[u].pc = "idle" /\ up' = [up EXCEPT ![u] = [pc |-> "writing", user |-> user]]
          /\ disk' = [disk EXCEPT ![u] = "partial"] /\ UNCHANGED <<db, joined, down>>
    BY DEF Receive
  <1>2. user \in UserRow
    BY DEF Users, Shape, Plain, Described, UserRow
  <1>3. /\ up' \in [Upload -> UpRecord]
        /\ up'[u].pc = "writing" /\ up'[u].user = user /\ \A v \in Upload \ {u} : up'[v] = up[v]
    BY <1>1, <1>2 DEF Uploads, UpRecord
  <1>4. \A r \in FileRows : r.id \in Upload /\ r.id # u
    BY <1>1, TablesFacts DEF Uploads, FileRows, Shape, Plain, Described
  <1>5. Uploads'
    BY <1>1, <1>2, <1>3, <1>4 DEF Uploads, FileRows
  <1>6. Downloads'
    BY <1>1, <1>3 DEF Downloads
  <1>7. Shape' /\ Keys'
    BY <1>1, KeysRest DEF Shape
  <1> QED BY <1>5, <1>6, <1>7

LEMMA WrittenKeeps ==
  ASSUME SeederInv, NEW u \in Upload, Written(u), UNCHANGED <<seeder, last, cut, before>>
  PROVE  SeederInv'
  <1> USE DEF SeederInv
  <1>1. /\ up[u].pc = "writing" /\ UNCHANGED <<db, joined, down>>
        /\ \/ up' = [up EXCEPT ![u].pc = "written"] /\ disk' = [disk EXCEPT ![u] = "whole"]
           \/ up' = [up EXCEPT ![u].pc = "failed"] /\ disk' = [disk EXCEPT ![u] = "none"]
    BY DEF Written
  <1>2. /\ up' \in [Upload -> UpRecord]
        /\ up'[u].pc \in {"written", "failed"} /\ up'[u].user = up[u].user
        /\ up'[u].pc = "written" => disk'[u] = "whole"
        /\ \A v \in Upload \ {u} : up'[v] = up[v] /\ disk'[v] = disk[v]
        /\ disk' \in [Upload -> {"none", "partial", "whole"}]
    <2>1. CASE up' = [up EXCEPT ![u].pc = "written"] /\ disk' = [disk EXCEPT ![u] = "whole"]
      BY <2>1 DEF Uploads, UpRecord
    <2>2. CASE up' = [up EXCEPT ![u].pc = "failed"] /\ disk' = [disk EXCEPT ![u] = "none"]
      BY <2>2 DEF Uploads, UpRecord
    <2> QED BY <1>1, <2>1, <2>2
  <1>3. \A r \in FileRows : r.id \in Upload /\ r.id # u
    BY <1>1, TablesFacts DEF Uploads, FileRows, Shape, Plain, Described
  <1>4. Uploads'
    BY <1>1, <1>2, <1>3 DEF Uploads, FileRows
  <1>5. Downloads'
    BY <1>1, <1>2 DEF Downloads
  <1>6. Shape' /\ Keys'
    BY <1>1, KeysRest DEF Shape
  <1> QED BY <1>4, <1>5, <1>6

LEMMA CrashKeeps ==
  ASSUME SeederInv, CrashFiles, UNCHANGED <<seeder, last, cut, before>>
  PROVE  SeederInv'
  <1> USE DEF SeederInv
  <1>1. UNCHANGED <<db, joined, disk>>
    BY DEF CrashFiles
  <1>2. /\ up' \in [Upload -> UpRecord]
        /\ \A u \in Upload : up'[u] = up[u] \/ (up'[u].pc = "lost" /\ up[u].pc # "answered")
    BY DEF CrashFiles, Uploads, UpRecord
  <1>3. /\ down' \in [Download -> DownRecord]
        /\ \A d \in Download : down'[d] = down[d] \/ down'[d].pc = "lost"
    BY DEF CrashFiles, Downloads, DownRecord, DownPc, Code
  <1>4. \A r \in FileRows : r.id \in Upload
    BY TablesFacts DEF FileRows, Shape, Plain, Described
  <1>5. Uploads'
    BY <1>1, <1>2, <1>4 DEF Uploads, FileRows
  <1>6. Downloads'
    BY <1>2, <1>3 DEF Downloads, DownRecord, DownPc, Code
  <1>7. Shape' /\ Keys'
    BY <1>1, KeysRest DEF Shape
  <1> QED BY <1>5, <1>6, <1>7

LEMMA FindKeeps ==
  ASSUME SeederInv, NEW d \in Download, Find(d), UNCHANGED <<seeder, last, cut, before>>
  PROVE  SeederInv'
  <1> USE DEF SeederInv
  <1>1. UNCHANGED <<db, joined, disk, up>>
    BY DEF Find
  <1>2. PICK user \in Users, u \in Upload :
          LET found == {r \in FileRows : r.id = u} IN
          /\ down[d].pc = "idle" /\ up[u].pc = "answered"
          /\ down' = [down EXCEPT ![d] =
               IF found = {} THEN [pc |-> "missing", user |-> user, file |-> u, status |-> 404]
               ELSE IF \E r \in found : ~Owns(user, r)
                    THEN [pc |-> "refused", user |-> user, file |-> u, status |-> 403]
                    ELSE [pc |-> "found", user |-> user, file |-> u, status |-> 0]]
    BY DEF Find
  <1>3. user \in UserRow
    BY DEF Users, Shape, Plain, Described, UserRow
  <1>4. /\ \A e \in Download \ {d} : down'[e] = down[e]
        /\ down' \in [Download -> DownRecord]
        /\ down'[d].pc \in {"missing", "refused", "found"} /\ down'[d].file = u /\ down'[d].user = user
        /\ down'[d].pc = "found" => \E r \in FileRows : r.id = u /\ Owns(user, r)
    BY <1>2, <1>3 DEF Downloads, DownRecord, DownPc, Code
  <1>5. ASSUME NEW r \in FileRows, r.id = u, Owns(user, r)
        PROVE  up[u].user = user
    <2>1. r.by = up[u].user.by /\ r.n = up[u].user.n /\ up[u].user \in UserRow
      BY <1>5 DEF Uploads, FileRow
    <2> QED BY <1>3, <1>5, <2>1, SameUser DEF Owns
  <1>6. Downloads'
    BY <1>1, <1>2, <1>4, <1>5 DEF Downloads
  <1>7. Shape' /\ Keys' /\ Uploads'
    BY <1>1, KeysRest DEF Shape, Uploads, FileRows
  <1> QED BY <1>6, <1>7

LEMMA ServeKeeps ==
  ASSUME SeederInv, NEW d \in Download, Serve(d), UNCHANGED <<seeder, last, cut, before>>
  PROVE  SeederInv'
  <1> USE DEF SeederInv
  <1>1. /\ UNCHANGED <<db, joined, disk, up>> /\ down[d].pc = "found"
        /\ down' = [down EXCEPT ![d].pc = "served",
                                ![d].status = IF disk[down[d].file] = "none" THEN 404 ELSE 200]
    BY DEF Serve
  <1>2. down[d].file \in Upload /\ disk[down[d].file] = "whole"
    BY <1>1 DEF Downloads, Uploads
  <1>3. /\ \A e \in Download \ {d} : down'[e] = down[e]
        /\ down'[d] = [down[d] EXCEPT !.pc = "served", !.status = 200]
        /\ down' = [e \in Download |-> down'[e]]
    <2>1. down = [e \in Download |-> down[e]]
      BY DEF Downloads
    <2>2. (IF disk[down[d].file] = "none" THEN 404 ELSE 200) = 200
      BY <1>2
    <2>3. down' = [down EXCEPT ![d].pc = "served", ![d].status = 200]
      BY <1>1, <2>2
    <2> QED BY <2>1, <2>3
  <1>4. /\ down'[d] \in DownRecord
        /\ down'[d].file = down[d].file /\ down'[d].user = down[d].user
        /\ down'[d].status = 200 /\ down'[d].pc = "served"
    <2>1. down[d] \in DownRecord
      BY DEF Downloads
    <2>2. down'[d] = [down[d] EXCEPT !.pc = "served", !.status = 200]
      BY <1>3
    <2>3. "served" \in DownPc /\ 200 \in Code
      BY DEF DownPc, Code
    <2> QED BY <2>1, <2>2, <2>3 DEF DownRecord
  <1>5. Downloads'
    BY <1>1, <1>3, <1>4 DEF Downloads
  <1>6. Shape' /\ Keys' /\ Uploads'
    BY <1>1, KeysRest DEF Shape, Uploads, FileRows
  <1> QED BY <1>5, <1>6

LEMMA StoreKeeps ==
  ASSUME SeederInv, NEW u \in Upload, Store(u), UNCHANGED <<seeder, last, cut, before>>
  PROVE  SeederInv'
  <1> USE DEF SeederInv
  <1>1. up[u].pc = "written" /\ up[u].user \in UserRow /\ UNCHANGED <<joined, disk, down>>
    BY DEF Store, Uploads
  <1>2. /\ up' \in [Upload -> UpRecord]
        /\ up'[u].pc \in {"answered", "failed"} /\ up'[u].user = up[u].user
        /\ \A v \in Upload \ {u} : up'[v] = up[v]
    <2>1. CASE up' = [up EXCEPT ![u].pc = "answered"]
      BY <2>1 DEF Uploads, UpRecord
    <2>2. CASE up' = [up EXCEPT ![u].pc = "failed"]
      BY <2>2 DEF Uploads, UpRecord
    <2> QED BY <2>1, <2>2 DEF Store, Insert
  <1>3. \A r \in FileRows : r.id \in Upload /\ r.id # u
    BY <1>1, TablesFacts DEF Uploads, FileRows, Shape, Plain, Described
  <1>4. Downloads'
    BY <1>1, <1>2 DEF Downloads
  <1>5. CASE up[u].user \in Users /\ db' = db \union {FileRow(u, up[u].user)} /\ up' = [up EXCEPT ![u].pc = "answered"]
    <2> DEFINE row == FileRow(u, up[u].user)
    <2>1. up'[u].pc = "answered"
      BY <1>5 DEF Uploads, UpRecord
    <2>2. row \in Described /\ row.table = "files" /\ row.id = u /\ row.by = up[u].user.by /\ row.n = up[u].user.n
      BY <1>1 DEF FileRow, Described, UserRow
    <2>3. Row("users", row.by, row.n) = up[u].user /\ Row("users", row.by, row.n) \in db
      <3>1. Row("users", row.by, row.n) \in UserRow
        BY <1>1, <2>2 DEF Row, UserRow
      <3>2. Row("users", row.by, row.n) = up[u].user
        BY <1>1, <2>2, <3>1, SameUser DEF Row
      <3> QED BY <1>5, <3>2 DEF Users
    <2>4. FileRows' = FileRows \union {row}
      BY <1>5, <2>2 DEF FileRows
    <2>5. Uploads'
      <3>1. ASSUME NEW r \in FileRows' PROVE /\ up'[r.id].pc = "answered" /\ r = FileRow(r.id, up'[r.id].user)
                                             /\ up'[r.id].user \in UserRow
        <4>1. CASE r = row
          BY <1>1, <1>2, <2>1, <2>2, <4>1
        <4>2. CASE r \in FileRows
          BY <1>2, <1>3, <4>2 DEF Uploads
        <4> QED BY <2>4, <4>1, <4>2
      <3>2. \A v \in Upload : up'[v].pc \in {"written", "answered"} => disk'[v] = "whole"
        BY <1>1, <1>2 DEF Uploads
      <3>3. \A v \in Upload : up'[v].pc \in {"writing", "written"} => up'[v].user \in UserRow
        BY <1>1, <1>2 DEF Uploads
      <3> QED BY <1>1, <1>2, <3>1, <3>2, <3>3 DEF Uploads
    <2>6. \A p, n : Known(Row("users", p, n))' <=> Known(Row("users", p, n))
      BY <1>5, <2>2 DEF Known, Row
    <2>7. \A s \in Seeder : row \notin before[s]
      BY <2>2 DEF Shape, UserRow
    <2>8. Keys'
      BY <1>1, <1>5, <2>3, <2>6, <2>7 DEF Keys, Made
    <2>9. Shape'
      BY <1>1, <1>5, <2>2 DEF Shape
    <2> QED BY <1>4, <2>5, <2>8, <2>9
  <1>6. CASE up' = [up EXCEPT ![u].pc = "failed"] /\ UNCHANGED db
    <2>1. up'[u].pc = "failed"
      BY <1>6 DEF Uploads, UpRecord
    <2>2. Uploads'
      BY <1>1, <1>2, <1>3, <1>6, <2>1 DEF Uploads, FileRows
    <2>3. Shape' /\ Keys'
      BY <1>1, <1>6, KeysRest DEF Shape
    <2> QED BY <1>4, <2>2, <2>3
  <1> QED BY <1>5, <1>6 DEF Store, Insert

LEMMA RegisterKeeps ==
  ASSUME SeederInv, NEW p \in Person, Register(p), UNCHANGED <<seeder, last, cut, before>>
  PROVE  SeederInv'
  <1> USE DEF SeederInv
  <1> DEFINE row == Row("users", p, Address[p])
  <1>1. /\ p \notin joined /\ joined' = joined \union {p} /\ db' = db \union {row}
        /\ UNCHANGED <<disk, up, down>>
    BY DEF Register
  <1>2. row \in Plain /\ row.table = "users" /\ row.by = p /\ row.n = Address[p] /\ Address[p] \in Email
    BY SeederAssumption, TablesFacts DEF Row, Plain, By
  <1>3. FileRows' = FileRows
    BY <1>1, <1>2 DEF FileRows
  <1>4. Uploads' /\ Downloads'
    BY <1>1, <1>3 DEF Uploads, Downloads
  <1>5. Shape'
    BY <1>1, <1>2 DEF Shape
  <1>6. \A q, n : Known(Row("users", q, n))' => Known(Row("users", q, n)) \/ q = p
    BY <1>1, <1>2 DEF Known, Row
  <1>7. \A s \in Seeder : row \notin before[s]
    BY <1>1, <1>2 DEF Keys, Known
  <1>8. Keys'
    <2>1. \A r \in db' : Row("users", r.by, r.n) \in db'
      BY <1>1, <1>2 DEF Keys
    <2>2. p \notin Seeder
      BY SeederAssumption
    <2> QED BY <1>1, <1>6, <1>7, <2>1, <2>2 DEF Keys, Made
  <1> QED BY <1>4, <1>5, <1>8

(* The scripts' own steps leave the handlers of files alone.               *)
LEMMA FilesRest ==
  ASSUME Uploads, Downloads, UNCHANGED fileVars, FileRows' \subseteq FileRows
  PROVE  Uploads' /\ Downloads'
  BY DEF Uploads, Downloads, fileVars

LEMMA StartKeeps ==
  ASSUME SeederInv, NEW s \in Seeder, Start(s)
  PROVE  SeederInv'
  <1> USE DEF SeederInv
  <1>1. /\ seeder[s].pc = "idle" /\ seeder' = [seeder EXCEPT ![s] = [pc |-> "clearing", at |-> 1, left |-> {}]]
        /\ before' = [before EXCEPT ![s] = Users]
        /\ cut' \in BOOLEAN
        /\ UNCHANGED <<db, fileVars, last>>
    BY DEF Start, Shape
  <1>2. [pc |-> "clearing", at |-> 1, left |-> {}] \in SeederRecord
    BY DEF SeederRecord, SeederPc
  <1>3. /\ seeder' \in [Seeder -> SeederRecord]
        /\ seeder'[s] = [pc |-> "clearing", at |-> 1, left |-> {}]
        /\ \A t \in Seeder \ {s} : seeder'[t] = seeder[t]
    BY <1>1, <1>2 DEF Shape
  <1>4. Users \subseteq UserRow /\ Users \subseteq db
    BY DEF Users, Shape, Plain, Described, UserRow
  <1>5. /\ before' \in [Seeder -> SUBSET UserRow] /\ before'[s] = Users
        /\ \A t \in Seeder \ {s} : before'[t] = before[t]
    BY <1>1, <1>4 DEF Shape
  <1>6. Shape'
    BY <1>1, <1>3, <1>5 DEF Shape, fileVars
  <1>7. \A r : Known(r)' => Known(r)
    BY <1>1, <1>4, <1>5 DEF Known
  <1>8. \A t \in Seeder, i \in Number : Made(t, i) => Made(t, i)'
    BY <1>1, <1>3 DEF Made
  <1>9. Keys'
    BY <1>1, <1>3, <1>5, <1>7, <1>8 DEF Keys, fileVars
  <1>10. Uploads' /\ Downloads'
    BY <1>1, FilesRest DEF FileRows
  <1> QED BY <1>6, <1>9, <1>10

LEMMA ExitKeeps ==
  ASSUME SeederInv, NEW s \in Seeder, Exit(s)
  PROVE  SeederInv'
  <1> USE DEF SeederInv
  <1>1. /\ Running(s) /\ seeder' = [seeder EXCEPT ![s].pc = "failed", ![s].left = {}]
        /\ last' = s /\ cut' \in BOOLEAN /\ UNCHANGED <<db, fileVars, before>>
    BY DEF Exit, Shape
  <1>2. /\ seeder' \in [Seeder -> SeederRecord] /\ seeder'[s].pc = "failed"
        /\ \A t \in Seeder \ {s} : seeder'[t] = seeder[t]
    <2>1. seeder[s] \in SeederRecord /\ "failed" \in SeederPc
      BY DEF Shape, SeederPc
    <2>2. /\ seeder'[s] = [seeder[s] EXCEPT !.pc = "failed", !.left = {}]
          /\ \A t \in Seeder \ {s} : seeder'[t] = seeder[t]
          /\ seeder' = [t \in Seeder |-> seeder'[t]]
      BY <1>1 DEF Shape
    <2>3. seeder'[s] \in SeederRecord /\ seeder'[s].pc = "failed"
      BY <2>1, <2>2 DEF SeederRecord
    <2> QED BY <2>2, <2>3 DEF Shape
  <1>3. Shape'
    BY <1>1, <1>2 DEF Shape, fileVars
  <1>4. \A t \in Seeder, i \in Number : Made(t, i) => Made(t, i)'
    BY <1>1, <1>2 DEF Made
  <1>5. Keys'
    BY <1>1, <1>2, <1>4 DEF Keys, Known, fileVars
  <1>6. Uploads' /\ Downloads'
    BY <1>1, FilesRest DEF FileRows
  <1> QED BY <1>3, <1>5, <1>6

(* Only the clearing of users touches them, and by cascade it clears all.  *)
LEMMA ClearKeeps ==
  ASSUME SeederInv, NEW s \in Seeder, Clear(s)
  PROVE  SeederInv'
  <1> USE DEF SeederInv
  <1> DEFINE table == ClearOrder[seeder[s].at]
             next == IF seeder[s].at < Len(ClearOrder) THEN [seeder[s] EXCEPT !.at = seeder[s].at + 1]
                     ELSE [pc |-> "seeding", at |-> 1, left |-> Number]
  <1>1. /\ seeder[s].pc = "clearing" /\ seeder[s].at \in 1..9
        /\ db' = {r \in db : r.table \notin Dependents(table)}
        /\ seeder' = [seeder EXCEPT ![s] = next]
        /\ UNCHANGED <<fileVars, last, cut, before>>
    <2>1. seeder' = [seeder EXCEPT ![s] = next]
      BY Zenon DEF Clear
    <2> HIDE DEF next
    <2> QED BY <2>1 DEF Clear, Shape
  <1>2. /\ next \in SeederRecord
        /\ seeder[s].at < 9 => next.pc = "clearing" /\ next.at \in 1..9
        /\ seeder[s].at = 9 => next.pc = "seeding" /\ next.at = 1
    <2>1. seeder[s] \in SeederRecord /\ Len(ClearOrder) = 9
      BY OrderFacts DEF Shape
    <2>2. CASE seeder[s].at < 9
      BY <1>1, <2>1, <2>2 DEF SeederRecord
    <2>3. CASE seeder[s].at = 9
      <3>1. next = [pc |-> "seeding", at |-> 1, left |-> Number]
        BY <2>1, <2>3
      <3> QED BY <2>3, <3>1 DEF SeederRecord, SeederPc
    <2> QED BY <1>1, <2>2, <2>3
  <1>3. /\ seeder' \in [Seeder -> SeederRecord] /\ seeder'[s] = next
        /\ \A t \in Seeder \ {s} : seeder'[t] = seeder[t]
    BY <1>1, <1>2 DEF Shape
  <1>4. Shape'
    BY <1>1, <1>2, <1>3 DEF Shape, fileVars
  <1>5. \A t \in Seeder, i \in Number : Made(t, i) => Made(t, i)'
    BY <1>1, <1>3 DEF Made
  <1>6. \A r : Known(r)' => Known(r)
    BY <1>1 DEF Known
  <1> HIDE DEF next, table
  <1>7. \A p \in Person, n \in Email : Known(Row("users", p, n))' => p \in joined'
    BY <1>1, <1>6 DEF Keys, fileVars
  <1>8. \A t \in Seeder, n \in Email : Known(Row("users", t, n))' => \E i \in Number : n = SeedUser[i] /\ Made(t, i)'
    BY <1>5, <1>6 DEF Keys
  <1>9. ASSUME seeder[s].at = 9 PROVE Keys'
    <2>1. table = "users"
      BY <1>9, OrderFacts DEF table
    <2>2. \A r \in db : r.table \in Tables \union {"files"}
      BY DEF Shape, Plain, Described
    <2>3. db' = {}
      BY <1>1, <2>1, <2>2, TablesFacts
    <2> QED BY <1>7, <1>8, <2>3 DEF Keys
  <1>10. ASSUME seeder[s].at < 9 PROVE Keys'
    <2>1. "users" \notin Dependents(table)
      BY <1>1, <1>10, OrderFacts, TablesFacts DEF table
    <2>2. \A r \in db' : Row("users", r.by, r.n) \in db'
      BY <1>1, <2>1 DEF Keys, Row
    <2>3. seeder'[s].pc = "clearing"
      BY <1>2, <1>3, <1>10
    <2>4. \A t \in Seeder : seeder'[t].pc \in {"seeding", "ok"} => before'[t] \intersect db' = {}
      BY <1>1, <1>3, <2>3 DEF Keys
    <2> QED BY <1>7, <1>8, <2>2, <2>4 DEF Keys
  <1>11. Keys'
    BY <1>1, <1>9, <1>10
  <1>12. Uploads' /\ Downloads'
    BY <1>1, FilesRest DEF FileRows
  <1> QED BY <1>4, <1>11, <1>12

LEMMA CreateKeeps ==
  ASSUME SeederInv, NEW s \in Seeder, NEW i \in Number, Create(s, i)
  PROVE  SeederInv'
  <1> USE DEF SeederInv
  <1> DEFINE table == SeedOrder[seeder[s].at]
             row == SeedRow(s, table, i)
             rest == seeder[s].left \ {i}
             next == IF rest # {} THEN [seeder[s] EXCEPT !.left = rest]
                     ELSE IF seeder[s].at < Len(SeedOrder) THEN [seeder[s] EXCEPT !.at = seeder[s].at + 1, !.left = Number]
                     ELSE [seeder[s] EXCEPT !.pc = "ok", !.left = {}]
  <1>1. /\ seeder[s].pc = "seeding" /\ seeder[s].at \in 1..8 /\ i \in seeder[s].left
        /\ seeder' = [seeder EXCEPT ![s] = next]
        /\ last' = IF seeder'[s].pc = "ok" THEN s ELSE last
        /\ Accepts(row) /\ db' = db \union {row}
        /\ UNCHANGED <<fileVars, cut, before>>
    <2>1. seeder' = [seeder EXCEPT ![s] = next]
      BY Zenon DEF Create, Advance
    <2> HIDE DEF next
    <2> QED BY <2>1 DEF Create, Advance, Shape
  <1>2. /\ next \in SeederRecord /\ next.pc \in {"seeding", "ok"}
        /\ next.pc = "seeding" => next.at \in 1..8
        /\ next.pc = "seeding" => next.at > 1 \/ (next.at = seeder[s].at /\ next.left = rest)
        /\ next.pc = "seeding" => next.at >= seeder[s].at
    <2>1. /\ seeder[s] \in SeederRecord /\ Len(SeedOrder) = 8 /\ "ok" \in SeederPc
          /\ rest \in SUBSET Number /\ seeder[s].at \in 0..9
      BY OrderFacts DEF Shape, SeederRecord, SeederPc
    <2>2. CASE rest # {}
      <3>1. next = [seeder[s] EXCEPT !.left = rest]
        BY <2>2
      <3> HIDE DEF next, rest
      <3> QED BY <1>1, <2>1, <3>1 DEF SeederRecord
    <2>3. CASE rest = {} /\ seeder[s].at < 8
      <3>1. next = [seeder[s] EXCEPT !.at = seeder[s].at + 1, !.left = Number]
        BY <2>1, <2>3
      <3>2. seeder[s].at + 1 \in 2..8 /\ 2..8 \subseteq 0..9 /\ seeder[s].at + 1 >= seeder[s].at
        BY <1>1, <2>3
      <3>3. Number \in SUBSET Number
        OBVIOUS
      <3> HIDE DEF next, rest
      <3>4. next \in SeederRecord /\ next.at = seeder[s].at + 1 /\ next.pc = seeder[s].pc
        BY <2>1, <3>1, <3>2, <3>3 DEF SeederRecord
      <3> QED BY <1>1, <3>2, <3>4
    <2>4. CASE rest = {} /\ ~(seeder[s].at < 8)
      <3>1. next = [seeder[s] EXCEPT !.pc = "ok", !.left = {}]
        BY <2>1, <2>4
      <3> HIDE DEF next, rest
      <3> QED BY <1>1, <2>1, <2>4, <3>1 DEF SeederRecord
    <2> QED BY <2>2, <2>3, <2>4
  <1>3. /\ seeder' \in [Seeder -> SeederRecord] /\ seeder'[s] = next
        /\ \A t \in Seeder \ {s} : seeder'[t] = seeder[t]
    BY <1>1, <1>2 DEF Shape
  <1> HIDE DEF next
  <1>4. /\ row \in Plain /\ row.table = table /\ row.by = s /\ row.n = SeedUser[i]
        /\ table \in Tables
    BY <1>1, OrderFacts, SeederAssumption DEF SeedRow, Row, Plain, By, Number
  <1>5. Shape'
    <2>1. last' \in Seeder \union {NoSeeder}
      BY <1>1 DEF Shape
    <2> QED BY <1>1, <1>2, <1>3, <1>4, <2>1 DEF Shape, fileVars
  <1>6. \A t \in Seeder, j \in Number : Made(t, j) => Made(t, j)'
    BY <1>1, <1>2, <1>3 DEF Made
  <1>7. table = "users" => Made(s, i)'
    <2>1. table = "users" => seeder[s].at = 1
      BY <1>1, OrderFacts
    <2> QED BY <1>1, <1>2, <1>3, <2>1 DEF Made
  <1>8. table = "users" => ~Made(s, i)
    BY <1>1, OrderFacts DEF Made
  <1>9. \A t \in Seeder : row \notin before[t]
    <2>1. CASE table = "users"
      <3>1. row = Row("users", s, SeedUser[i]) /\ SeedUser[i] \in Email
        BY <2>1, SeederAssumption DEF SeedRow, Number
      <3>2. \A j \in Number : SeedUser[i] = SeedUser[j] => i = j
        BY SeederAssumption DEF Number
      <3>3. ~Known(row)
        BY <1>8, <2>1, <3>1, <3>2 DEF Keys
      <3> QED BY <3>3 DEF Known
    <2>2. CASE table # "users"
      BY <1>4, <2>2 DEF Shape, UserRow
    <2> QED BY <2>1, <2>2
  <1>10. \A r \in db' : Row("users", r.by, r.n) \in db'
    <2>1. Row("users", row.by, row.n) \in db'
      <3>1. CASE table = "users"
        BY <1>1, <1>4, <3>1 DEF SeedRow
      <3>2. CASE table # "users"
        <4>1. PICK parent \in Parents[table] : Row(parent, row.by, row.n) \in db
          BY <1>1, <1>4, <3>2, ParentFacts DEF Accepts
        <4>2. Row(parent, row.by, row.n).by = row.by /\ Row(parent, row.by, row.n).n = row.n
          BY DEF Row
        <4>3. Row("users", row.by, row.n) \in db
          BY <4>1, <4>2 DEF Keys
        <4> QED BY <1>1, <4>3
      <3> QED BY <3>1, <3>2
    <2> QED BY <1>1, <2>1 DEF Keys
  <1>11. \A q, n : Known(Row("users", q, n))' => Known(Row("users", q, n)) \/ (table = "users" /\ q = s /\ n = SeedUser[i])
    BY <1>1, <1>4 DEF Known, Row
  <1>12. \A p \in Person, n \in Email : Known(Row("users", p, n))' => p \in joined'
    BY <1>1, <1>11, SeederAssumption DEF Keys, fileVars
  <1>13. \A t \in Seeder, n \in Email : Known(Row("users", t, n))' => \E j \in Number : n = SeedUser[j] /\ Made(t, j)'
    BY <1>6, <1>7, <1>11 DEF Keys
  <1>14. \A t \in Seeder : seeder'[t].pc \in {"seeding", "ok"} => before'[t] \intersect db' = {}
    BY <1>1, <1>3, <1>9 DEF Keys
  <1>15. Keys'
    BY <1>10, <1>12, <1>13, <1>14 DEF Keys
  <1>16. "files" \notin Tables
    BY TablesFacts
  <1>17. Uploads' /\ Downloads'
    BY <1>1, <1>4, <1>16, FilesRest DEF FileRows
  <1> QED BY <1>5, <1>15, <1>17

LEMMA SeederStep == SeederInv /\ [Next]_vars => SeederInv'
  <1> SUFFICES ASSUME SeederInv, [Next]_vars PROVE SeederInv'
    OBVIOUS
  <1>1. ASSUME NEW s \in Seeder, Start(s) PROVE SeederInv'
    BY <1>1, StartKeeps
  <1>2. ASSUME NEW s \in Seeder, Clear(s) PROVE SeederInv'
    BY <1>2, ClearKeeps
  <1>3. ASSUME NEW s \in Seeder, NEW i \in Number, Create(s, i) PROVE SeederInv'
    BY <1>3, CreateKeeps
  <1>4. ASSUME NEW s \in Seeder, Exit(s) PROVE SeederInv'
    BY <1>4, ExitKeeps
  <1>5. CASE FilesNext /\ UNCHANGED <<seeder, last, cut, before>>
    BY <1>5, ReceiveKeeps, WrittenKeeps, StoreKeeps, FindKeeps, ServeKeeps, CrashKeeps, RegisterKeeps
       DEF FilesNext
  <1>6. CASE UNCHANGED vars
    BY <1>6 DEF vars, fileVars, SeederInv, Shape, Uploads, Downloads, FileRows, Keys, Known, Made
  <1> QED BY <1>1, <1>2, <1>3, <1>4, <1>5, <1>6 DEF Next

LEMMA SeederInvariant == Spec => []SeederInv
  BY SeederInit, SeederStep, PTL DEF Spec

(* Rows, seeders and handlers of files are well formed; a row of files has *)
(* its file on the disk.                                                   *)
THEOREM SeederTypes == Spec => []TypeOK
  <1>1. SeederInv => TypeOK
    <2> SUFFICES ASSUME SeederInv PROVE TypeOK
      OBVIOUS
    <2> USE DEF SeederInv
    <2>1. \A r \in FileRows : r.id \in Upload /\ disk[r.id] # "none"
      BY TablesFacts DEF FileRows, Shape, Plain, Described, Uploads
    <2>2. FilesTypeOK
      BY <2>1 DEF FilesTypeOK, Uploads, UpRecord, Downloads, DownRecord, DownPc
    <2>3. \A s \in Seeder : seeder[s].left \subseteq Number /\ seeder[s].at \in 0..Len(ClearOrder)
      BY OrderFacts DEF Shape, SeederRecord
    <2>4. \A r \in db : r.by \in Seeder \union Person /\ r.n \in Email
      BY DEF Shape, Plain, Described, By
    <2> QED BY <2>2, <2>3, <2>4 DEF TypeOK, Shape
  <1> QED BY <1>1, SeederInvariant, PTL

(* However uploads, registrations and other seeders interleave with it, a  *)
(* seeder leaves nothing of the users it found.                            *)
THEOREM ClearingIsComplete == Spec => []ClearedCompletely
  <1>1. SeederInv => ClearedCompletely
    BY DEF SeederInv, Keys, ClearedCompletely
  <1> QED BY <1>1, SeederInvariant, PTL

(* A download is the owner's, and whole.                                   *)
THEOREM DownloadsAreServed == Spec => []DownloadsServe
  <1>1. SeederInv => DownloadsServe
    BY DEF SeederInv, Uploads, Downloads, DownloadsServe
  <1> QED BY <1>1, SeederInvariant, PTL

-----------------------------------------------------------------------------
(* What a seeder has created so far is in the database; or a clearing has  *)
(* taken its users, and the first of its rows that needs one of them is    *)
(* refused; or somebody is still clearing, and will take them.             *)
Did(s, k, i) ==
  \/ seeder[s].pc = "ok"
  \/ seeder[s].pc = "seeding" /\ (seeder[s].at > k \/ (seeder[s].at = k /\ i \notin seeder[s].left))
Intact(s) == \A k \in 1..8, i \in Number : Did(s, k, i) => SeedRow(s, SeedOrder[k], i) \in db
Doomed(s) ==
  /\ seeder[s].pc = "seeding"
  /\ \E i \in Number : /\ SeedRow(s, "users", i) \notin db
                       /\ seeder[s].at = 1 <=> i \notin seeder[s].left
SomebodyClears == \E t \in Seeder : seeder[t].pc = "clearing"

OneOfAnAddress == \A x, y \in Users : x.n = y.n => x = y
Overlap(s) ==
  /\ seeder[s].pc = "seeding" /\ seeder[s].at > 1 => seeder[s].left # {}
  /\ seeder[s].pc = "seeding" => cut \/ SomebodyClears \/ Intact(s) \/ Doomed(s)
  /\ seeder[s].pc = "ok" => cut \/ last # s \/ (\E t \in Seeder : Running(t)) \/ Intact(s)
OverlapInv == OneOfAnAddress /\ \A s \in Seeder : Overlap(s)

LEMMA SeedOrderCovers == \A table \in Tables : \E k \in 1..8 : SeedOrder[k] = table
  <1>1. /\ SeedOrder[1] = "users" /\ SeedOrder[2] = "accounts" /\ SeedOrder[3] = "transactions"
        /\ SeedOrder[4] = "wallets" /\ SeedOrder[5] = "paymentMethods" /\ SeedOrder[6] = "links"
        /\ SeedOrder[7] = "beneficiaries" /\ SeedOrder[8] = "notifications"
    BY DEF SeedOrder
  <1>2. /\ 1 \in 1..8 /\ 2 \in 1..8 /\ 3 \in 1..8 /\ 4 \in 1..8
        /\ 5 \in 1..8 /\ 6 \in 1..8 /\ 7 \in 1..8 /\ 8 \in 1..8
    OBVIOUS
  <1> QED BY <1>1, <1>2, TablesFacts

(* A step of the API adds no row of a seeder's.                            *)
LEMMA OverlapRest ==
  ASSUME OverlapInv, UNCHANGED <<seeder, last, cut>>, db \subseteq db', OneOfAnAddress',
         \A r \in db' \ db : r.by \notin Seeder \/ r.table # "users"
  PROVE  OverlapInv'
  <1> SUFFICES ASSUME NEW s \in Seeder PROVE Overlap(s)'
    BY DEF OverlapInv
  <1>1. \A i : SeedRow(s, "users", i).by = s /\ SeedRow(s, "users", i).table = "users"
    BY DEF SeedRow, Row
  <1>2. \A k, i : Did(s, k, i)' <=> Did(s, k, i)
    BY DEF Did
  <1>3. Intact(s) => Intact(s)'
    BY <1>2 DEF Intact, SeedRow, Row
  <1>4. Doomed(s) => Doomed(s)'
    BY <1>1 DEF Doomed, SeedRow, Row
  <1> QED BY <1>3, <1>4 DEF OverlapInv, Overlap, SomebodyClears, Running

LEMMA FilesOverlap ==
  ASSUME SeederInv, OverlapInv, FilesNext, UNCHANGED <<seeder, last, cut, before>>
  PROVE  OverlapInv'
  <1>1. CASE UNCHANGED db
    BY <1>1, OverlapRest DEF OverlapInv, OneOfAnAddress, Users
  <1>2. ASSUME NEW u \in Upload, Store(u) PROVE OverlapInv'
    <2>1. CASE db' = db \union {FileRow(u, up[u].user)}
      <3>1. FileRow(u, up[u].user).table = "files"
        BY DEF FileRow
      <3>2. Users' = Users
        BY <2>1, <3>1 DEF Users
      <3> QED BY <2>1, <3>1, <3>2, OverlapRest DEF OverlapInv, OneOfAnAddress
    <2> QED BY <1>1, <1>2, <2>1 DEF Store, Insert
  <1>3. ASSUME NEW p \in Person, Register(p) PROVE OverlapInv'
    <2> DEFINE row == Row("users", p, Address[p])
    <2>1. db' = db \union {row} /\ \A user \in Users : user.n # Address[p]
      BY <1>3 DEF Register
    <2>2. row.table = "users" /\ row.by = p /\ row.n = Address[p] /\ p \notin Seeder
      BY SeederAssumption DEF Row
    <2>3. Users' = Users \union {row}
      BY <2>1, <2>2 DEF Users
    <2> HIDE DEF row
    <2>4. OneOfAnAddress'
      BY <2>1, <2>2, <2>3 DEF OverlapInv, OneOfAnAddress
    <2> QED BY <2>1, <2>2, <2>4, OverlapRest
  <1> QED BY <1>1, <1>2, <1>3 DEF FilesNext, Receive, Written, Find, Serve, CrashFiles

LEMMA StartOverlaps ==
  ASSUME SeederInv, OverlapInv, NEW s \in Seeder, Start(s)
  PROVE  OverlapInv'
  <1>1. /\ seeder[s].pc = "idle" /\ db' = db /\ last' = last
        /\ seeder'[s].pc = "clearing"
        /\ \A t \in Seeder \ {s} : seeder'[t] = seeder[t]
    BY DEF Start, SeederInv, Shape
  <1>2. SomebodyClears' /\ \E t \in Seeder : Running(t)'
    BY <1>1 DEF SomebodyClears, Running
  <1> QED BY <1>1, <1>2 DEF OverlapInv, Overlap, OneOfAnAddress, Users

(* A seeder that stops while clearing leaves the mark, one that stops      *)
(* later is no longer clearing.                                            *)
LEMMA ExitOverlaps ==
  ASSUME SeederInv, OverlapInv, NEW s \in Seeder, Exit(s)
  PROVE  OverlapInv'
  <1>1. /\ Running(s) /\ db' = db /\ last' = s
        /\ seeder'[s].pc = "failed"
        /\ \A t \in Seeder \ {s} : seeder'[t] = seeder[t]
        /\ cut' = (cut \/ seeder[s].pc = "clearing")
    BY DEF Exit, SeederInv, Shape, SeederRecord
  <1> SUFFICES ASSUME NEW t \in Seeder PROVE Overlap(t)'
    BY <1>1 DEF OverlapInv, OneOfAnAddress, Users
  <1>2. CASE t = s
    BY <1>1, <1>2 DEF Overlap
  <1>3. CASE t # s
    <2>1. seeder'[t] = seeder[t]
      BY <1>1, <1>3
    <2>2. (Intact(t) => Intact(t)') /\ (Doomed(t) => Doomed(t)')
      BY <1>1, <2>1 DEF Intact, Did, Doomed, SeedRow, Row
    <2>3. SomebodyClears => cut' \/ SomebodyClears'
      BY <1>1 DEF SomebodyClears
    <2> QED BY <1>1, <1>3, <2>1, <2>2, <2>3 DEF OverlapInv, Overlap
  <1> QED BY <1>2, <1>3

(* The clearing of users ends a clearing, and leaves every other seeder    *)
(* doomed, or not begun, or followed by one that runs.                     *)
LEMMA ClearOverlaps ==
  ASSUME SeederInv, OverlapInv, NEW s \in Seeder, Clear(s)
  PROVE  OverlapInv'
  <1> DEFINE table == ClearOrder[seeder[s].at]
             next == IF seeder[s].at < Len(ClearOrder) THEN [seeder[s] EXCEPT !.at = seeder[s].at + 1]
                     ELSE [pc |-> "seeding", at |-> 1, left |-> Number]
  <1>1. /\ seeder[s].pc = "clearing" /\ seeder[s].at \in 1..9 /\ seeder[s] \in SeederRecord
        /\ db' = {r \in db : r.table \notin Dependents(table)}
        /\ seeder'[s] = next
        /\ \A t \in Seeder \ {s} : seeder'[t] = seeder[t]
        /\ UNCHANGED <<last, cut>>
    <2>1. seeder' = [seeder EXCEPT ![s] = next]
      BY Zenon DEF Clear
    <2> HIDE DEF next
    <2> QED BY <2>1 DEF Clear, SeederInv, Shape
  <1>2. /\ seeder[s].at < 9 => next.pc = "clearing"
        /\ seeder[s].at = 9 => next.pc = "seeding" /\ next.at = 1 /\ next.left = Number
    BY <1>1, OrderFacts DEF SeederRecord
  <1> HIDE DEF next
  <1>3. OneOfAnAddress'
    BY <1>1 DEF OverlapInv, OneOfAnAddress, Users
  <1>4. Running(s)'
    BY <1>1, <1>2 DEF Running
  <1>5. ASSUME NEW t \in Seeder, seeder'[t].pc = "seeding", seeder'[t].at > 1
        PROVE  seeder'[t].left # {}
    BY <1>1, <1>2, <1>5 DEF OverlapInv, Overlap
  <1>6. CASE seeder[s].at < 9
    <2>1. SomebodyClears'
      BY <1>1, <1>2, <1>6 DEF SomebodyClears
    <2> QED BY <1>3, <1>4, <1>5, <2>1 DEF OverlapInv, Overlap
  <1>7. CASE seeder[s].at = 9
    <2>1. db' = {}
      <3>1. \A r \in db : r.table \in Tables \union {"files"}
        BY DEF SeederInv, Shape, Plain, Described
      <3> QED BY <1>1, <1>7, <3>1, OrderFacts, TablesFacts
    <2> SUFFICES ASSUME NEW t \in Seeder, seeder'[t].pc = "seeding"
                 PROVE  Intact(t)' \/ Doomed(t)'
      BY <1>3, <1>4, <1>5 DEF OverlapInv, Overlap
    <2>2. seeder'[t] \in SeederRecord /\ seeder'[t].at \in 1..8 /\ seeder'[t].left \subseteq Number
      BY SeederStep DEF SeederInv, Shape, SeederRecord, Next
    <2>3. CASE seeder'[t].at > 1
      <3>1. PICK i \in Number : i \in seeder'[t].left
        BY <1>5, <2>2, <2>3
      <3> QED BY <2>1, <2>3, <3>1 DEF Doomed
    <2>4. CASE seeder'[t].at = 1 /\ seeder'[t].left = Number
      BY <2>4 DEF Intact, Did
    <2>5. CASE seeder'[t].at = 1 /\ seeder'[t].left # Number
      <3>1. PICK i \in Number : i \notin seeder'[t].left
        BY <2>2, <2>5
      <3> QED BY <2>1, <2>5, <3>1 DEF Doomed
    <2> QED BY <2>2, <2>3, <2>4, <2>5
  <1> QED BY <1>1, <1>6, <1>7

(* A row needs its user, whom nobody makes again: a doomed seeder stays    *)
(* where it is, or among its users.                                        *)
LEMMA CreateOverlaps ==
  ASSUME SeederInv, OverlapInv, NEW s \in Seeder, NEW i \in Number, Create(s, i)
  PROVE  OverlapInv'
  <1> DEFINE table == SeedOrder[seeder[s].at]
             row == SeedRow(s, table, i)
             rest == seeder[s].left \ {i}
             next == IF rest # {} THEN [seeder[s] EXCEPT !.left = rest]
                     ELSE IF seeder[s].at < Len(SeedOrder) THEN [seeder[s] EXCEPT !.at = seeder[s].at + 1, !.left = Number]
                     ELSE [seeder[s] EXCEPT !.pc = "ok", !.left = {}]
  <1>1. /\ seeder[s].pc = "seeding" /\ seeder[s].at \in 1..8 /\ i \in seeder[s].left
        /\ seeder[s] \in SeederRecord
        /\ seeder'[s] = next /\ \A t \in Seeder \ {s} : seeder'[t] = seeder[t]
        /\ last' = IF seeder'[s].pc = "ok" THEN s ELSE last
        /\ Accepts(row) /\ db' = db \union {row} /\ cut' = cut
    <2>1. seeder' = [seeder EXCEPT ![s] = next]
      BY Zenon DEF Create, Advance
    <2> HIDE DEF next
    <2> QED BY <2>1 DEF Create, Advance, SeederInv, Shape
  <1>2. /\ rest # {} => next.pc = "seeding" /\ next.at = seeder[s].at /\ next.left = rest
        /\ rest = {} /\ seeder[s].at < 8 =>
             next.pc = "seeding" /\ next.at = seeder[s].at + 1 /\ next.left = Number
        /\ rest = {} /\ seeder[s].at = 8 => next.pc = "ok"
    <2>1. Len(SeedOrder) = 8
      BY OrderFacts
    <2>2. ASSUME rest # {} PROVE next.pc = "seeding" /\ next.at = seeder[s].at /\ next.left = rest
      <3>1. next = [seeder[s] EXCEPT !.left = rest]
        BY <2>2
      <3> HIDE DEF next, rest
      <3> QED BY <1>1, <3>1 DEF SeederRecord
    <2>3. ASSUME rest = {}, seeder[s].at < 8
          PROVE  next.pc = "seeding" /\ next.at = seeder[s].at + 1 /\ next.left = Number
      <3>1. next = [seeder[s] EXCEPT !.at = seeder[s].at + 1, !.left = Number]
        BY <2>1, <2>3
      <3> HIDE DEF next, rest
      <3> QED BY <1>1, <3>1 DEF SeederRecord
    <2>4. ASSUME rest = {}, seeder[s].at = 8 PROVE next.pc = "ok"
      <3>1. next = [seeder[s] EXCEPT !.pc = "ok", !.left = {}]
        BY <2>1, <2>4
      <3> HIDE DEF next, rest
      <3> QED BY <1>1, <3>1 DEF SeederRecord
    <2> QED BY <2>2, <2>3, <2>4
  <1> HIDE DEF next
  <1>3. /\ row.table = table /\ row.by = s /\ row.n = SeedUser[i] /\ table \in Tables
        /\ seeder[s].at = 1 <=> table = "users"
    BY <1>1, OrderFacts DEF SeedRow, Row
  <1>4. OneOfAnAddress'
    <2>1. CASE table = "users"
      <3>1. Users' = Users \union {row}
        BY <1>1, <1>3, <2>1 DEF Users
      <3>2. \A user \in Users : user.n # row.n
        BY <1>1, <1>3, <2>1 DEF Accepts
      <3> QED BY <3>1, <3>2 DEF OverlapInv, OneOfAnAddress
    <2>2. CASE table # "users"
      <3>1. Users' = Users
        BY <1>1, <1>3, <2>2 DEF Users
      <3> QED BY <3>1 DEF OverlapInv, OneOfAnAddress
    <2> QED BY <2>1, <2>2
  <1>5. SeedRow(s, "users", i) \in db'
    <2>1. CASE table = "users"
      BY <1>1, <2>1
    <2>2. CASE table # "users"
      <3>1. PICK parent \in Parents[table] : Row(parent, row.by, row.n) \in db
        BY <1>1, <1>3, <2>2, ParentFacts DEF Accepts
      <3>2. Row(parent, row.by, row.n).by = s /\ Row(parent, row.by, row.n).n = SeedUser[i]
        BY <1>3 DEF Row
      <3>3. Row("users", s, SeedUser[i]) \in db
        BY <3>1, <3>2 DEF SeederInv, Keys
      <3> QED BY <1>1, <3>3 DEF SeedRow
    <2> QED BY <2>1, <2>2
  <1>6. ASSUME NEW t \in Seeder, t # s PROVE Overlap(t)'
    <2>1. seeder'[t] = seeder[t]
      BY <1>1, <1>6
    <2>2. Intact(t) => Intact(t)'
      BY <1>1, <2>1 DEF Intact, Did, SeedRow, Row
    <2>3. Doomed(t) => Doomed(t)'
      <3>1. \A j : SeedRow(t, "users", j).by # row.by
        BY <1>3, <1>6 DEF SeedRow, Row
      <3>2. \A j : SeedRow(t, "users", j) \notin db => SeedRow(t, "users", j)' \notin db'
        BY <1>1, <3>1 DEF SeedRow, Row
      <3> QED BY <2>1, <3>2 DEF Doomed
    <2>4. SomebodyClears => SomebodyClears'
      BY <1>1 DEF SomebodyClears
    <2>5. (\E u \in Seeder : Running(u)) => (\E u \in Seeder : Running(u)') \/ last' # t
      <3>1. Running(s)' \/ last' = s
        <4>1. seeder'[s].pc \in {"seeding", "ok"}
          BY <1>1, <1>2
        <4> QED BY <1>1, <4>1 DEF Running
      <3> QED BY <1>1, <1>6, <3>1 DEF Running
    <2>6. last # t => last' # t
      BY <1>1, <1>6
    <2> QED BY <1>1, <2>1, <2>2, <2>3, <2>4, <2>5, <2>6 DEF OverlapInv, Overlap
  <1>7. SomebodyClears => SomebodyClears' /\ \E t \in Seeder : Running(t)'
    BY <1>1 DEF SomebodyClears, Running
  <1>8. Intact(s) => Intact(s)'
    <2> SUFFICES ASSUME Intact(s), NEW k \in 1..8, NEW j \in Number, Did(s, k, j)'
                 PROVE  SeedRow(s, SeedOrder[k], j) \in db'
      BY DEF Intact, SeedRow, Row
    <2>1. Did(s, k, j) \/ (k = seeder[s].at /\ j = i)
      BY <1>1, <1>2 DEF Did
    <2> QED BY <1>1, <2>1 DEF Intact
  <1>9. ASSUME Doomed(s) PROVE seeder'[s].pc = "seeding" /\ Doomed(s)'
    <2>1. PICK j \in Number : SeedRow(s, "users", j) \notin db /\ (seeder[s].at = 1 <=> j \notin seeder[s].left)
      BY <1>9 DEF Doomed
    <2>2. j # i
      BY <1>1, <1>5, <1>3, <2>1 DEF SeedRow, Row
    <2>3. SeedRow(s, "users", j).n # row.n
      BY <1>3, <2>2, SeederAssumption DEF SeedRow, Row, Number
    <2>4. SeedRow(s, "users", j) \notin db'
      BY <1>1, <2>1, <2>3
    <2>5. seeder[s].at > 1 => rest # {}
      BY <1>1, <2>1, <2>2
    <2>6. seeder'[s].pc = "seeding" /\ (seeder'[s].at = 1 <=> j \notin seeder'[s].left)
      BY <1>1, <1>2, <2>1, <2>2, <2>5
    <2> QED BY <2>4, <2>6 DEF Doomed, SeedRow, Row
  <1>10. Overlap(s)'
    <2>1. seeder'[s].pc = "seeding" /\ seeder'[s].at > 1 => seeder'[s].left # {}
      BY <1>1, <1>2
    <2> QED BY <1>1, <1>2, <1>7, <1>8, <1>9, <2>1 DEF OverlapInv, Overlap
  <1> QED BY <1>4, <1>6, <1>10 DEF OverlapInv

LEMMA OverlapStep == SeederInv /\ OverlapInv /\ [Next]_vars => OverlapInv'
  <1> SUFFICES ASSUME SeederInv, OverlapInv, [Next]_vars PROVE OverlapInv'
    OBVIOUS
  <1>1. CASE UNCHANGED vars
    BY <1>1, OverlapRest DEF vars, OverlapInv, OneOfAnAddress, Users
  <1> QED BY <1>1, FilesOverlap, StartOverlaps, ExitOverlaps, ClearOverlaps, CreateOverlaps DEF Next

(* However the queries of seeders overlap: when they rest, and none        *)
(* stopped while clearing, a last one that reports success has the         *)
(* database to itself, with all of its rows.                               *)
THEOREM OneSeedIsLeft == Spec => []SeededOnce
  <1>1. Init => OverlapInv
    BY DEF Init, OverlapInv, Overlap, OneOfAnAddress, Users
  <1>2. SeederInv /\ OverlapInv => SeededOnce
    <2> SUFFICES ASSUME SeederInv, OverlapInv, \A s \in Seeder : ~Running(s), ~cut, last \in Seeder,
                        seeder[last].pc = "ok"
                 PROVE  {r \in db \ FileRows : r.by \in Seeder} = Seed(last)
      BY DEF SeededOnce, SeederInv, Shape
    <2>1. \A k \in 1..8, i \in Number : SeedRow(last, SeedOrder[k], i) \in db
      BY DEF OverlapInv, Overlap, Intact, Did
    <2>2. \A table \in Tables : \E k \in 1..8 : SeedOrder[k] = table
      BY TablesFacts, SeedOrderCovers
    <2>3. \A table \in Tables, i \in Number :
            /\ SeedRow(last, table, i) \in db /\ SeedRow(last, table, i).by = last
            /\ SeedRow(last, table, i).table = table /\ table # "files"
      BY <2>1, <2>2, TablesFacts DEF SeedRow, Row
    <2>4. Seed(last) \subseteq {r \in db \ FileRows : r.by \in Seeder}
      BY <2>3 DEF Seed, Tables, FileRows
    <2>5. ASSUME NEW r \in db, r.table # "files", r.by \in Seeder
          PROVE  r \in Seed(last)
      <3>1. r \in Plain /\ r.table \in Tables
        BY <2>5 DEF SeederInv, Shape, Plain, Described
      <3>2. Row("users", r.by, r.n) \in db /\ r.n \in Email
        BY <3>1 DEF SeederInv, Keys, Plain
      <3>3. PICK i \in Number : r.n = SeedUser[i]
        BY <2>5, <3>2 DEF SeederInv, Keys, Known
      <3>4. Row("users", r.by, r.n) = SeedRow(last, "users", i)
        <4>1. SeedRow(last, "users", i) \in db
          BY <2>3, TablesFacts
        <4> QED BY <3>2, <3>3, <4>1 DEF OverlapInv, OneOfAnAddress, Users, SeedRow, Row
      <3>5. r.by = last
        BY <3>4 DEF SeedRow, Row
      <3>6. r = SeedRow(last, r.table, i)
        BY <3>1, <3>3, <3>5 DEF SeedRow, Row, Plain
      <3> QED BY <3>1, <3>6 DEF Seed, Tables
    <2> QED BY <2>4, <2>5 DEF FileRows
  <1> QED BY <1>1, <1>2, OverlapStep, SeederInit, SeederStep, PTL DEF Spec
=============================================================================
