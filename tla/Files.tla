------------------------------- MODULE Files --------------------------------
(***************************************************************************)
(* Uploads and downloads: a file is written to the disk by multer, in      *)
(* front of the handler, and described by a row of the table files.  Rows  *)
(* go with their user, the disk is never cleaned.                          *)
(***************************************************************************)
EXTENDS Naturals, Sequences, FiniteSets

CONSTANTS
  Person, Email, \* who may register over the API, and with which address
  Address,  \* Address[p]
  Upload,   \* the uploads that may come; also the names of their files
  Download  \* the downloads that may come

VARIABLES
  db,    \* all rows: their table, who they are due to, the address of the user they belong to
  joined, \* who has registered
  disk,  \* disk[u]: none, partial or whole
  up,    \* the handler of each upload
  down   \* the handler of each download

fileVars == <<joined, disk, up, down>>

Row(table, by, n) == [table |-> table, by |-> by, n |-> n]
NoUser == Row("users", "nobody", "none")
Users == {r \in db : r.table = "users"}

(* A row of files has an id, and belongs to a user.                        *)
FileRow(u, user) == [table |-> "files", by |-> user.by, n |-> user.n, id |-> u]
FileRows == {r \in db : r.table = "files"}
Owns(user, r) == r.by = user.by /\ r.n = user.n

FilesInit ==
  /\ joined = {}
  /\ disk = [u \in Upload |-> "none"]
  /\ up = [u \in Upload |-> [pc |-> "idle", user |-> NoUser]]
  /\ down = [d \in Download |-> [pc |-> "idle", user |-> NoUser, file |-> "none", status |-> 0]]

-----------------------------------------------------------------------------
(* An authenticated user sends a file, multer opens it in uploads/ under a *)
(* name of its own.                                                        *)
Receive(u) == \E user \in Users :
  /\ up[u].pc = "idle"
  /\ up' = [up EXCEPT ![u] = [pc |-> "writing", user |-> user]]
  /\ disk' = [disk EXCEPT ![u] = "partial"]
  /\ UNCHANGED <<db, joined, down>>

(* The file is written, or found too large and removed (422). *)
Written(u) ==
  /\ up[u].pc = "writing"
  /\ \/ /\ up' = [up EXCEPT ![u].pc = "written"]
        /\ disk' = [disk EXCEPT ![u] = "whole"]
     \/ /\ up' = [up EXCEPT ![u].pc = "failed"]
        /\ disk' = [disk EXCEPT ![u] = "none"]
  /\ UNCHANGED <<db, joined, down>>

(* Its INSERT needs the user's row; the file stays when it fails (500).    *)
Insert(u) ==
  \/ /\ up[u].user \in Users
     /\ db' = db \union {FileRow(u, up[u].user)}
     /\ up' = [up EXCEPT ![u].pc = "answered"]
  \/ /\ up' = [up EXCEPT ![u].pc = "failed"]
     /\ UNCHANGED db

(* Slip: the row is inserted while the file is being written.              *)
StoreEarly(u) == up[u].pc = "writing" /\ Insert(u) /\ UNCHANGED <<joined, disk, down>>

(* uploadFile, behind multer. *)
Store(u) == up[u].pc = "written" /\ Insert(u) /\ UNCHANGED <<joined, disk, down>>

(* downloadFile, for an id that was answered: the row and its owner ...    *)
Find(d) == \E user \in Users, u \in Upload :
  LET found == {r \in FileRows : r.id = u} IN
  /\ down[d].pc = "idle" /\ up[u].pc = "answered"
  /\ down' = [down EXCEPT ![d] =
       IF found = {} THEN [pc |-> "missing", user |-> user, file |-> u, status |-> 404]
       ELSE IF \E r \in found : ~Owns(user, r)
            THEN [pc |-> "refused", user |-> user, file |-> u, status |-> 403]
            ELSE [pc |-> "found", user |-> user, file |-> u, status |-> 0]]
  /\ UNCHANGED <<db, joined, disk, up>>

(* ... then existsSync, and the stream. *)
Serve(d) ==
  /\ down[d].pc = "found"
  /\ down' = [down EXCEPT ![d].pc = "served",
                          ![d].status = IF disk[down[d].file] = "none" THEN 404 ELSE 200]
  /\ UNCHANGED <<db, joined, disk, up>>

(* The server dies: what was under way is lost, the disk is not.           *)
CrashFiles ==
  /\ up' = [u \in Upload |-> IF up[u].pc \in {"writing", "written"} THEN [up[u] EXCEPT !.pc = "lost"] ELSE up[u]]
  /\ down' = [d \in Download |-> IF down[d].pc = "found" THEN [down[d] EXCEPT !.pc = "lost"] ELSE down[d]]
  /\ up' # up \/ down' # down
  /\ UNCHANGED <<db, joined, disk>>

(* Register: no two users share an address. *)
Register(p) ==
  /\ p \notin joined /\ \A user \in Users : user.n # Address[p]
  /\ joined' = joined \union {p}
  /\ db' = db \union {Row("users", p, Address[p])}
  /\ UNCHANGED <<disk, up, down>>

FilesNext ==
  \/ \E u \in Upload : Receive(u) \/ Written(u) \/ Store(u)
  \/ \E d \in Download : Find(d) \/ Serve(d)
  \/ CrashFiles
  \/ \E p \in Person : Register(p)

-----------------------------------------------------------------------------
(* The type invariant of files. *)
FilesTypeOK ==
  /\ \A r \in FileRows : r.id \in Upload /\ disk[r.id] # "none"
  /\ disk \in [Upload -> {"none", "partial", "whole"}]
  /\ \A u \in Upload : up[u].pc \in {"idle", "writing", "written", "answered", "failed", "lost"}
  /\ \A d \in Download : down[d].pc \in {"idle", "missing", "refused", "found", "served", "lost"}

(* Whoever is answered a file is its owner and gets all of it, though the  *)
(* table was cleared or the server restarted since the upload; and a row   *)
(* that was found is never "not found on disk".                            *)
DownloadsServe ==
  \A d \in Download : down[d].pc = "served" =>
    /\ down[d].status = 200 /\ disk[down[d].file] = "whole"
    /\ up[down[d].file].pc = "answered" /\ up[down[d].file].user = down[d].user
=============================================================================
