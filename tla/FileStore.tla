------------------------------ MODULE FileStore ------------------------------
(***************************************************************************)
(* The file module: uploads, new versions, renames and deletions, over two *)
(* stores that share no transaction.  Postgres holds the files and their   *)
(* versions; the bucket holds the objects, one version per put, under a    *)
(* key made of the owner and of the transliterated name.                   *)
(*                                                                         *)
(* A request runs in one transaction (pend and pver are its uncommitted    *)
(* rows, and the rows of pend are locked); the files of one request are    *)
(* uploaded side by side (Promise.all), so a request may be refused while  *)
(* some of its uploads are still running.                                  *)
(*                                                                         *)
(* Every findOne, one inside a transaction too, is answered from the query *)
(* cache while an equal read of the last second is in it.  Ids are never   *)
(* used again and a deletion is never undone, so what such an answer may   *)
(* get wrong is the key of a row, and whether it is deleted: past and      *)
(* undone are the keys a row may still be answered with.                   *)
(***************************************************************************)
EXTENDS Naturals, Sequences, FiniteSets

CONSTANTS
    User,        \* who uploads
    Staff,       \* moderators and administrators
    Name,        \* file names, within one module and externalId
    FileId,      \* rows of "file"
    Request,     \* slots for filesUpload, fileUpdate and fileDelete calls
    MaxFiles,    \* bound: files of one upload (10 in main.ts)
    MaxCalls,    \* bound: calls that begin
    MaxVersion,  \* bound: puts the bucket is asked for
    MaxFaults,   \* bound: failures of the bucket and of the database, and crashes
    NoFile, NoName, NoKey

ASSUME FilesAssumption ==
    /\ IsFiniteSet(Request)
    /\ MaxFiles \in Nat \ {0} /\ MaxVersion \in Nat /\ MaxCalls \in Nat /\ MaxFaults \in Nat
    /\ Staff \subseteq User
    /\ NoName \notin Name /\ NoFile \notin FileId
    /\ NoFile \notin [name : Name, owner : User, last : 0..MaxVersion, deleted : BOOLEAN]
    /\ NoKey \notin User \X Name

VARIABLES
    slug,      \* what getFilePath makes of a name
    file,      \* committed rows of "file"
    versions,  \* committed rows of "file-version"
    objects,   \* the key of each object version in the bucket
    puts,      \* puts tried so far: the newest version has the largest id
    op,        \* what each request asks
    tx,        \* the state of its transaction
    pend,      \* rows of "file" it has written and locked
    pver,      \* rows of "file-version" it has written
    item,      \* its uploads: how far each has come, its row, key and version
    past,      \* keys a committed row had within the last second, while it was live
    undone,    \* keys it had in a transaction that read it back and was then undone
    raced,     \* history: rows fileUpdate worked on, or named twice by one upload
    stray,     \* history: objects nobody is left to delete
    calls, faults

vars == <<slug, file, versions, objects, puts, op, tx, pend, pver, item, past, undone, raced, stray,
          calls, faults>>
cache == <<past, undone>>
db == <<file, versions>>
bucket == <<objects, puts>>
history == <<raced, stray>>

Index == 1..MaxFiles
Version == 1..MaxVersion
Key == User \X Name
Row == [name : Name, owner : User, last : 0..MaxVersion, deleted : BOOLEAN]
VersionRow == [id : Version, file : FileId]
Idle == [kind |-> "idle"]
Names == UNION {[1..n -> Name] : n \in Index}
Operation ==
    {Idle}
    \cup [kind : {"upload"}, user : User, names : Names]
    \cup [kind : {"update"}, file : FileId, name : Name \cup {NoName}, content : BOOLEAN]
    \cup [kind : {"delete"}, file : FileId]
Step == {"none", "upsert", "find", "rename", "put", "head", "cleanup", "drop", "saved", "failed"}
Item == [step : Step, file : FileId \cup {NoFile}, key : Key \cup {NoKey}, ver : 0..MaxVersion]
Fresh(s) == [step |-> s, file |-> NoFile, key |-> NoKey, ver |-> 0]

\* What getFilePath makes of a row: the owner's path and the slug of the name.
FilePath(owner, name) == <<owner, slug[name]>>
KeyOf(row) == FilePath(row.owner, row.name)

\* What a request sees of a row: its own writes before the committed ones.
Seen(r, f) == IF f \in DOMAIN pend[r] THEN pend[r][f] ELSE file[f]
Live(row) == row # NoFile /\ ~row.deleted
Holds(r, f) == f \in DOMAIN pend[r]

\* The keys a read of a committed row may be answered with: none, if it finds no row.
LiveKeys(row) == IF Live(row) THEN {KeyOf(row)} ELSE {}
Keys(f) == past[f] \cup LiveKeys(file[f])
\* What a read inside the transaction of r may say of whether the row is there.
Readable(r, f) == Seen(r, f) # NoFile /\ (Live(Seen(r, f)) \/ past[f] # {})
Unreadable(r, f) == ~Live(Seen(r, f))
\* Rows a request has written and read back.
ToldBy(r) ==
    {f \in DOMAIN pend[r] : \E i \in Index : item[r][i].step = "saved" /\ item[r][i].file = f}
\* What the cache keeps of the rows of r when they are undone.
Leaks(r, f) ==
    IF f \in ToldBy(r) /\ file[f] # NoFile THEN {KeyOf(pend[r][f])} \ {KeyOf(file[f])} ELSE {}

HoldsName(r, n) ==
    \E f \in DOMAIN pend[r] : pend[r][f].name = n \/ (file[f] # NoFile /\ file[f].name = n)
Named(r, n) == {f \in FileId : Seen(r, f) # NoFile /\ Seen(r, f).name = n}
Free == {f \in FileId : file[f] = NoFile /\ \A r \in Request : ~Holds(r, f)}

Written(r, f, row) == [pend EXCEPT ![r] = [g \in DOMAIN pend[r] \cup {f} |->
                                              IF g = f THEN row ELSE pend[r][g]]]
Write(r, f, row) == pend' = Written(r, f, row)
Move(r, i, s) == item' = [item EXCEPT ![r][i].step = s]
Fault == faults < MaxFaults /\ faults' = faults + 1

\* One connection carries a request's upserts in the order of its files.
NextUpsert(r, i) == item[r][i].step = "upsert" /\ \A j \in 1..(i - 1) : item[r][j].step # "upsert"

\* Which requests the database makes wait for which.
WaitsFor(r, q) ==
    /\ r # q /\ tx[r] = "open"
    /\ \/ \E i \in Index : \/ NextUpsert(r, i) /\ HoldsName(q, op[r].names[i])
                           \/ /\ item[r][i].step = "rename"
                              /\ Holds(q, op[r].file) \/ HoldsName(q, op[r].name)
                           \/ item[r][i].step = "head" /\ Holds(q, item[r][i].file)
       \/ op[r].kind = "delete" /\ Holds(q, op[r].file)
Waits(r) == \E q \in Request : WaitsFor(r, q)

Unsent == {p \in Request \X Index : item[p[1]][p[2]].step \in {"upsert", "find", "rename", "put"}}
-----------------------------------------------------------------------------
Init ==
    \* slugify is idempotent; two names may have one slug.
    /\ slug \in {s \in [Name -> Name] : \A n \in Name : s[s[n]] = s[n]}
    /\ file = [f \in FileId |-> NoFile]
    /\ versions = {}
    /\ objects = [v \in Version |-> NoKey]
    /\ puts = 0
    /\ op = [r \in Request |-> Idle]
    /\ tx = [r \in Request |-> "none"]
    /\ pend = [r \in Request |-> <<>>]
    /\ pver = [r \in Request |-> {}]
    /\ item = [r \in Request |-> [i \in Index |-> Fresh("none")]]
    /\ past = [f \in FileId |-> {}] /\ undone = [f \in FileId |-> {}]
    /\ raced = {} /\ stray = {}
    /\ calls = 0 /\ faults = 0

(***************************************************************************)
(* Calls                                                                   *)
(***************************************************************************)
Begin(r, o, steps, room) ==
    /\ op[r] = Idle /\ calls < MaxCalls
    /\ puts + Cardinality(Unsent) + room <= MaxVersion
    /\ op' = [op EXCEPT ![r] = o]
    /\ tx' = [tx EXCEPT ![r] = "open"]
    /\ item' = [item EXCEPT ![r] = [i \in Index |-> Fresh(steps[i])]]
    /\ calls' = calls + 1
    /\ UNCHANGED <<slug, db, bucket, pend, pver, cache, stray, faults>>

\* The request has been answered and has nothing left to do.
Close(r) ==
    /\ op' = [op EXCEPT ![r] = Idle]
    /\ tx' = [tx EXCEPT ![r] = "none"]
    /\ item' = [item EXCEPT ![r] = [i \in Index |-> Fresh("none")]]

StartUpload(r, u, names) ==
    /\ Begin(r, [kind |-> "upload", user |-> u, names |-> names],
             [i \in Index |-> IF i \in DOMAIN names THEN "upsert" ELSE "none"], Len(names))
    /\ UNCHANGED raced

\* FileUpdateHandler and FileDeleteHandler look the file up before they act.
MayChange(u, f) == Keys(f) # {} /\ (u \in Staff \/ \E k \in Keys(f) : k[1] = u)

StartUpdate(r, u, f, n, content) ==
    /\ MayChange(u, f)
    /\ n # NoName \/ content
    /\ Begin(r, [kind |-> "update", file |-> f, name |-> n, content |-> content],
             [i \in Index |-> IF i = 1 THEN "find" ELSE "none"], 1)
    /\ raced' = raced \cup {f}

StartDelete(r, u, f) ==
    /\ MayChange(u, f)
    /\ Begin(r, [kind |-> "delete", file |-> f], [i \in Index |-> "none"], 0)
    /\ UNCHANGED raced

MayDelete(r) == op[r].kind = "delete" /\ tx[r] = "open" /\ ~Waits(r)

\* softDelete by id: one statement of its own.
DeleteRow(r) ==
    /\ MayDelete(r)
    /\ file' = [file EXCEPT ![op[r].file] = IF @ = NoFile THEN NoFile ELSE [@ EXCEPT !.deleted = TRUE]]
    /\ past' = [past EXCEPT ![op[r].file] = Keys(op[r].file)]
    /\ Close(r)
    /\ UNCHANGED <<slug, calls, versions, bucket, pend, pver, undone, history, faults>>

\* A refused request is over when its last upload is.
MayEnd(r) == tx[r] = "rolledback" /\ \A i \in Index : item[r][i].step \in {"none", "saved", "failed"}

End(r) ==
    /\ MayEnd(r)
    /\ Close(r)
    /\ UNCHANGED <<slug, calls, db, bucket, pend, pver, cache, history, faults>>

(***************************************************************************)
(* An upload's own statements.  One connection carries them in the order   *)
(* they were sent: the upserts first, then the reads of what they wrote.   *)
(***************************************************************************)
\* The row an upload writes: ON CONFLICT (name, ...) the owner changes hands.
Conflict(r, n, f) == f \in Named(r, n) \/ (Named(r, n) = {} /\ f \in Free)

\* Mutant of Upserted: userId is left out of the columns an upsert overwrites.
UpsertedOldOwner(r, n, f) ==
    IF f \in Named(r, n) THEN Seen(r, f)
    ELSE [name |-> n, owner |-> op[r].user, last |-> 0, deleted |-> FALSE]

Upserted(r, n, f) ==
    IF f \in Named(r, n) THEN [Seen(r, f) EXCEPT !.owner = op[r].user]
    ELSE [name |-> n, owner |-> op[r].user, last |-> 0, deleted |-> FALSE]

MayUpsert(r, i, f) ==
    NextUpsert(r, i) /\ tx[r] = "open" /\ ~Waits(r) /\ Conflict(r, op[r].names[i], f)

Upsert(r, i, f) ==
    LET n == op[r].names[i]
        row == Upserted(r, n, f)
    IN
    /\ MayUpsert(r, i, f)
    /\ Write(r, f, row)
    \* The read that follows does not see a soft-deleted row, the cache may have it.
    /\ \E s \in {"put", "failed"} :
          /\ s = "put" => ~row.deleted \/ past[f] # {}
          /\ s = "failed" => row.deleted
          /\ item' = [item EXCEPT ![r][i] =
                        [step |-> s, file |-> f, key |-> FilePath(op[r].user, n), ver |-> 0]]
    /\ raced' = raced \cup {g \in {f} : \E j \in Index \ {i} : item[r][j].file = g}
    /\ UNCHANGED <<slug, calls, db, bucket, op, tx, pver, cache, stray, faults>>

\* The keys update's read may be answered with: its SQL is that of the reads
\* with which a transaction answers its caller, so it may be told of rows not
\* committed, or undone.
KeysForUpdate(f) ==
    Keys(f) \cup undone[f] \cup {KeyOf(pend[q][f]) : q \in {p \in Request : f \in ToldBy(p)}}

\* Mutant of FindForUpdate: updateData.name set without asking whether a name was given.
FindForAnyUpdate(r) ==
    LET f == op[r].file
    IN  /\ item[r][1].step = "find"
        /\ \/ \E k \in KeysForUpdate(f) :
                 item' = [item EXCEPT ![r][1] = [step |-> "rename", file |-> f, key |-> k, ver |-> 0]]
           \/ Unreadable(r, f) /\ item' = [item EXCEPT ![r][1] = Fresh("failed")]
        /\ UNCHANGED <<slug, calls, db, bucket, op, tx, pend, pver, cache, history, faults>>

\* update: the row is read, and with it the key of what will be put.
FindForUpdate(r) ==
    LET f == op[r].file
        next == IF op[r].name # NoName THEN "rename" ELSE IF op[r].content THEN "put" ELSE "saved"
    IN  /\ item[r][1].step = "find"
        /\ \/ \E k \in KeysForUpdate(f) :
                 item' = [item EXCEPT ![r][1] = [step |-> next, file |-> f, key |-> k, ver |-> 0]]
           \/ Unreadable(r, f) /\ item' = [item EXCEPT ![r][1] = Fresh("failed")]
        /\ UNCHANGED <<slug, calls, db, bucket, op, tx, pend, pver, cache, history, faults>>

MayRename(r) == item[r][1].step = "rename" /\ tx[r] = "open" /\ ~Waits(r)

\* The unique index refuses a name that another row has.
Rename(r) ==
    LET f == op[r].file
    IN  /\ MayRename(r)
        /\ IF file[f] # NoFile /\ Named(r, op[r].name) \subseteq {f}
           THEN /\ Write(r, f, [file[f] EXCEPT !.name = op[r].name])
                /\ Move(r, 1, IF op[r].content THEN "put" ELSE "saved")
           ELSE Move(r, 1, "failed") /\ UNCHANGED pend
        /\ UNCHANGED <<slug, calls, db, bucket, op, tx, pver, cache, history, faults>>

(***************************************************************************)
(* uploadToS3                                                              *)
(***************************************************************************)
\* The reads come after the request's upserts on its one connection.
ReadBack(r) == tx[r] = "open" => \A i \in Index : item[r][i].step # "upsert"

MayPut(r, i) == item[r][i].step = "put" /\ ReadBack(r) /\ puts < MaxVersion

Put(r, i) ==
    /\ MayPut(r, i)
    /\ puts' = puts + 1
    /\ objects' = [objects EXCEPT ![puts + 1] = item[r][i].key]
    /\ item' = [item EXCEPT ![r][i] = [@ EXCEPT !.step = "head", !.ver = puts + 1]]
    /\ UNCHANGED <<slug, calls, db, op, tx, pend, pver, cache, history, faults>>

\* The bucket refuses the object, or has it and its answer is lost or names no
\* version: then nobody deletes it.
PutFails(r, i) ==
    /\ MayPut(r, i) /\ Fault
    /\ puts' = puts + 1
    /\ \/ UNCHANGED <<objects, stray>>
       \/ /\ objects' = [objects EXCEPT ![puts + 1] = item[r][i].key]
          /\ stray' = stray \cup {puts + 1}
    /\ Move(r, i, "failed")
    /\ UNCHANGED <<slug, calls, db, op, tx, pend, pver, cache, raced>>

\* The version's row and the file's lastVersionId, in the transaction.
MaySave(r, i) ==
    /\ item[r][i].step = "head" /\ tx[r] = "open" /\ ~Waits(r)
    /\ Readable(r, item[r][i].file)
NewVersion(r, i) == [id |-> item[r][i].ver, file |-> item[r][i].file]

Save(r, i) ==
    LET f == item[r][i].file IN
    /\ MaySave(r, i)
    /\ pver' = [pver EXCEPT ![r] = @ \cup {NewVersion(r, i)}]
    /\ Write(r, f, [Seen(r, f) EXCEPT !.last = item[r][i].ver])
    /\ Move(r, i, "saved")
    /\ UNCHANGED <<slug, calls, db, bucket, op, tx, cache, history, faults>>

\* There is no transaction to save in, or no row.
Unsavable(r, i) ==
    /\ item[r][i].step = "head"
    /\ tx[r] = "rolledback" \/ (~Waits(r) /\ Unreadable(r, item[r][i].file))

\* Mutant of SaveFails: the catch clause forgets the object.
SaveFailsNoDelete(r, i) ==
    LET f == item[r][i].file IN
    /\ item[r][i].step = "head"
    /\ \/ Fault /\ UNCHANGED pend
       \/ Unsavable(r, i) /\ UNCHANGED <<pend, faults>>
       \/ MaySave(r, i) /\ Fault /\ Write(r, f, Seen(r, f))
    /\ Move(r, i, "failed")
    /\ UNCHANGED <<slug, calls, db, bucket, op, tx, pver, cache, history>>

\* head fails before a row is written, the row is gone, or the transaction is
\* over; or a statement fails after the version's row was written (and its
\* file's row locked).  The catch clause comes next.
SaveFails(r, i) ==
    LET f == item[r][i].file IN
    /\ item[r][i].step = "head"
    /\ \/ Fault /\ UNCHANGED pend
       \/ Unsavable(r, i) /\ UNCHANGED <<pend, faults>>
       \/ MaySave(r, i) /\ Fault /\ Write(r, f, Seen(r, f))
    /\ Move(r, i, "cleanup")
    /\ UNCHANGED <<slug, calls, db, bucket, op, tx, pver, cache, history>>

\* fileAdapter.delete; a failure is only logged.
Cleanup(r, i) ==
    /\ item[r][i].step = "cleanup"
    /\ \/ /\ objects' = [objects EXCEPT ![item[r][i].ver] = NoKey]
          /\ UNCHANGED <<stray, faults>>
       \/ Fault /\ stray' = stray \cup {item[r][i].ver} /\ UNCHANGED objects
    /\ Move(r, i, "drop")
    /\ UNCHANGED <<slug, calls, db, puts, op, tx, pend, pver, cache, raced>>

\* Mutant of Dropped: the versions of a file go with it (ON DELETE CASCADE).
DroppedCascade(f) == NoFile

\* this.repo.delete: another connection.  It does not see a row that is not
\* committed, waits for one that is locked, and fails on one with versions.
Dropped(f) == IF \E v \in versions : v.file = f THEN file[f] ELSE NoFile

MayDrop(r, i) ==
    LET f == item[r][i].file IN
    item[r][i].step = "drop" /\ (file[f] # NoFile => \A q \in Request : ~Holds(q, f))

Drop(r, i) ==
    LET f == item[r][i].file IN
    /\ MayDrop(r, i)
    /\ file' = [file EXCEPT ![f] = Dropped(f)]
    /\ Move(r, i, "failed")
    /\ UNCHANGED <<slug, calls, versions, bucket, op, tx, pend, pver, cache, history, faults>>

(***************************************************************************)
(* The end of the transaction                                              *)
(***************************************************************************)
MayCommit(r) ==
    /\ op[r].kind \in {"upload", "update"} /\ tx[r] = "open"
    /\ \A i \in Index : /\ item[r][i].step \in {"none", "saved"}
                        /\ item[r][i].step = "saved" => Readable(r, item[r][i].file)

Commit(r) ==
    /\ MayCommit(r)
    /\ file' = [f \in FileId |-> Seen(r, f)]
    /\ versions' = versions \cup pver[r]
    /\ pend' = [pend EXCEPT ![r] = <<>>]
    /\ pver' = [pver EXCEPT ![r] = {}]
    /\ past' = [f \in FileId |-> IF Holds(r, f) THEN Keys(f) \ LiveKeys(pend[r][f]) ELSE past[f]]
    /\ Close(r)
    /\ UNCHANGED <<slug, calls, bucket, undone, history, faults>>

\* Mutant of Undo: the rows are written outside the transaction: nothing is undone.
UndoNothing(r) ==
    /\ file' = [f \in FileId |-> Seen(r, f)]
    /\ versions' = versions \cup pver[r]
    /\ pend' = [pend EXCEPT ![r] = <<>>]
    /\ pver' = [pver EXCEPT ![r] = {}]
    /\ tx' = [tx EXCEPT ![r] = "rolledback"]
    /\ UNCHANGED <<slug, calls, bucket, op, cache, history, faults>>

\* What a rollback forgets: the rows, and the objects of the uploads it undoes.
Undo(r) ==
    /\ pend' = [pend EXCEPT ![r] = <<>>]
    /\ pver' = [pver EXCEPT ![r] = {}]
    /\ tx' = [tx EXCEPT ![r] = "rolledback"]
    /\ stray' = stray \cup {v.id : v \in pver[r]}
    /\ undone' = [f \in FileId |-> undone[f] \cup Leaks(r, f)]
    /\ UNCHANGED <<slug, calls, db, bucket, op, past, raced, faults>>

\* Mutant of MayRollback: nobody looks whether the file is still there at the end.
MayRollbackUnlessGone(r) ==
    /\ tx[r] = "open"
    /\ \A i \in Index : item[r][i].step # "upsert"
    /\ \E i \in Index : item[r][i].step = "failed"

\* The first rejection refuses the request, whatever its other uploads do.
MayRollback(r) ==
    /\ tx[r] = "open"
    /\ \A i \in Index : item[r][i].step # "upsert"
    /\ \/ \E i \in Index : item[r][i].step = "failed"
       \/ \E i \in Index : item[r][i].step = "saved" /\ Unreadable(r, item[r][i].file)

Rollback(r) ==
    /\ MayRollback(r)
    /\ Undo(r)
    /\ UNCHANGED item

Circle(S) ==
    \A q \in S : (\E p \in S : WaitsFor(q, p)) /\ (\E p \in S : WaitsFor(p, q))
InCircle(r) == \E S \in SUBSET Request : r \in S /\ Circle(S)

\* Postgres breaks a circle of waits by failing one transaction.
BreakDeadlock(r) ==
    /\ InCircle(r)
    /\ Undo(r)
    /\ item' = [item EXCEPT ![r] = [i \in Index |->
                    IF @[i].step \in {"upsert", "rename"} \/ (@[i].step = "put" /\ ~ReadBack(r)) THEN Fresh("failed") ELSE @[i]]]

\* The process dies: Postgres rolls back, the bucket keeps what it has.
Crash ==
    /\ faults < MaxFaults /\ faults' = faults + 1
    /\ op' = [r \in Request |-> Idle]
    /\ tx' = [r \in Request |-> "none"]
    /\ pend' = [r \in Request |-> <<>>]
    /\ pver' = [r \in Request |-> {}]
    /\ item' = [r \in Request |-> [i \in Index |-> Fresh("none")]]
    /\ stray' = stray \cup {v \in Version : \E r \in Request, i \in Index : item[r][i].ver = v}
    /\ undone' = [f \in FileId |-> undone[f] \cup UNION {Leaks(r, f) : r \in Request}]
    /\ UNCHANGED <<slug, calls, db, bucket, past, raced>>

\* redis.duration has passed: the next read of f asks the database.
Expire(f, k) ==
    /\ \/ k \in past[f] /\ past' = [past EXCEPT ![f] = @ \ {k}] /\ UNCHANGED undone
       \/ k \in undone[f] /\ undone' = [undone EXCEPT ![f] = @ \ {k}] /\ UNCHANGED past
    /\ UNCHANGED <<slug, calls, db, bucket, op, tx, pend, pver, item, history, faults>>

(***************************************************************************)
(* download: the newest object of the key made again from the answered row,  *)
(* or, with a version, the object whose bucket version is the id of the      *)
(* version's row, which no object has.  0 stands for the error.              *)
(***************************************************************************)
ObjectsAt(k) == {v \in Version : objects[v] = k}
Download(k) ==
    LET found == ObjectsAt(k)
    IN  IF found = {} THEN 0 ELSE CHOOSE v \in found : \A w \in found : w <= v
-----------------------------------------------------------------------------
Call(r) ==
    \/ \E u \in User, names \in Names : StartUpload(r, u, names)
    \/ \E u \in User, f \in FileId : \/ StartDelete(r, u, f)
                                     \/ \E n \in Name \cup {NoName}, c \in BOOLEAN : StartUpdate(r, u, f, n, c)

Upload(r, i) ==
    \/ \E f \in FileId : Upsert(r, i, f)
    \/ Put(r, i) \/ PutFails(r, i) \/ Save(r, i) \/ SaveFails(r, i) \/ Cleanup(r, i) \/ Drop(r, i)

Work(r) ==
    \/ \E i \in Index : Upload(r, i)
    \/ FindForUpdate(r) \/ Rename(r) \/ DeleteRow(r) \/ Commit(r) \/ Rollback(r) \/ BreakDeadlock(r) \/ End(r)

Next == (\E r \in Request : Call(r) \/ Work(r)) \/ Crash \/ \E f \in FileId, k \in Key : Expire(f, k)

Spec == Init /\ [][Next]_vars
(***************************************************************************)
(* Properties                                                              *)
(***************************************************************************)
StoresOK ==
    /\ slug \in [Name -> Name]
    /\ file \in [FileId -> Row \cup {NoFile}]
    /\ versions \subseteq VersionRow
    /\ objects \in [Version -> Key \cup {NoKey}]
    /\ puts \in 0..MaxVersion
    /\ op \in [Request -> Operation]
    /\ tx \in [Request -> {"none", "open", "rolledback"}]
    /\ \A r \in Request : DOMAIN pend[r] \subseteq FileId /\ \A f \in DOMAIN pend[r] : pend[r][f] \in Row
    /\ pver \in [Request -> SUBSET VersionRow]
    /\ item \in [Request -> [Index -> Item]]
    /\ raced \subseteq FileId /\ stray \subseteq Version
    /\ calls \in 0..MaxCalls /\ faults \in 0..MaxFaults
CacheOK == past \in [FileId -> SUBSET Key] /\ undone \in [FileId -> SUBSET Key]
TypeOK == StoresOK /\ CacheOK

\* A committed file has a committed last version, and the bucket still has the
\* object of every committed version, whatever failed on the way.
FileHasContent ==
    /\ \A f \in FileId : file[f] # NoFile => \E v \in versions : v.file = f /\ v.id = file[f].last
    /\ \A v \in versions : objects[v.id] # NoKey

\* A failed upload never removes a file that was there before it.
NoFileLost == [][\A f \in FileId : file[f] # NoFile => file'[f] # NoFile]_vars

InFlight(k) ==
    \E r \in Request, i \in Index :
        /\ item[r][i].key = k /\ item[r][i].ver # 0
        /\ tx[r] = "open" \/ item[r][i].step \in {"head", "cleanup"}

\* A download of a file nobody edited or named twice, answered from the
\* database or from the cache, serves a committed version of that file, and the
\* one the row calls the last when it was told the row's own key; where no
\* other file has versions under the key it was told, no upload is at work and
\* no stray object is left.
ServesLastVersion ==
    \A f \in FileId : \A k \in Keys(f) :
        /\ f \notin raced
        /\ ~InFlight(k) /\ ObjectsAt(k) \cap stray = {}
        /\ \A v \in versions : objects[v.id] = k => v.file = f
        => /\ \E v \in versions : v.file = f /\ v.id = Download(k)
           /\ k = KeyOf(file[f]) => Download(k) = file[f].last

\* An object without a version belongs to an upload still at work, or was left
\* by a crash, by a failed delete, by a sibling's failure, or by a put whose
\* answer was lost or named no version.
OnlyStraysAreOrphans ==
    \A v \in Version :
        objects[v] # NoKey =>
            \/ v \in stray
            \/ \E w \in versions : w.id = v
            \/ \E r \in Request, i \in Index : item[r][i].ver = v

\* repo.delete waits for a row that its own request has locked: neither can go on.
LockedByItself(r, i) ==
    item[r][i].step = "drop" /\ file[item[r][i].file] # NoFile /\ Holds(r, item[r][i].file)

\* Some step of Work(r) may be taken without a fault: the guards of its actions.
Ready(r) ==
    \/ \E i \in Index : \/ \E f \in FileId : MayUpsert(r, i, f)
                        \/ MayPut(r, i) \/ MaySave(r, i) \/ Unsavable(r, i) \/ MayDrop(r, i)
                        \/ item[r][i].step = "cleanup"
    \/ item[r][1].step = "find" \/ MayRename(r) \/ MayDelete(r)
    \/ MayCommit(r) \/ MayRollback(r) \/ InCircle(r) \/ MayEnd(r)

\* A request stands still only when it, or one it waits for, is locked by itself.
OnlySelfLocksStall ==
    \/ \A r \in Request : op[r] = Idle
    \/ \E r \in Request, i \in Index : LockedByItself(r, i)
    \/ \E r \in Request : Ready(r)

=============================================================================
