--------------------------- MODULE FileStoreProofs ---------------------------
(***************************************************************************)
(* What a failed upload, a crash or a race of uploads can do to the files   *)
(* and objects that are there, for any number of requests, files of a       *)
(* request and versions.  Inductive is, for every upload, what has become   *)
(* of the version it has put, and for every uncommitted row who wrote it    *)
(* and whether an upload that writes its last version is still to come.     *)
(* What a download serves rests on a second one (Serving): which upload     *)
(* holds a file nobody edited, under which key, and after which versions.   *)
(* That everyone never stands still but for an upload that deletes a row    *)
(* its own request has locked rests on a third (Going), and on a smallest   *)
(* set of requests that wait for each other being a circle.                 *)
(***************************************************************************)
EXTENDS FileStore, TLAPS, FiniteSetTheorems, WellFoundedInduction

Pending == UNION {[S -> Row] : S \in SUBSET FileId}
Typed == StoresOK /\ pend \in [Request -> Pending]

\* What a request asks, and what its uploads still need of it.
OpOK ==
    \A r \in Request :
        /\ op[r] = Idle => tx[r] = "none" /\ \A i \in Index : item[r][i] = Fresh("none")
        /\ op[r].kind = "delete" =>
              /\ op[r].file \in FileId /\ DOMAIN pend[r] = {}
              /\ \A i \in Index : item[r][i] = Fresh("none")
        /\ \A i \in Index :
              /\ item[r][i].step = "upsert" => op[r].user \in User /\ op[r].names[i] \in Name
              /\ item[r][i].step \in {"find", "rename"} => op[r].file \in FileId /\ op[r].name \in Name \cup {NoName}
              /\ item[r][i].step = "rename" => op[r].name # NoName

\* Which versions an upload has put, and what has become of them.
Unput == {"none", "upsert", "find", "rename", "put"}
ItemOK(r, i) ==
    LET t == item[r][i] IN
    /\ t.step \in {"rename", "put", "head", "cleanup", "drop"} => t.file \in FileId /\ t.key \in Key
    /\ t.step \in Unput => t.ver = 0
    /\ t.step \in {"head", "cleanup"} => t.ver # 0
    /\ t.ver <= puts
    /\ t.step \in {"head", "saved"} /\ t.ver # 0 => objects[t.ver] # NoKey
    /\ t.step = "saved" /\ t.ver # 0 =>
          \/ tx[r] = "open" /\ [id |-> t.ver, file |-> t.file] \in pver[r]
          \/ tx[r] = "rolledback" /\ t.ver \in stray
    /\ t.step \in {"drop", "failed"} /\ t.ver # 0 => objects[t.ver] = NoKey \/ t.ver \in stray
ItemsOK == \A r \in Request, i \in Index : ItemOK(r, i)

\* No version has two uploads.
OwnVersions ==
    \A r, q \in Request, i, j \in Index :
        item[r][i].ver # 0 /\ item[r][i].ver = item[q][j].ver => r = q /\ i = j

\* Rows that are not committed are those of saved uploads; committed ones are no
\* longer anybody's.
VersionsOK ==
    /\ \A r \in Request : \A v \in pver[r] :
          tx[r] = "open" /\ \E i \in Index : item[r][i].step = "saved" /\ item[r][i].ver = v.id
    /\ \A v \in versions : /\ v.id <= puts /\ objects[v.id] # NoKey
                           /\ \A r \in Request, i \in Index : item[r][i].ver # v.id
    /\ \A v \in Version : objects[v] # NoKey => v <= puts

\* Each row has one writer, and a last version unless its upload is not done.
Undone == {"put", "head", "cleanup", "drop", "failed"}
PendOK ==
    /\ \A r, q \in Request : r # q => DOMAIN pend[r] \cap DOMAIN pend[q] = {}
    /\ \A r \in Request : \A f \in DOMAIN pend[r] :
          /\ tx[r] = "open"
          /\ \/ \E v \in versions \cup pver[r] : v.file = f /\ v.id = pend[r][f].last
             \/ \E i \in Index : item[r][i].file = f /\ item[r][i].step \in Undone

ContentOK == \A f \in FileId : file[f] # NoFile => \E v \in versions : v.file = f /\ v.id = file[f].last

IInv == Typed /\ OpOK /\ ItemsOK /\ OwnVersions /\ VersionsOK /\ PendOK /\ ContentOK

----------------------------------------------------------------------------
(* Shapes                                                                  *)

LEMMA FreshItem == ASSUME NEW s \in Step PROVE Fresh(s) \in Item /\ Fresh(s).ver = 0 /\ Fresh(s).step = s
BY FilesAssumption DEF Fresh, Item

\* One upload's state replaced.
LEMMA OneItem ==
    ASSUME item \in [Request -> [Index -> Item]], NEW r \in Request, NEW i \in Index, NEW t \in Item,
           item' = [item EXCEPT ![r][i] = t]
    PROVE  /\ item' \in [Request -> [Index -> Item]]
           /\ \A q \in Request, j \in Index : item'[q][j] = IF q = r /\ j = i THEN t ELSE item[q][j]
<1>1. [item[r] EXCEPT ![i] = t] \in [Index -> Item]
    OBVIOUS
<1>2. item' = [item EXCEPT ![r] = [item[r] EXCEPT ![i] = t]]
    OBVIOUS
<1>3. QED
    BY <1>1, <1>2

LEMMA MovedItem ==
    ASSUME NEW t \in Item, NEW s \in Step
    PROVE  LET u == [t EXCEPT !.step = s] IN
           u \in Item /\ u.step = s /\ u.file = t.file /\ u.key = t.key /\ u.ver = t.ver
BY DEF Item

LEMMA Moved ==
    ASSUME item \in [Request -> [Index -> Item]], NEW r \in Request, NEW i \in Index, NEW s \in Step, Move(r, i, s)
    PROVE  item' = [item EXCEPT ![r][i] = [item[r][i] EXCEPT !.step = s]]
BY DEF Move

\* A row written.
RowWritten(r, f, row) ==
    /\ \A q \in Request : DOMAIN pend'[q] = IF q = r THEN DOMAIN pend[r] \cup {f} ELSE DOMAIN pend[q]
    /\ \A q \in Request : \A g \in DOMAIN pend'[q] :
          pend'[q][g] = IF q = r /\ g = f THEN row ELSE pend[q][g]

LEMMA OneRow ==
    ASSUME pend \in [Request -> Pending], NEW r \in Request, NEW f \in FileId, NEW row \in Row, Write(r, f, row)
    PROVE  pend' \in [Request -> Pending] /\ RowWritten(r, f, row)
<1> DEFINE rows == [g \in DOMAIN pend[r] \cup {f} |-> IF g = f THEN row ELSE pend[r][g]]
<1>1. PICK S \in SUBSET FileId : pend[r] \in [S -> Row]
    BY DEF Pending
<1>2. rows \in [S \cup {f} -> Row] /\ S \cup {f} \in SUBSET FileId
    BY <1>1
<1>3. rows \in Pending
    BY <1>2 DEF Pending
<1>4. pend' = [pend EXCEPT ![r] = rows]
    BY DEF Write, Written
<1>5. DOMAIN rows = DOMAIN pend[r] \cup {f} /\ \A g \in DOMAIN rows : rows[g] = IF g = f THEN row ELSE pend[r][g]
    OBVIOUS
<1> HIDE DEF rows
<1>6. \A q \in Request : pend'[q] = IF q = r THEN rows ELSE pend[q]
    BY <1>4
<1>7. QED
    BY <1>3, <1>4, <1>5, <1>6 DEF RowWritten

LEMMA PendingRows ==
    ASSUME pend \in [Request -> Pending], NEW r \in Request
    PROVE  DOMAIN pend[r] \subseteq FileId /\ \A f \in DOMAIN pend[r] : pend[r][f] \in Row
<1>1. PICK S \in SUBSET FileId : pend[r] \in [S -> Row]
    BY DEF Pending
<1>2. QED
    BY <1>1

LEMMA NoRows == <<>> \in Pending /\ DOMAIN <<>> = {}
<1>1. DOMAIN <<>> = {}
    OBVIOUS
<1>2. <<>> = [f \in {} |-> CHOOSE row \in Row : TRUE]
    OBVIOUS
<1>3. <<>> \in [{} -> Row]
    BY <1>2
<1>4. QED
    BY <1>1, <1>3 DEF Pending

LEMMA SeenRows ==
    ASSUME Typed, NEW r \in Request, NEW f \in FileId
    PROVE  Seen(r, f) \in Row \cup {NoFile}
BY PendingRows DEF Seen, Typed, StoresOK

LEMMA RowNotNoFile == NoFile \notin Row
BY FilesAssumption DEF Row

\* The parts of a row, and a row changed.
LEMMA RowParts ==
    ASSUME NEW row \in Row, NEW n \in Name, NEW u \in User, NEW v \in 0..MaxVersion
    PROVE  /\ [row EXCEPT !.name = n] \in Row /\ [row EXCEPT !.name = n].last = row.last
           /\ [row EXCEPT !.owner = u] \in Row /\ [row EXCEPT !.owner = u].last = row.last
           /\ [row EXCEPT !.last = v] \in Row /\ [row EXCEPT !.last = v].last = v
           /\ [row EXCEPT !.deleted = TRUE] \in Row /\ [row EXCEPT !.deleted = TRUE].last = row.last
           /\ [name |-> n, owner |-> u, last |-> 0, deleted |-> FALSE] \in Row
           /\ row.name \in Name /\ row.owner \in User /\ row.last \in 0..MaxVersion
<1>1. [row EXCEPT !.name = n] \in Row /\ [row EXCEPT !.name = n].last = row.last
    BY DEF Row
<1>2. [row EXCEPT !.owner = u] \in Row /\ [row EXCEPT !.owner = u].last = row.last
    BY DEF Row
<1>3. [row EXCEPT !.last = v] \in Row /\ [row EXCEPT !.last = v].last = v
    BY DEF Row
<1>4. [row EXCEPT !.deleted = TRUE] \in Row /\ [row EXCEPT !.deleted = TRUE].last = row.last
    BY DEF Row
<1>5. 0 \in 0..MaxVersion
    BY FilesAssumption
<1>6. [name |-> n, owner |-> u, last |-> 0, deleted |-> FALSE] \in Row
    BY <1>5 DEF Row
<1>7. row.name \in Name /\ row.owner \in User /\ row.last \in 0..MaxVersion
    BY DEF Row
<1>8. QED
    BY <1>1, <1>2, <1>3, <1>4, <1>6, <1>7

LEMMA PathIsKey ==
    ASSUME slug \in [Name -> Name], NEW u \in User, NEW n \in Name
    PROVE  FilePath(u, n) \in Key /\ FilePath(u, n) # NoKey
BY FilesAssumption DEF FilePath, Key

LEMMA KeyNotNoKey == NoKey \notin Key
BY FilesAssumption DEF Key

----------------------------------------------------------------------------
(* One upload goes on                                                      *)

\* What the other uploads hold does not change with one that puts, gives up or
\* saves its own version.
LEMMA OthersKeep ==
    ASSUME IInv, NEW r \in Request, NEW i \in Index, NEW t \in Item, item' = [item EXCEPT ![r][i] = t],
           UNCHANGED tx, \A q \in Request : pver[q] \subseteq pver'[q], stray \subseteq stray', puts \in Nat,
           puts' \in {puts, puts + 1},
           \A v \in Version : v # item[r][i].ver /\ v # puts + 1 => objects'[v] = objects[v],
           ItemOK(r, i)'
    PROVE  ItemsOK'
<1> SUFFICES ASSUME NEW q \in Request, NEW j \in Index, ~(q = r /\ j = i) PROVE ItemOK(q, j)'
    BY DEF ItemsOK
<1>0. item \in [Request -> [Index -> Item]]
    BY DEF IInv, Typed, StoresOK
<1>1. item'[q][j] = item[q][j] /\ item[q][j] \in Item
    BY <1>0, OneItem
<1>2. ItemOK(q, j)
    BY DEF IInv, ItemsOK
<1>3. item[q][j].ver # 0 => item[q][j].ver # item[r][i].ver
    BY DEF IInv, OwnVersions
<1>4. item[q][j].ver \in 0..MaxVersion
    BY <1>1 DEF Item
<1>5. item[q][j].ver # 0 => objects'[item[q][j].ver] = objects[item[q][j].ver]
    <2>1. item[q][j].ver <= puts
        BY <1>2 DEF ItemOK
    <2>2. item[q][j].ver # 0 => item[q][j].ver \in Version
        BY <1>4, FilesAssumption DEF Version
    <2>3. item[q][j].ver # puts + 1
        BY <1>4, <2>1
    <2>4. QED
        BY <1>3, <2>2, <2>3
<1>6. item[q][j].ver <= puts'
    BY <1>2, <1>4 DEF ItemOK
<1>7. QED
    BY <1>1, <1>2, <1>5, <1>6 DEF ItemOK

\* A new version is nobody else's, and an old one stays its upload's.
LEMMA OwnKept ==
    ASSUME IInv, NEW r \in Request, NEW i \in Index, NEW t \in Item, item' = [item EXCEPT ![r][i] = t],
           t.ver = item[r][i].ver \/ t.ver = puts + 1 \/ t.ver = 0
    PROVE  OwnVersions'
<1>0. item \in [Request -> [Index -> Item]] /\ puts \in Nat
    BY FilesAssumption DEF IInv, Typed, StoresOK
<1>1. \A q \in Request, j \in Index : item'[q][j].ver = IF q = r /\ j = i THEN t.ver ELSE item[q][j].ver
    BY <1>0, OneItem
<1>2. \A q \in Request, j \in Index : item[q][j].ver <= puts /\ item[q][j].ver \in Nat
    <2> SUFFICES ASSUME NEW q \in Request, NEW j \in Index
                 PROVE  item[q][j].ver <= puts /\ item[q][j].ver \in Nat
        OBVIOUS
    <2>1. item[q][j] \in Item
        BY <1>0
    <2>2. ItemOK(q, j)
        BY DEF IInv, ItemsOK
    <2>3. QED
        BY <2>1, <2>2, FilesAssumption DEF ItemOK, Item
<1>3. \A q \in Request, j \in Index : item[q][j].ver # puts + 1
    BY <1>0, <1>2
<1>4. ASSUME NEW q \in Request, NEW p \in Request, NEW j \in Index, NEW k \in Index,
             item'[q][j].ver # 0, item'[q][j].ver = item'[p][k].ver
      PROVE  q = p /\ j = k
    <2>1. CASE q = r /\ j = i
        BY <1>1, <1>3, <1>4, <2>1 DEF IInv, OwnVersions
    <2>2. CASE ~(q = r /\ j = i)
        BY <1>1, <1>3, <1>4, <2>2 DEF IInv, OwnVersions
    <2>3. QED
        BY <2>1, <2>2
<1>5. QED
    BY <1>4 DEF OwnVersions

\* Committed versions are out of reach of an upload that goes on.
SavesOnly(r, t) ==
    \A q \in Request : \A v \in pver'[q] :
        v \in pver[q] \/ (q = r /\ tx[r] = "open" /\ t.step = "saved" /\ v.id = t.ver)

LEMMA VersionsKept ==
    ASSUME IInv, NEW r \in Request, NEW i \in Index, NEW t \in Item, item' = [item EXCEPT ![r][i] = t],
           item[r][i].step # "saved", UNCHANGED <<versions, tx>>, SavesOnly(r, t),
           puts' \in {puts, puts + 1},
           t.ver = item[r][i].ver \/ t.ver = puts + 1 \/ t.ver = 0,
           \A v \in Version : v # item[r][i].ver /\ v # puts + 1 => objects'[v] = objects[v],
           \A v \in Version : objects'[v] # NoKey => objects[v] # NoKey \/ v <= puts'
    PROVE  VersionsOK'
<1>0. item \in [Request -> [Index -> Item]] /\ puts \in Nat /\ puts' \in Nat /\ versions \subseteq VersionRow
    BY FilesAssumption DEF IInv, Typed, StoresOK
<1>1. \A q \in Request, j \in Index : item'[q][j] = IF q = r /\ j = i THEN t ELSE item[q][j]
    BY <1>0, OneItem
<1>2. ASSUME NEW q \in Request, NEW v \in pver'[q]
      PROVE  tx'[q] = "open" /\ \E j \in Index : item'[q][j].step = "saved" /\ item'[q][j].ver = v.id
    <2>1. CASE v \in pver[q]
        <3>1. PICK j \in Index : item[q][j].step = "saved" /\ item[q][j].ver = v.id
            BY <2>1 DEF IInv, VersionsOK
        <3>2. item'[q][j] = item[q][j]
            BY <1>1, <3>1
        <3>3. QED
            BY <2>1, <3>1, <3>2 DEF IInv, VersionsOK
    <2>2. CASE v \notin pver[q]
        BY <1>1, <1>2, <2>2 DEF SavesOnly
    <2>3. QED
        BY <2>1, <2>2
<1>3. ASSUME NEW v \in versions
      PROVE  v.id <= puts' /\ objects'[v.id] # NoKey /\ \A q \in Request, j \in Index : item'[q][j].ver # v.id
    <2>1. v.id \in Version /\ v.id <= puts /\ v.id \in Nat /\ v.id # 0
        BY <1>0, FilesAssumption DEF VersionRow, Version, IInv, VersionsOK
    <2>2. v.id # item[r][i].ver /\ v.id # puts + 1
        BY <1>0, <2>1 DEF IInv, VersionsOK
    <2>3. objects'[v.id] # NoKey
        BY <2>1, <2>2 DEF IInv, VersionsOK
    <2>4. \A q \in Request, j \in Index : item'[q][j].ver # v.id
        BY <1>1, <2>1, <2>2 DEF IInv, VersionsOK
    <2>5. v.id <= puts'
        BY <1>0, <2>1
    <2>6. QED
        BY <2>3, <2>4, <2>5
<1>4. ASSUME NEW v \in Version, objects'[v] # NoKey PROVE v <= puts'
    <2>1. objects[v] # NoKey => v <= puts
        BY DEF IInv, VersionsOK
    <2>2. v \in Nat
        BY FilesAssumption DEF Version
    <2>3. QED
        BY <1>0, <1>4, <2>1, <2>2
<1>5. QED
    BY <1>2, <1>3, <1>4 DEF VersionsOK

\* Requests that have not begun, or delete, have no upload that goes on.
LEMMA OpKept ==
    ASSUME IInv, NEW r \in Request, NEW i \in Index, NEW t \in Item, item' = [item EXCEPT ![r][i] = t],
           item[r][i].step # "none", t.step \notin {"upsert", "find"},
           t.step = "rename" => item[r][i].step = "find" /\ op[r].name # NoName,
           UNCHANGED <<op, tx>>, \A q \in Request : q # r => DOMAIN pend'[q] = DOMAIN pend[q]
    PROVE  OpOK'
<1>0. item \in [Request -> [Index -> Item]]
    BY DEF IInv, Typed, StoresOK
<1>1. \A q \in Request, j \in Index : item'[q][j] = IF q = r /\ j = i THEN t ELSE item[q][j]
    BY <1>0, OneItem
<1>2. op[r] # Idle /\ op[r].kind # "delete"
    BY DEF IInv, OpOK, Fresh
<1>3. QED
    BY <1>1, <1>2 DEF IInv, OpOK

\* The rows a request has written, when it writes none.
LEMMA PendKept ==
    ASSUME IInv, NEW r \in Request, NEW i \in Index, NEW t \in Item, item' = [item EXCEPT ![r][i] = t],
           UNCHANGED <<tx, pend, versions, pver>>,
           item[r][i].step \in Undone => t.file = item[r][i].file /\ t.step \in Undone
    PROVE  PendOK'
<1>0. item \in [Request -> [Index -> Item]]
    BY DEF IInv, Typed, StoresOK
<1>1. \A q \in Request, j \in Index : item'[q][j] = IF q = r /\ j = i THEN t ELSE item[q][j]
    BY <1>0, OneItem
<1>2. \A q \in Request, j \in Index : item[q][j].step \in Undone => item'[q][j].file = item[q][j].file /\ item'[q][j].step \in Undone
    BY <1>1
<1>3. QED
    BY <1>2 DEF IInv, PendOK

\* And when it writes one: a row nobody else has, with a version or an upload to come.
MayWrite(r, i, t, f, row) ==
    /\ tx[r] = "open" /\ Write(r, f, row)
    /\ \A q \in Request : q # r => f \notin DOMAIN pend[q]
    /\ \/ \E v \in versions \cup pver'[r] : v.file = f /\ v.id = row.last
       \/ t.file = f /\ t.step \in Undone
    /\ item[r][i].step \in Undone => item[r][i].file = f \/ (t.file = item[r][i].file /\ t.step \in Undone)

LEMMA PendWritten ==
    ASSUME IInv, NEW r \in Request, NEW i \in Index, NEW t \in Item, item' = [item EXCEPT ![r][i] = t],
           NEW f \in FileId, NEW row \in Row, MayWrite(r, i, t, f, row), UNCHANGED <<tx, versions>>,
           \A q \in Request : pver[q] \subseteq pver'[q]
    PROVE  PendOK'
<1>0. item \in [Request -> [Index -> Item]] /\ pend \in [Request -> Pending]
    BY DEF IInv, Typed, StoresOK
<1>1. \A q \in Request, j \in Index : item'[q][j] = IF q = r /\ j = i THEN t ELSE item[q][j]
    BY <1>0, OneItem
<1>2. /\ \A q \in Request : DOMAIN pend'[q] = IF q = r THEN DOMAIN pend[r] \cup {f} ELSE DOMAIN pend[q]
      /\ \A q \in Request : \A g \in DOMAIN pend'[q] :
            pend'[q][g] = IF q = r /\ g = f THEN row ELSE pend[q][g]
    <2>1. RowWritten(r, f, row)
        BY <1>0, OneRow DEF MayWrite
    <2>2. QED
        BY <2>1 DEF RowWritten
<1>3. ASSUME NEW q \in Request, NEW p \in Request, q # p PROVE DOMAIN pend'[q] \cap DOMAIN pend'[p] = {}
    BY <1>2, <1>3 DEF IInv, PendOK, MayWrite
<1>4. ASSUME NEW q \in Request, NEW g \in DOMAIN pend'[q]
      PROVE  /\ tx'[q] = "open"
             /\ \/ \E v \in versions' \cup pver'[q] : v.file = g /\ v.id = pend'[q][g].last
                \/ \E j \in Index : item'[q][j].file = g /\ item'[q][j].step \in Undone
    <2>1. CASE q = r /\ g = f
        BY <1>1, <1>2, <2>1 DEF MayWrite
    <2>2. CASE ~(q = r /\ g = f)
        <3>1. g \in DOMAIN pend[q] /\ pend'[q][g] = pend[q][g]
            BY <1>2, <2>2
        <3>2. CASE \E v \in versions \cup pver[q] : v.file = g /\ v.id = pend[q][g].last
            BY <3>1, <3>2 DEF IInv, PendOK
        <3>3. CASE \E j \in Index : item[q][j].file = g /\ item[q][j].step \in Undone
            <4>1. PICK j \in Index : item[q][j].file = g /\ item[q][j].step \in Undone
                BY <3>3
            <4>2. item'[q][j].file = g /\ item'[q][j].step \in Undone
                BY <1>1, <2>2, <4>1 DEF MayWrite
            <4>3. QED
                BY <3>1, <4>2 DEF IInv, PendOK
        <3>4. QED
            BY <3>1, <3>2, <3>3 DEF IInv, PendOK
    <2>3. QED
        BY <2>1, <2>2
<1>5. QED
    BY <1>3, <1>4 DEF PendOK

LEMMA TypedItem ==
    ASSUME Typed, item' \in [Request -> [Index -> Item]], pend' \in [Request -> Pending],
           pver' \in [Request -> SUBSET VersionRow], objects' \in [Version -> Key \cup {NoKey}],
           puts' \in 0..MaxVersion, UNCHANGED file, raced' \subseteq FileId, stray' \subseteq Version,
           faults' \in 0..MaxFaults, UNCHANGED <<slug, calls, versions, op, tx>>
    PROVE  Typed'
<1>1. \A r \in Request : DOMAIN pend'[r] \subseteq FileId /\ \A f \in DOMAIN pend'[r] : pend'[r][f] \in Row
    <2> SUFFICES ASSUME NEW r \in Request
                 PROVE  DOMAIN pend'[r] \subseteq FileId /\ \A f \in DOMAIN pend'[r] : pend'[r][f] \in Row
        OBVIOUS
    <2>1. PICK S \in SUBSET FileId : pend'[r] \in [S -> Row]
        BY DEF Pending
    <2>2. QED
        BY <2>1
<1>2. QED
    BY <1>1 DEF Typed, StoresOK

LEMMA Faults == ASSUME Typed, Fault \/ UNCHANGED faults PROVE faults' \in 0..MaxFaults
BY FilesAssumption DEF Fault, Typed, StoresOK

LEMMA Types ==
    ASSUME Typed
    PROVE  /\ item \in [Request -> [Index -> Item]] /\ pend \in [Request -> Pending]
           /\ pver \in [Request -> SUBSET VersionRow] /\ objects \in [Version -> Key \cup {NoKey}]
           /\ puts \in 0..MaxVersion /\ puts \in Nat /\ file \in [FileId -> Row \cup {NoFile}]
           /\ raced \subseteq FileId /\ stray \subseteq Version /\ faults \in 0..MaxFaults /\ calls \in 0..MaxCalls
           /\ slug \in [Name -> Name] /\ versions \subseteq VersionRow
           /\ tx \in [Request -> {"none", "open", "rolledback"}]
BY FilesAssumption DEF Typed, StoresOK

\* Steps that change nothing but one upload that has no version yet.
LEMMA ItemAlone ==
    ASSUME IInv, NEW r \in Request, NEW i \in Index, NEW t \in Item, item' = [item EXCEPT ![r][i] = t],
           item[r][i].step \notin {"none", "saved"}, t.step \notin {"none", "upsert", "find"},
           t.step = "rename" => item[r][i].step = "find" /\ op[r].name # NoName,
           item[r][i].step \in Undone => t.file = item[r][i].file /\ t.step \in Undone,
           t.ver = item[r][i].ver, ItemOK(r, i)',
           UNCHANGED <<slug, calls, file, versions, op, tx, pend, pver, raced>>,
           puts' \in {puts, puts + 1}, puts' \in 0..MaxVersion,
           stray \subseteq stray', stray' \subseteq Version, Fault \/ UNCHANGED faults,
           objects' \in [Version -> Key \cup {NoKey}],
           \A v \in Version : v # item[r][i].ver /\ v # puts + 1 => objects'[v] = objects[v],
           \A v \in Version : objects'[v] # NoKey => objects[v] # NoKey \/ v <= puts'
    PROVE  IInv'
<1>0. Typed
    BY DEF IInv
<1>1. Typed'
    <2>1. item' \in [Request -> [Index -> Item]]
        BY <1>0, Types, OneItem
    <2>2. faults' \in 0..MaxFaults
        BY <1>0, Faults
    <2>3. QED
        BY <1>0, <2>1, <2>2, Types, TypedItem
<1>2. OpOK'
    BY OpKept
<1>3. ItemsOK' /\ OwnVersions'
    BY <1>0, Types, OthersKeep, OwnKept
<1>4. VersionsOK'
    <2>1. SavesOnly(r, t) /\ UNCHANGED <<versions, tx>> /\ item[r][i].step # "saved"
        BY DEF SavesOnly
    <2>2. \A v \in Version : objects'[v] # NoKey => objects[v] # NoKey \/ v <= puts'
        OBVIOUS
    <2>3. QED
        BY <2>1, <2>2, VersionsKept
<1>5. PendOK'
    BY PendKept
<1>6. ContentOK'
    BY DEF IInv, ContentOK
<1>7. QED
    BY <1>1, <1>2, <1>3, <1>4, <1>5, <1>6 DEF IInv

\* Steps that write a row for an upload, and perhaps its version.
LEMMA ItemWrites ==
    ASSUME IInv, NEW r \in Request, NEW i \in Index, NEW t \in Item, item' = [item EXCEPT ![r][i] = t],
           item[r][i].step \notin {"none", "saved"}, t.step \notin {"none", "upsert", "find", "rename"},
           t.ver = item[r][i].ver, ItemOK(r, i)',
           NEW f \in FileId, NEW row \in Row, MayWrite(r, i, t, f, row),
           pver' \in [Request -> SUBSET VersionRow],
           \A q \in Request : pver[q] \subseteq pver'[q],
           SavesOnly(r, t), UNCHANGED <<slug, calls, db, bucket, op, tx, stray>>, raced' \subseteq FileId, Fault \/ UNCHANGED faults
    PROVE  IInv'
<1>0. Typed
    BY DEF IInv
<1>1. Typed'
    <2>1. item' \in [Request -> [Index -> Item]]
        BY <1>0, Types, OneItem
    <2>2. faults' \in 0..MaxFaults
        BY <1>0, Faults
    <2>3. pend' \in [Request -> Pending]
        BY <1>0, Types, OneRow DEF MayWrite
    <2>4. QED
        BY <1>0, <2>1, <2>2, <2>3, Types, TypedItem DEF db, bucket
<1>2. OpOK'
    <2>1. RowWritten(r, f, row)
        BY <1>0, Types, OneRow DEF MayWrite
    <2>2. \A q \in Request : q # r => DOMAIN pend'[q] = DOMAIN pend[q]
        BY <2>1 DEF RowWritten
    <2>3. QED
        BY <2>2, OpKept
<1>3. ItemsOK' /\ OwnVersions'
    BY <1>0, Types, OthersKeep, OwnKept DEF bucket
<1>4. VersionsOK'
    <2>1. UNCHANGED <<versions, tx>> /\ puts' = puts /\ objects' = objects
        BY DEF db, bucket
    <2>2. item[r][i].step # "saved"
        OBVIOUS
    <2>4. \A v \in Version : objects'[v] # NoKey => objects[v] # NoKey \/ v <= puts'
        BY <2>1
    <2>5. \A v \in Version : v # item[r][i].ver /\ v # puts + 1 => objects'[v] = objects[v]
        BY <2>1
    <2>6. puts' \in {puts, puts + 1} /\ (t.ver = item[r][i].ver \/ t.ver = puts + 1 \/ t.ver = 0)
        BY <2>1
    <2>7. QED
        BY <2>1, <2>2, <2>4, <2>5, <2>6, VersionsKept
<1>5. PendOK'
    <2>1. UNCHANGED <<tx, versions>>
        BY DEF db
    <2>2. QED
        BY <2>1, PendWritten
<1>6. ContentOK'
    BY DEF IInv, ContentOK, db
<1>7. QED
    BY <1>1, <1>2, <1>3, <1>4, <1>5, <1>6 DEF IInv

----------------------------------------------------------------------------
(* The steps of an upload                                                  *)

\* A row that an upload may upsert is nobody else's.
LEMMA UpsertAlone ==
    ASSUME IInv, NEW r \in Request, NEW i \in Index, NEW f \in FileId, NextUpsert(r, i), tx[r] = "open",
           ~Waits(r), Conflict(r, op[r].names[i], f), NEW q \in Request, q # r
    PROVE  f \notin DOMAIN pend[q]
<1>1. SUFFICES ASSUME f \in DOMAIN pend[q] PROVE FALSE
    OBVIOUS
<1>2. f \in Named(r, op[r].names[i])
    BY <1>1 DEF Conflict, Free, Holds
<1>3. f \notin DOMAIN pend[r]
    BY <1>1 DEF IInv, PendOK
<1>4. file[f] # NoFile /\ file[f].name = op[r].names[i]
    BY <1>2, <1>3 DEF Named, Seen
<1>5. HoldsName(q, op[r].names[i])
    BY <1>1, <1>4 DEF HoldsName
<1>6. WaitsFor(r, q)
    BY <1>5 DEF WaitsFor
<1>7. QED
    BY <1>6 DEF Waits

\* What an upsert leaves its upload with.
LEMMA UpsertedItem ==
    ASSUME IInv, NEW r \in Request, NEW i \in Index, NEW f \in FileId, Upsert(r, i, f)
    PROVE  \E t \in Item :
              /\ item' = [item EXCEPT ![r][i] = t] /\ t.step \in {"put", "failed"} /\ t.file = f /\ t.ver = 0
              /\ t.key = FilePath(op[r].user, op[r].names[i]) /\ t.key \in Key
<1> DEFINE t(s) == [step |-> s, file |-> f, key |-> FilePath(op[r].user, op[r].names[i]), ver |-> 0]
<1>1. op[r].user \in User /\ op[r].names[i] \in Name
    BY DEF IInv, OpOK, Upsert, NextUpsert, MayUpsert
<1>2. FilePath(op[r].user, op[r].names[i]) \in Key /\ 0 \in 0..MaxVersion
    BY <1>1, Types, PathIsKey, FilesAssumption DEF IInv
<1>3. PICK s \in {"put", "failed"} : item' = [item EXCEPT ![r][i] = t(s)]
    BY DEF Upsert
<1>4. t(s) \in Item
    BY <1>2 DEF Item, Step
<1>5. QED
    BY <1>2, <1>3, <1>4

\* The row it writes.
LEMMA UpsertedRow ==
    ASSUME IInv, NEW r \in Request, NEW i \in Index, NEW f \in FileId, Upsert(r, i, f)
    PROVE  Upserted(r, op[r].names[i], f) \in Row
<1> DEFINE n == op[r].names[i]
<1>1. op[r].user \in User /\ n \in Name
    BY DEF IInv, OpOK, Upsert, NextUpsert, MayUpsert
<1>2. CASE f \in Named(r, n)
    <2>1. Seen(r, f) \in Row
        BY <1>2, SeenRows DEF Named, IInv
    <2>2. Upserted(r, n, f) = [Seen(r, f) EXCEPT !.owner = op[r].user]
        BY <1>2 DEF Upserted
    <2>3. QED
        BY <1>1, <2>1, <2>2 DEF Row
<1>3. CASE f \notin Named(r, n)
    <2>1. 0 \in 0..MaxVersion
        BY FilesAssumption
    <2>2. QED
        BY <1>1, <1>3, <2>1 DEF Upserted, Row
<1>4. QED
    BY <1>2, <1>3

LEMMA UpsertHolds == ASSUME IInv, NEW r \in Request, NEW i \in Index, NEW f \in FileId, Upsert(r, i, f) PROVE IInv'
<1> DEFINE n == op[r].names[i]
           row == Upserted(r, n, f)
<1>0. Typed
    BY DEF IInv
<1>2. row \in Row
    BY UpsertedRow
<1>3. PICK t \in Item : /\ item' = [item EXCEPT ![r][i] = t] /\ t.step \in {"put", "failed"} /\ t.file = f
                        /\ t.ver = 0 /\ t.key \in Key
    BY UpsertedItem
<1>4. /\ item' = [item EXCEPT ![r][i] = t] /\ Write(r, f, row) /\ item[r][i].step = "upsert" /\ tx[r] = "open"
      /\ UNCHANGED <<slug, calls, db, bucket, op, tx, pver, stray, faults>> /\ raced' \subseteq raced \cup {f}
    BY <1>3 DEF Upsert, NextUpsert, MayUpsert
<1>5. \A q \in Request : q # r => f \notin DOMAIN pend[q]
    BY <1>4, UpsertAlone DEF Upsert, MayUpsert
<1> HIDE DEF n, row
<1>6. item[r][i].ver = 0
    BY <1>4 DEF IInv, ItemsOK, ItemOK, Unput
<1>7. item'[r][i] = t
    BY <1>0, <1>3, <1>4, Types, OneItem
<1>8. ItemOK(r, i)'
    BY <1>0, <1>3, <1>4, <1>7, Types DEF ItemOK, Unput, bucket
<1>9. pver' \in [Request -> SUBSET VersionRow] /\ raced' \subseteq FileId
    BY <1>0, <1>4, Types
<1>10. t.step \in Undone /\ item[r][i].step \notin Undone
    BY <1>3, <1>4 DEF Undone
<1>11. MayWrite(r, i, t, f, row)
    BY <1>3, <1>4, <1>5, <1>10 DEF MayWrite
<1>12. /\ \A q \in Request : pver[q] \subseteq pver'[q]
       /\ SavesOnly(r, t)
    BY <1>4 DEF SavesOnly
<1>13. QED
    BY <1>2, <1>3, <1>4, <1>6, <1>8, <1>9, <1>11, <1>12, ItemWrites

\* What update's read leaves its upload with: a key the cache may answer with is one.
LEMMA FoundItem ==
    ASSUME IInv, CacheOK, NEW r \in Request, FindForUpdate(r)
    PROVE  \E t \in Item :
              /\ item' = [item EXCEPT ![r][1] = t] /\ t.step \in {"rename", "put", "saved", "failed"} /\ t.ver = 0
              /\ t.step = "rename" => op[r].name # NoName
              /\ IF t.step = "failed" THEN t.file = NoFile ELSE t.file = op[r].file /\ t.key \in Key
<1> DEFINE next == IF op[r].name # NoName THEN "rename" ELSE IF op[r].content THEN "put" ELSE "saved"
           f == op[r].file
           t(k) == [step |-> next, file |-> f, key |-> k, ver |-> 0]
<1>0. 1 \in Index /\ 0 \in 0..MaxVersion /\ Typed
    BY FilesAssumption DEF IInv, Index
<1>1. item[r][1].step = "find" /\ f \in FileId
    BY <1>0 DEF FindForUpdate, IInv, OpOK
<1>2. KeysForUpdate(f) \subseteq Key
    <2>1. \A row \in Row : KeyOf(row) \in Key
        BY <1>0, Types, PathIsKey DEF KeyOf, Row
    <2>2. \A q \in Request : f \in ToldBy(q) => pend[q][f] \in Row
        BY <1>0, Types, PendingRows DEF ToldBy
    <2>3. Live(file[f]) => file[f] \in Row
        BY <1>0, <1>1, Types DEF Live
    <2>4. past[f] \subseteq Key /\ undone[f] \subseteq Key
        BY <1>1 DEF CacheOK
    <2>5. QED
        BY <2>1, <2>2, <2>3, <2>4 DEF KeysForUpdate, Keys, LiveKeys
<1>3. next \in Step /\ next \in {"rename", "put", "saved"} /\ (next = "rename" => op[r].name # NoName)
    BY DEF Step
<1>4. \/ \E k \in KeysForUpdate(f) : item' = [item EXCEPT ![r][1] = t(k)]
      \/ item' = [item EXCEPT ![r][1] = Fresh("failed")]
    BY DEF FindForUpdate
<1> HIDE DEF next
<1>5. CASE \E k \in KeysForUpdate(f) : item' = [item EXCEPT ![r][1] = t(k)]
    <2>1. PICK k \in Key : item' = [item EXCEPT ![r][1] = t(k)]
        BY <1>2, <1>5
    <2>2. t(k) \in Item /\ t(k).step = next /\ t(k).ver = 0 /\ t(k).file = f /\ t(k).key = k
        BY <1>0, <1>1, <1>3 DEF Item
    <2> HIDE DEF t
    <2>3. QED
        BY <1>3, <2>1, <2>2
<1>6. CASE item' = [item EXCEPT ![r][1] = Fresh("failed")]
    <2>1. /\ Fresh("failed") \in Item /\ Fresh("failed").ver = 0 /\ Fresh("failed").step = "failed"
          /\ Fresh("failed").file = NoFile
        BY FreshItem DEF Step, Fresh
    <2>2. QED
        BY <1>6, <2>1
<1>7. QED
    BY <1>4, <1>5, <1>6

LEMMA FindHolds == ASSUME IInv, CacheOK, NEW r \in Request, FindForUpdate(r) PROVE IInv'
<1>0. Typed /\ 1 \in Index
    BY FilesAssumption DEF IInv, Index
<1>1. item[r][1].step = "find" /\ op[r].file \in FileId /\ op[r].name \in Name \cup {NoName} /\ item[r][1].ver = 0
    BY <1>0 DEF FindForUpdate, IInv, OpOK, ItemsOK, ItemOK, Unput
<1>2. PICK t \in Item : /\ item' = [item EXCEPT ![r][1] = t]
                        /\ t.step \in {"rename", "put", "saved", "failed"} /\ t.ver = 0
                        /\ t.step = "rename" => op[r].name # NoName
                        /\ t.step \in {"rename", "put"} => t.file \in FileId /\ t.key \in Key
    BY <1>1, FoundItem
<1>3. UNCHANGED <<slug, calls, db, bucket, op, tx, pend, pver, history, faults>>
    BY DEF FindForUpdate
<1>4. item'[r][1] = t
    BY <1>0, <1>2, Types, OneItem
<1>5. ItemOK(r, 1)'
    BY <1>0, <1>2, <1>3, <1>4, Types DEF ItemOK, Unput, bucket
<1>6. item[r][1].step \notin Undone
    BY <1>1 DEF Undone
<1>7. QED
    BY <1>0, <1>1, <1>2, <1>3, <1>5, <1>6, Types, ItemAlone DEF db, bucket, history

LEMMA RenameHolds == ASSUME IInv, NEW r \in Request, Rename(r) PROVE IInv'
<1> DEFINE f == op[r].file
           n == op[r].name
<1>0. Typed /\ 1 \in Index
    BY FilesAssumption DEF IInv, Index
<1>1. item[r][1].step = "rename" /\ f \in FileId /\ n \in Name /\ item[r][1].ver = 0
    BY <1>0 DEF Rename, IInv, OpOK, ItemsOK, ItemOK, Unput, MayRename
<1>2. item[r][1] \in Item /\ item[r][1].file \in FileId /\ item[r][1].key \in Key
    BY <1>0, <1>1, Types DEF IInv, ItemsOK, ItemOK
<1>3. tx[r] = "open" /\ ~Waits(r) /\ UNCHANGED <<slug, calls, db, bucket, op, tx, pver, history, faults>>
    BY DEF Rename, MayRename
<1>4. item[r][1].step \notin Undone
    BY <1>1 DEF Undone
<1>5. CASE file[f] # NoFile /\ Named(r, n) \subseteq {f}
    <2> DEFINE s == IF op[r].content THEN "put" ELSE "saved"
               t == [item[r][1] EXCEPT !.step = s]
               row == [file[f] EXCEPT !.name = n]
    <2>1. Write(r, f, row) /\ Move(r, 1, s)
        BY <1>5 DEF Rename
    <2>2. s \in Step /\ s \in {"put", "saved"}
        BY DEF Step
    <2>3. file[f] \in Row
        BY <1>0, <1>1, <1>5, Types
    <2>4. row \in Row /\ row.last = file[f].last
        BY <1>1, <2>3 DEF Row
    <2>5. item' = [item EXCEPT ![r][1] = t]
        BY <1>0, <2>1, <2>2, Types, Moved
    <2> HIDE DEF s
    <2>6. t \in Item /\ t.step = s /\ t.file = item[r][1].file /\ t.key = item[r][1].key /\ t.ver = item[r][1].ver
        BY <1>2, <2>2, MovedItem
    <2> HIDE DEF t, row
    <2>7. item'[r][1] = t
        BY <1>0, <2>5, <2>6, Types, OneItem
    <2>8. ItemOK(r, 1)'
        BY <1>0, <1>1, <1>2, <1>3, <2>2, <2>6, <2>7, Types DEF ItemOK, Unput, bucket
    <2>9. \A q \in Request : q # r => f \notin DOMAIN pend[q]
        <3> SUFFICES ASSUME NEW q \in Request, q # r, f \in DOMAIN pend[q] PROVE FALSE
            OBVIOUS
        <3>1. WaitsFor(r, q)
            BY <1>0, <1>1, <1>3 DEF WaitsFor, Holds
        <3>2. QED
            BY <1>3, <3>1 DEF Waits
    <2>10. \E v \in versions : v.file = f /\ v.id = row.last
        BY <1>1, <1>5, <2>4 DEF IInv, ContentOK
    <2>11. MayWrite(r, 1, t, f, row)
        BY <1>3, <1>4, <2>1, <2>9, <2>10 DEF MayWrite
    <2>12. pver' \in [Request -> SUBSET VersionRow] /\ raced' \subseteq FileId /\ UNCHANGED stray
        BY <1>0, <1>3, Types DEF history
    <2>13. /\ \A q \in Request : pver[q] \subseteq pver'[q]
           /\ SavesOnly(r, t)
        BY <1>3 DEF SavesOnly
    <2>14. item[r][1].step \notin {"none", "saved"} /\ t.step \notin {"none", "upsert", "find", "rename"}
        BY <1>1, <2>2, <2>6
    <2>15. QED
        BY <1>0, <1>1, <1>3, <2>4, <2>5, <2>6, <2>8, <2>11, <2>12, <2>13, <2>14, ItemWrites
<1>6. CASE ~(file[f] # NoFile /\ Named(r, n) \subseteq {f})
    <2> DEFINE t == [item[r][1] EXCEPT !.step = "failed"]
    <2>1. Move(r, 1, "failed") /\ UNCHANGED pend
        BY <1>6 DEF Rename
    <2>2. "failed" \in Step
        BY DEF Step
    <2>3. item' = [item EXCEPT ![r][1] = t]
        BY <1>0, <2>1, <2>2, Types, Moved
    <2>4. t \in Item /\ t.step = "failed" /\ t.file = item[r][1].file /\ t.key = item[r][1].key /\ t.ver = item[r][1].ver
        BY <1>2, <2>2, MovedItem
    <2> HIDE DEF t
    <2>5. item'[r][1] = t
        BY <1>0, <2>3, <2>4, Types, OneItem
    <2>6. ItemOK(r, 1)'
        BY <1>0, <1>1, <1>3, <2>4, <2>5, Types DEF ItemOK, Unput, bucket
    <2>7. QED
        BY <1>0, <1>1, <1>3, <1>4, <2>1, <2>3, <2>4, <2>6, Types, ItemAlone DEF db, bucket, history
<1>7. QED
    BY <1>5, <1>6

LEMMA PutHolds == ASSUME IInv, NEW r \in Request, NEW i \in Index, Put(r, i) PROVE IInv'
<1> DEFINE t == [item[r][i] EXCEPT !.step = "head", !.ver = puts + 1]
<1>0. Typed
    BY DEF IInv
<1>1. item[r][i].step = "put" /\ item[r][i].ver = 0 /\ item[r][i].file \in FileId /\ item[r][i].key \in Key
    BY DEF Put, IInv, ItemsOK, ItemOK, Unput, MayPut
<1>2. /\ item' = [item EXCEPT ![r][i] = t] /\ puts' = puts + 1
      /\ objects' = [objects EXCEPT ![puts + 1] = item[r][i].key]
      /\ UNCHANGED <<slug, calls, db, op, tx, pend, pver, history, faults>>
    BY DEF Put
<1>3. puts + 1 \in Version /\ puts + 1 \in 0..MaxVersion /\ puts + 1 # 0 /\ puts \in Nat
    BY <1>0, Types, FilesAssumption DEF Put, Version, MayPut
<1>4. item[r][i] \in Item
    BY <1>0, Types
<1>5. t \in Item /\ t.step = "head" /\ t.ver = puts + 1 /\ t.file = item[r][i].file /\ t.key = item[r][i].key
    BY <1>3, <1>4 DEF Item, Step
<1> HIDE DEF t
<1>6. /\ objects' \in [Version -> Key \cup {NoKey}] /\ objects'[puts + 1] = item[r][i].key
      /\ \A v \in Version : v # puts + 1 => objects'[v] = objects[v]
    BY <1>0, <1>1, <1>2, <1>3, Types
<1>7. item'[r][i] = t
    BY <1>0, <1>2, <1>5, Types, OneItem
<1>8. ItemOK(r, i)'
    <2>1. objects'[t.ver] # NoKey
        BY <1>1, <1>5, <1>6, KeyNotNoKey
    <2>2. t.file \in FileId /\ t.key \in Key /\ t.ver # 0 /\ t.ver <= puts'
        BY <1>1, <1>2, <1>3, <1>5
    <2>3. QED
        BY <1>5, <1>7, <2>1, <2>2 DEF ItemOK, Unput
<1>9. Typed'
    <2>1. item' \in [Request -> [Index -> Item]]
        BY <1>0, <1>2, <1>5, Types, OneItem
    <2>2. UNCHANGED <<file, versions, raced, stray>> /\ puts' \in 0..MaxVersion
        BY <1>2, <1>3 DEF db, history
    <2>3. QED
        BY <1>0, <1>2, <1>6, <2>1, <2>2, Types, TypedItem
<1>10. OpOK'
    BY <1>1, <1>2, <1>5, OpKept
<1>11. ItemsOK'
    BY <1>1, <1>2, <1>3, <1>5, <1>6, <1>8, OthersKeep DEF history
<1>12. OwnVersions'
    BY <1>2, <1>5, OwnKept
<1>13. VersionsOK'
    <2>1. \A v \in Version : objects'[v] # NoKey => objects[v] # NoKey \/ v <= puts'
        BY <1>2, <1>3, <1>6 DEF Version
    <2>2. UNCHANGED <<versions, tx>> /\ puts' \in {puts, puts + 1} /\ item[r][i].step # "saved"
        BY <1>1, <1>2 DEF db
    <2>3. SavesOnly(r, t)
        BY <1>2 DEF SavesOnly
    <2>4. QED
        BY <1>2, <1>5, <1>6, <2>1, <2>2, <2>3, VersionsKept
<1>14. PendOK'
    <2>1. t.file = item[r][i].file /\ t.step \in Undone
        BY <1>5 DEF Undone
    <2>2. UNCHANGED <<tx, pend, versions, pver>>
        BY <1>2 DEF db
    <2>3. QED
        BY <1>2, <1>5, <2>1, <2>2, PendKept
<1>15. ContentOK'
    BY <1>2 DEF IInv, ContentOK, db
<1>16. QED
    BY <1>9, <1>10, <1>11, <1>12, <1>13, <1>14, <1>15 DEF IInv

LEMMA PutFailsHolds == ASSUME IInv, NEW r \in Request, NEW i \in Index, PutFails(r, i) PROVE IInv'
<1> DEFINE t == [item[r][i] EXCEPT !.step = "failed"]
<1>0. Typed
    BY DEF IInv
<1>1. /\ item[r][i].step = "put" /\ item[r][i].ver = 0 /\ item[r][i] \in Item
      /\ item[r][i].file \in FileId /\ item[r][i].key \in Key
    <2>1. item[r][i].step = "put" /\ ItemOK(r, i)
        BY DEF PutFails, MayPut, IInv, ItemsOK
    <2>2. item[r][i] \in Item
        BY <1>0, Types
    <2>3. QED
        BY <2>1, <2>2 DEF ItemOK, Unput
<1>2. "failed" \in Step /\ Move(r, i, "failed") /\ Fault /\ puts' = puts + 1 /\ puts < MaxVersion
      /\ UNCHANGED <<slug, calls, db, op, tx, pend, pver, raced>>
    BY DEF PutFails, Step, MayPut
<1>3. item' = [item EXCEPT ![r][i] = t]
    BY <1>0, <1>2, Types, Moved
<1>4. t \in Item /\ t.step = "failed" /\ t.file = item[r][i].file /\ t.ver = item[r][i].ver
    BY <1>1, <1>2, MovedItem
<1> HIDE DEF t
<1>5. item'[r][i] = t
    BY <1>0, <1>3, <1>4, Types, OneItem
<1>6. puts' \in 0..MaxVersion /\ puts' \in {puts, puts + 1} /\ puts + 1 \in Version /\ puts \in Nat
    BY <1>0, <1>2, Types, FilesAssumption DEF Version
<1>7. ItemOK(r, i)'
    BY <1>1, <1>4, <1>5, <1>6 DEF ItemOK, Unput
<1>8. t.step \in Undone
    BY <1>4 DEF Undone
<1>10. /\ objects' \in [Version -> Key \cup {NoKey}] /\ stray' \subseteq Version /\ stray \subseteq stray'
       /\ \A v \in Version : v # puts + 1 => objects'[v] = objects[v]
    BY <1>0, <1>1, <1>6, Types DEF PutFails
<1>11. \A v \in Version : objects'[v] # NoKey => objects[v] # NoKey \/ v <= puts'
    BY <1>2, <1>6, <1>10
<1>9. QED
    BY <1>0, <1>1, <1>2, <1>3, <1>4, <1>6, <1>7, <1>8, <1>10, <1>11, ItemAlone DEF db

\* A row an upload may save is nobody else's, and there.
LEMMA SaveAlone ==
    ASSUME IInv, NEW r \in Request, NEW i \in Index, MaySave(r, i)
    PROVE  /\ item[r][i].file \in FileId /\ Seen(r, item[r][i].file) \in Row
           /\ \A q \in Request : q # r => item[r][i].file \notin DOMAIN pend[q]
<1> DEFINE f == item[r][i].file
<1>1. f \in FileId
    BY DEF MaySave, IInv, ItemsOK, ItemOK
<1>2. Seen(r, f) \in Row
    BY <1>1, SeenRows DEF MaySave, Readable, IInv
<1>3. ASSUME NEW q \in Request, q # r, f \in DOMAIN pend[q] PROVE FALSE
    <2>1. WaitsFor(r, q)
        BY <1>3 DEF MaySave, WaitsFor, Holds
    <2>2. QED
        BY <2>1 DEF MaySave, Waits
<1>4. QED
    BY <1>1, <1>2, <1>3

LEMMA SaveHolds == ASSUME IInv, NEW r \in Request, NEW i \in Index, Save(r, i) PROVE IInv'
<1> DEFINE f == item[r][i].file
           t == [item[r][i] EXCEPT !.step = "saved"]
           row == [Seen(r, f) EXCEPT !.last = item[r][i].ver]
<1>0. Typed
    BY DEF IInv
<1>1. /\ MaySave(r, i) /\ Write(r, f, row) /\ Move(r, i, "saved") /\ "saved" \in Step
      /\ pver' = [pver EXCEPT ![r] = @ \cup {NewVersion(r, i)}]
      /\ UNCHANGED <<slug, calls, db, bucket, op, tx, history, faults>>
    BY DEF Save, Step
<1>2. /\ item[r][i].step = "head" /\ tx[r] = "open" /\ item[r][i] \in Item /\ item[r][i].ver # 0
      /\ item[r][i].ver <= puts /\ objects[item[r][i].ver] # NoKey
    BY <1>0, <1>1, Types DEF MaySave, IInv, ItemsOK, ItemOK
<1>3. f \in FileId /\ Seen(r, f) \in Row /\ \A q \in Request : q # r => f \notin DOMAIN pend[q]
    BY <1>1, SaveAlone
<1>4. item[r][i].ver \in Version /\ item[r][i].ver \in 0..MaxVersion
    BY <1>2, FilesAssumption DEF Item, Version
<1>5. row \in Row /\ row.last = item[r][i].ver
    BY <1>3, <1>4 DEF Row
<1>6. item' = [item EXCEPT ![r][i] = t]
    BY <1>0, <1>1, Types, Moved
<1>7. t \in Item /\ t.step = "saved" /\ t.file = f /\ t.ver = item[r][i].ver
    BY <1>1, <1>2, MovedItem
<1> HIDE DEF t, row
<1>8. NewVersion(r, i) \in VersionRow /\ NewVersion(r, i) = [id |-> t.ver, file |-> t.file]
    BY <1>3, <1>4, <1>7 DEF NewVersion, VersionRow
<1>9. /\ pver' \in [Request -> SUBSET VersionRow] /\ NewVersion(r, i) \in pver'[r]
      /\ \A q \in Request : pver[q] \subseteq pver'[q]
      /\ \A q \in Request : \A v \in pver'[q] : v \in pver[q] \/ (q = r /\ v = NewVersion(r, i))
    BY <1>0, <1>1, <1>8, Types
<1>10. item'[r][i] = t
    BY <1>0, <1>6, <1>7, Types, OneItem
<1>11. ItemOK(r, i)'
    <2>1. tx'[r] = "open" /\ [id |-> t.ver, file |-> t.file] \in pver'[r]
        BY <1>1, <1>2, <1>8, <1>9
    <2>2. objects'[t.ver] # NoKey /\ t.ver <= puts' /\ t.ver # 0
        BY <1>1, <1>2, <1>7 DEF bucket
    <2>3. QED
        BY <1>7, <1>10, <2>1, <2>2 DEF ItemOK, Unput
<1>12. MayWrite(r, i, t, f, row)
    <2>1. NewVersion(r, i).file = f /\ NewVersion(r, i).id = row.last
        BY <1>5 DEF NewVersion
    <2>2. \E v \in versions \cup pver'[r] : v.file = f /\ v.id = row.last
        BY <1>9, <2>1
    <2>3. QED
        BY <1>1, <1>2, <1>3, <2>2 DEF MayWrite
<1>13. SavesOnly(r, t)
    BY <1>2, <1>7, <1>8, <1>9 DEF SavesOnly
<1>14. raced' \subseteq FileId /\ UNCHANGED stray
    BY <1>0, <1>1, Types DEF history
<1>15. item[r][i].step \notin {"none", "saved"} /\ t.step \notin {"none", "upsert", "find", "rename"}
    BY <1>2, <1>7
<1>16. UNCHANGED <<slug, calls, db, bucket, op, tx, stray>> /\ UNCHANGED faults
    BY <1>1, <1>14
<1>17. QED
    BY <1>3, <1>5, <1>6, <1>7, <1>9, <1>11, <1>12, <1>13, <1>14, <1>15, <1>16, ItemWrites

LEMMA SaveFailsHolds == ASSUME IInv, NEW r \in Request, NEW i \in Index, SaveFails(r, i) PROVE IInv'
<1> DEFINE f == item[r][i].file
           t == [item[r][i] EXCEPT !.step = "cleanup"]
<1>0. Typed
    BY DEF IInv
<1>1. /\ item[r][i].step = "head" /\ item[r][i] \in Item /\ item[r][i].ver # 0 /\ f \in FileId
      /\ item[r][i].key \in Key /\ item[r][i].ver <= puts
    BY <1>0, Types DEF SaveFails, IInv, ItemsOK, ItemOK
<1>2. "cleanup" \in Step /\ Move(r, i, "cleanup") /\ UNCHANGED <<slug, calls, db, bucket, op, tx, pver, history>>
    BY DEF SaveFails, Step
<1>3. item' = [item EXCEPT ![r][i] = t]
    BY <1>0, <1>2, Types, Moved
<1>4. t \in Item /\ t.step = "cleanup" /\ t.file = f /\ t.key = item[r][i].key /\ t.ver = item[r][i].ver
    BY <1>1, <1>2, MovedItem
<1> HIDE DEF t
<1>5. item'[r][i] = t
    BY <1>0, <1>3, <1>4, Types, OneItem
<1>6. ItemOK(r, i)'
    BY <1>1, <1>2, <1>4, <1>5 DEF ItemOK, Unput, bucket
<1>7. t.step \in Undone /\ t.file = item[r][i].file
    BY <1>4 DEF Undone
<1>8. CASE UNCHANGED pend /\ (Fault \/ UNCHANGED faults)
    BY <1>0, <1>1, <1>2, <1>3, <1>4, <1>6, <1>7, <1>8, Types, ItemAlone DEF db, bucket, history
<1>9. CASE MaySave(r, i) /\ Fault /\ Write(r, f, Seen(r, f))
    <2>1. Seen(r, f) \in Row /\ \A q \in Request : q # r => f \notin DOMAIN pend[q]
        BY <1>9, SaveAlone
    <2>2. MayWrite(r, i, t, f, Seen(r, f))
        BY <1>7, <1>9, <2>1 DEF MayWrite, MaySave
    <2>3. /\ pver' \in [Request -> SUBSET VersionRow] /\ raced' \subseteq FileId
          /\ \A q \in Request : pver[q] \subseteq pver'[q]
          /\ SavesOnly(r, t)
        BY <1>0, <1>2, Types DEF history, SavesOnly
    <2>4. UNCHANGED <<slug, calls, db, bucket, op, tx, stray>>
        BY <1>2 DEF history
    <2>5. item[r][i].step \notin {"none", "saved"} /\ t.step \notin {"none", "upsert", "find", "rename"}
        BY <1>1, <1>4
    <2>6. QED
        BY <1>1, <1>3, <1>4, <1>6, <1>9, <2>1, <2>2, <2>3, <2>4, <2>5, ItemWrites
<1>10. QED
    BY <1>8, <1>9 DEF SaveFails

LEMMA CleanupHolds == ASSUME IInv, NEW r \in Request, NEW i \in Index, Cleanup(r, i) PROVE IInv'
<1> DEFINE t == [item[r][i] EXCEPT !.step = "drop"]
           v == item[r][i].ver
<1>0. Typed
    BY DEF IInv
<1>1. /\ item[r][i].step = "cleanup" /\ item[r][i] \in Item /\ v # 0 /\ item[r][i].file \in FileId
      /\ item[r][i].key \in Key /\ v <= puts
    BY <1>0, Types DEF Cleanup, IInv, ItemsOK, ItemOK
<1>2. "drop" \in Step /\ Move(r, i, "drop") /\ UNCHANGED <<slug, calls, db, puts, op, tx, pend, pver, raced>>
    BY DEF Cleanup, Step
<1>3. item' = [item EXCEPT ![r][i] = t]
    BY <1>0, <1>2, Types, Moved
<1>4. t \in Item /\ t.step = "drop" /\ t.file = item[r][i].file /\ t.key = item[r][i].key /\ t.ver = v
    BY <1>1, <1>2, MovedItem
<1>5. v \in Version
    BY <1>1, FilesAssumption DEF Item, Version
<1> HIDE DEF t
<1>6. item'[r][i] = t
    BY <1>0, <1>3, <1>4, Types, OneItem
<1>7. /\ objects' \in [Version -> Key \cup {NoKey}] /\ stray \subseteq stray' /\ stray' \subseteq Version
      /\ Fault \/ UNCHANGED faults
      /\ \A w \in Version : w # v => objects'[w] = objects[w]
      /\ \A w \in Version : objects'[w] # NoKey => objects[w] # NoKey
      /\ objects'[v] = NoKey \/ v \in stray'
    BY <1>0, <1>5, Types DEF Cleanup
<1>8. ItemOK(r, i)'
    BY <1>1, <1>2, <1>4, <1>6, <1>7 DEF ItemOK, Unput
<1>9. t.step \in Undone
    BY <1>4 DEF Undone
<1>10. QED
    BY <1>0, <1>1, <1>2, <1>3, <1>4, <1>7, <1>8, <1>9, Types, ItemAlone DEF db

\* The row a failed upload would delete has versions: nothing happens.
LEMMA NothingDropped ==
    ASSUME IInv, NEW f \in FileId, file' = [file EXCEPT ![f] = Dropped(f)]
    PROVE  file' = file
<1>1. Dropped(f) = file[f]
    BY DEF Dropped, IInv, ContentOK
<1>2. file \in [FileId -> Row \cup {NoFile}]
    BY Types DEF IInv
<1>3. QED
    BY <1>1, <1>2

LEMMA DropHolds == ASSUME IInv, NEW r \in Request, NEW i \in Index, Drop(r, i) PROVE IInv'
<1> DEFINE t == [item[r][i] EXCEPT !.step = "failed"]
<1>0. Typed
    BY DEF IInv
<1>1. /\ item[r][i].step = "drop" /\ item[r][i] \in Item /\ item[r][i].file \in FileId /\ item[r][i].ver <= puts
      /\ item[r][i].ver # 0 => objects[item[r][i].ver] = NoKey \/ item[r][i].ver \in stray
    BY <1>0, Types DEF Drop, IInv, ItemsOK, ItemOK, MayDrop
<1>2. "failed" \in Step /\ Move(r, i, "failed") /\ UNCHANGED <<slug, calls, versions, bucket, op, tx, pend, pver, history, faults>>
    BY DEF Drop, Step
<1>3. file' = file
    BY <1>1, NothingDropped DEF Drop
<1>4. item' = [item EXCEPT ![r][i] = t]
    BY <1>0, <1>2, Types, Moved
<1>5. t \in Item /\ t.step = "failed" /\ t.file = item[r][i].file /\ t.ver = item[r][i].ver
    BY <1>1, <1>2, MovedItem
<1> HIDE DEF t
<1>6. item'[r][i] = t
    BY <1>0, <1>4, <1>5, Types, OneItem
<1>7. ItemOK(r, i)'
    BY <1>1, <1>2, <1>5, <1>6 DEF ItemOK, Unput, bucket, history
<1>8. t.step \in Undone
    BY <1>5 DEF Undone
<1>9. QED
    BY <1>0, <1>1, <1>2, <1>3, <1>4, <1>5, <1>7, <1>8, Types, ItemAlone DEF bucket, history

----------------------------------------------------------------------------
(* Requests that begin, end or are undone                                  *)

LEMMA ItemsReplaced ==
    ASSUME item \in [Request -> [Index -> Item]], NEW r \in Request, NEW its \in [Index -> Item],
           item' = [item EXCEPT ![r] = its]
    PROVE  item' \in [Request -> [Index -> Item]] /\ \A q \in Request : item'[q] = IF q = r THEN its ELSE item[q]
OBVIOUS

LEMMA TypedNext ==
    ASSUME slug' \in [Name -> Name], file' \in [FileId -> Row \cup {NoFile}], versions' \subseteq VersionRow,
           objects' \in [Version -> Key \cup {NoKey}], puts' \in 0..MaxVersion, op' \in [Request -> Operation],
           tx' \in [Request -> {"none", "open", "rolledback"}], pend' \in [Request -> Pending],
           pver' \in [Request -> SUBSET VersionRow], item' \in [Request -> [Index -> Item]],
           raced' \subseteq FileId, stray' \subseteq Version, faults' \in 0..MaxFaults, calls' \in 0..MaxCalls
    PROVE  Typed'
<1>1. \A r \in Request : DOMAIN pend'[r] \subseteq FileId /\ \A f \in DOMAIN pend'[r] : pend'[r][f] \in Row
    <2> SUFFICES ASSUME NEW r \in Request
                 PROVE  DOMAIN pend'[r] \subseteq FileId /\ \A f \in DOMAIN pend'[r] : pend'[r][f] \in Row
        OBVIOUS
    <2>1. PICK S \in SUBSET FileId : pend'[r] \in [S -> Row]
        BY DEF Pending
    <2>2. QED
        BY <2>1
<1>2. QED
    BY <1>1 DEF Typed, StoresOK

\* An idle slot has written nothing and has put nothing.
LEMMA IdleSlot ==
    ASSUME IInv, NEW r \in Request, op[r] = Idle
    PROVE  /\ tx[r] = "none" /\ DOMAIN pend[r] = {} /\ pver[r] = {}
           /\ \A i \in Index : item[r][i] = Fresh("none") /\ item[r][i].ver = 0
<1>1. tx[r] = "none" /\ \A i \in Index : item[r][i] = Fresh("none")
    BY DEF IInv, OpOK
<1>2. DOMAIN pend[r] = {}
    BY <1>1 DEF IInv, PendOK
<1>3. pver[r] = {}
    BY <1>1 DEF IInv, VersionsOK
<1>4. QED
    BY <1>1, <1>2, <1>3 DEF Fresh

LEMMA FreshItems ==
    ASSUME NEW steps \in [Index -> Step]
    PROVE  /\ [i \in Index |-> Fresh(steps[i])] \in [Index -> Item]
           /\ \A i \in Index : [j \in Index |-> Fresh(steps[j])][i].ver = 0
           /\ \A i \in Index : [j \in Index |-> Fresh(steps[j])][i].step = steps[i]
BY FreshItem

Asks(o, steps) ==
    /\ o # Idle
    /\ o.kind = "delete" => o.file \in FileId /\ \A i \in Index : steps[i] = "none"
    /\ \A i \in Index : /\ steps[i] = "upsert" => o.user \in User /\ o.names[i] \in Name
                        /\ steps[i] = "find" => o.file \in FileId /\ o.name \in Name \cup {NoName}

LEMMA BeginHolds ==
    ASSUME IInv, NEW r \in Request, NEW o \in Operation, NEW steps \in [Index -> {"none", "upsert", "find"}], NEW room,
           Begin(r, o, steps, room), Asks(o, steps), raced' \subseteq FileId
    PROVE  IInv'
<1> DEFINE its == [i \in Index |-> Fresh(steps[i])]
<1>0. Typed
    BY DEF IInv
<1>1. /\ op[r] = Idle /\ op' = [op EXCEPT ![r] = o] /\ tx' = [tx EXCEPT ![r] = "open"]
      /\ item' = [item EXCEPT ![r] = its] /\ UNCHANGED <<slug, db, bucket, pend, pver, stray, faults>>
    BY DEF Begin
<1>2. /\ tx[r] = "none" /\ DOMAIN pend[r] = {} /\ pver[r] = {}
      /\ \A i \in Index : item[r][i] = Fresh("none") /\ item[r][i].ver = 0
    BY <1>1, IdleSlot
<1>3. steps \in [Index -> Step]
    BY DEF Step
<1>4. its \in [Index -> Item] /\ \A i \in Index : its[i].ver = 0 /\ its[i].step = steps[i] /\ its[i] = Fresh(steps[i])
    BY <1>3, FreshItems
<1> HIDE DEF its
<1>5. item' \in [Request -> [Index -> Item]] /\ \A q \in Request : item'[q] = IF q = r THEN its ELSE item[q]
    BY <1>0, <1>1, <1>4, Types, ItemsReplaced
<1>6. /\ op' \in [Request -> Operation] /\ tx' \in [Request -> {"none", "open", "rolledback"}]
      /\ \A q \in Request : op'[q] = IF q = r THEN o ELSE op[q]
      /\ \A q \in Request : tx'[q] = IF q = r THEN "open" ELSE tx[q]
    BY <1>0, <1>1, Types DEF Typed, StoresOK
<1>7. Typed'
    <2>1. UNCHANGED <<slug, file, versions, objects, puts, pend, pver, stray, faults>>
        BY <1>1 DEF db, bucket
    <2>2. calls' \in 0..MaxCalls
        BY <1>0, Types, FilesAssumption DEF Begin
    <2>3. QED
        BY <1>0, <1>5, <1>6, <2>1, <2>2, Types, TypedNext
<1>8. OpOK'
    <2> SUFFICES ASSUME NEW q \in Request
                 PROVE  /\ op'[q] = Idle => tx'[q] = "none" /\ \A i \in Index : item'[q][i] = Fresh("none")
                        /\ op'[q].kind = "delete" =>
                              /\ op'[q].file \in FileId /\ DOMAIN pend'[q] = {}
                              /\ \A i \in Index : item'[q][i] = Fresh("none")
                        /\ \A i \in Index :
                              /\ item'[q][i].step = "upsert" => op'[q].user \in User /\ op'[q].names[i] \in Name
                              /\ item'[q][i].step \in {"find", "rename"} =>
                                    op'[q].file \in FileId /\ op'[q].name \in Name \cup {NoName}
                              /\ item'[q][i].step = "rename" => op'[q].name # NoName
        BY DEF OpOK
    <2>1. CASE q = r
        <3>1. op'[q] = o /\ tx'[q] = "open" /\ item'[q] = its /\ DOMAIN pend'[q] = {}
            BY <1>1, <1>2, <1>5, <1>6, <2>1
        <3>2. \A i \in Index : its[i].step = steps[i] /\ steps[i] \in {"none", "upsert", "find"}
            BY <1>4
        <3>3. op'[q] # Idle
            BY <3>1 DEF Asks
        <3>4. op'[q].kind = "delete" =>
                  /\ op'[q].file \in FileId /\ DOMAIN pend'[q] = {}
                  /\ \A i \in Index : item'[q][i] = Fresh("none")
            BY <1>4, <3>1 DEF Asks
        <3>5. \A i \in Index :
                  /\ item'[q][i].step = "upsert" => op'[q].user \in User /\ op'[q].names[i] \in Name
                  /\ item'[q][i].step \in {"find", "rename"} =>
                        op'[q].file \in FileId /\ op'[q].name \in Name \cup {NoName}
                  /\ item'[q][i].step # "rename"
            BY <3>1, <3>2 DEF Asks
        <3>6. QED
            BY <3>3, <3>4, <3>5
    <2>2. CASE q # r
        <3>1. op'[q] = op[q] /\ tx'[q] = tx[q] /\ item'[q] = item[q] /\ pend'[q] = pend[q]
            BY <1>1, <1>5, <1>6, <2>2
        <3>2. QED
            BY <3>1 DEF IInv, OpOK
    <2>3. QED
        BY <2>1, <2>2
<1>9. ItemsOK'
    <2> SUFFICES ASSUME NEW q \in Request, NEW j \in Index PROVE ItemOK(q, j)'
        BY DEF ItemsOK
    <2>1. CASE q = r
        <3>1. item'[q][j].ver = 0 /\ item'[q][j].step \in {"none", "upsert", "find"} /\ 0 <= puts'
            BY <1>0, <1>1, <1>4, <1>5, <2>1, Types DEF bucket
        <3>2. QED
            BY <3>1 DEF ItemOK, Unput
    <2>2. CASE q # r
        <3>1. ItemOK(q, j)
            BY DEF IInv, ItemsOK
        <3>2. item'[q][j] = item[q][j] /\ tx'[q] = tx[q]
            BY <1>5, <1>6, <2>2
        <3>3. UNCHANGED <<objects, puts, pver, stray>>
            BY <1>1 DEF bucket
        <3>4. QED
            BY <3>1, <3>2, <3>3 DEF ItemOK
    <2>3. QED
        BY <2>1, <2>2
<1>10. OwnVersions'
    BY <1>4, <1>5 DEF IInv, OwnVersions
<1>11. VersionsOK'
    <2>1. UNCHANGED <<versions, objects, puts, pver>> /\ \A q \in Request : pver[q] # {} => q # r
        BY <1>1, <1>2 DEF db, bucket
    <2>2. \A q \in Request, i \in Index : item'[q][i].ver \in {0, item[q][i].ver}
        BY <1>4, <1>5
    <2>3. \A v \in versions : v.id # 0
        BY <1>0, Types, FilesAssumption DEF VersionRow, Version
    <2>4. \A q \in Request : q # r => item'[q] = item[q] /\ tx'[q] = tx[q]
        BY <1>5, <1>6
    <2>5. \A q \in Request : \A v \in pver[q] :
              tx'[q] = "open" /\ \E i \in Index : item'[q][i].step = "saved" /\ item'[q][i].ver = v.id
        BY <2>1, <2>4 DEF IInv, VersionsOK
    <2>6. \A v \in versions : \A q \in Request, i \in Index : item'[q][i].ver # v.id
        BY <2>2, <2>3 DEF IInv, VersionsOK
    <2>7. QED
        BY <2>1, <2>5, <2>6 DEF IInv, VersionsOK
<1>12. PendOK'
    <2>1. UNCHANGED <<versions, pver, pend>> /\ \A q \in Request : DOMAIN pend[q] # {} => q # r
        BY <1>1, <1>2 DEF db
    <2>2. \A q \in Request : q # r => item'[q] = item[q] /\ tx'[q] = tx[q]
        BY <1>5, <1>6
    <2>3. QED
        BY <2>1, <2>2 DEF IInv, PendOK
<1>13. ContentOK'
    BY <1>1 DEF IInv, ContentOK, db
<1>14. QED
    BY <1>7, <1>8, <1>9, <1>10, <1>11, <1>12, <1>13 DEF IInv

LEMMA StartUploadHolds ==
    ASSUME IInv, NEW r \in Request, NEW u \in User, NEW names \in Names, StartUpload(r, u, names)
    PROVE  IInv'
<1> DEFINE o == [kind |-> "upload", user |-> u, names |-> names]
           steps == [i \in Index |-> IF i \in DOMAIN names THEN "upsert" ELSE "none"]
<1>1. Begin(r, o, steps, Len(names)) /\ raced' = raced
    BY DEF StartUpload
<1>2. o \in Operation /\ o.user = u /\ o.names = names /\ o.kind = "upload"
    BY DEF Operation
<1>3. steps \in [Index -> {"none", "upsert", "find"}] /\ \A i \in Index : steps[i] = "upsert" => i \in DOMAIN names
    OBVIOUS
<1>4. \A i \in Index : steps[i] \in {"none", "upsert"}
    OBVIOUS
<1>5. \A i \in DOMAIN names : names[i] \in Name
    BY DEF Names
<1>6. o # Idle
    BY <1>2 DEF Idle
<1>7. raced' \subseteq FileId
    BY <1>1, Types DEF IInv
<1> HIDE DEF o, steps
<1>8. Asks(o, steps)
    BY <1>2, <1>3, <1>4, <1>5, <1>6 DEF Asks
<1>9. QED
    BY <1>1, <1>2, <1>3, <1>7, <1>8, BeginHolds

LEMMA StartUpdateHolds ==
    ASSUME IInv, NEW r \in Request, NEW u \in User, NEW f \in FileId, NEW n \in Name \cup {NoName}, NEW c \in BOOLEAN,
           StartUpdate(r, u, f, n, c)
    PROVE  IInv'
<1> DEFINE o == [kind |-> "update", file |-> f, name |-> n, content |-> c]
           steps == [i \in Index |-> IF i = 1 THEN "find" ELSE "none"]
<1>1. Begin(r, o, steps, 1) /\ raced' = raced \cup {f}
    BY DEF StartUpdate
<1>2. o \in Operation /\ o.file = f /\ o.name = n /\ o.kind = "update"
    BY DEF Operation
<1>3. steps \in [Index -> {"none", "upsert", "find"}] /\ \A i \in Index : steps[i] \in {"none", "find"}
    OBVIOUS
<1>4. o # Idle
    BY <1>2 DEF Idle
<1>5. raced' \subseteq FileId
    BY <1>1, Types DEF IInv
<1> HIDE DEF o, steps
<1>6. Asks(o, steps)
    BY <1>2, <1>3, <1>4 DEF Asks
<1>7. QED
    BY <1>1, <1>2, <1>3, <1>5, <1>6, BeginHolds

LEMMA StartDeleteHolds ==
    ASSUME IInv, NEW r \in Request, NEW u \in User, NEW f \in FileId, StartDelete(r, u, f)
    PROVE  IInv'
<1> DEFINE o == [kind |-> "delete", file |-> f]
           steps == [i \in Index |-> "none"]
<1>1. Begin(r, o, steps, 0) /\ raced' = raced
    BY DEF StartDelete
<1>2. o \in Operation /\ o.file = f /\ o.kind = "delete"
    BY DEF Operation
<1>3. steps \in [Index -> {"none", "upsert", "find"}] /\ \A i \in Index : steps[i] = "none"
    OBVIOUS
<1>4. o # Idle
    BY <1>2 DEF Idle
<1>5. raced' \subseteq FileId
    BY <1>1, Types DEF IInv
<1> HIDE DEF o, steps
<1>6. Asks(o, steps)
    BY <1>2, <1>3, <1>4 DEF Asks
<1>7. QED
    BY <1>1, <1>2, <1>3, <1>5, <1>6, BeginHolds

\* The request's rows are committed, or it had none.
Closed(r) ==
    /\ DOMAIN pend'[r] = {} /\ pver'[r] = {}
    /\ \A q \in Request : q # r => pend'[q] = pend[q] /\ pver'[q] = pver[q]
    /\ versions \subseteq versions' /\ versions' \subseteq versions \cup pver[r]

LEMMA CloseHolds ==
    ASSUME IInv, NEW r \in Request, Close(r), Closed(r), pend' \in [Request -> Pending],
           pver' \in [Request -> SUBSET VersionRow], file' \in [FileId -> Row \cup {NoFile}], ContentOK',
           UNCHANGED <<slug, calls, bucket, history, faults>>
    PROVE  IInv'
<1> DEFINE its == [i \in Index |-> Fresh("none")]
<1>0. Typed
    BY DEF IInv
<1>1. op' = [op EXCEPT ![r] = Idle] /\ tx' = [tx EXCEPT ![r] = "none"] /\ item' = [item EXCEPT ![r] = its]
    BY DEF Close
<1>2. its \in [Index -> Item] /\ \A i \in Index : its[i].ver = 0 /\ its[i].step = "none" /\ its[i] = Fresh("none")
    BY FreshItem DEF Step
<1> HIDE DEF its
<1>3. item' \in [Request -> [Index -> Item]] /\ \A q \in Request : item'[q] = IF q = r THEN its ELSE item[q]
    BY <1>0, <1>1, <1>2, Types, ItemsReplaced
<1>4. /\ op' \in [Request -> Operation] /\ tx' \in [Request -> {"none", "open", "rolledback"}]
      /\ \A q \in Request : op'[q] = IF q = r THEN Idle ELSE op[q]
      /\ \A q \in Request : tx'[q] = IF q = r THEN "none" ELSE tx[q]
    BY <1>0, <1>1, Types DEF Typed, StoresOK, Operation
<1>5. UNCHANGED <<slug, calls, objects, puts, raced, stray, faults>>
    BY DEF bucket, history
<1>6. Typed'
    <2>1. versions' \subseteq VersionRow
        BY <1>0, Types DEF Closed
    <2>2. QED
        BY <1>0, <1>3, <1>4, <1>5, <2>1, Types, TypedNext
<1>7. \A q \in Request : q # r => op'[q] = op[q] /\ tx'[q] = tx[q] /\ item'[q] = item[q] /\ pend'[q] = pend[q] /\ pver'[q] = pver[q]
    BY <1>3, <1>4 DEF Closed
<1>8. op'[r] = Idle /\ tx'[r] = "none" /\ item'[r] = its
    BY <1>3, <1>4
<1>9. OpOK'
    <2> SUFFICES ASSUME NEW q \in Request
                 PROVE  /\ op'[q] = Idle => tx'[q] = "none" /\ \A i \in Index : item'[q][i] = Fresh("none")
                        /\ op'[q].kind = "delete" =>
                              /\ op'[q].file \in FileId /\ DOMAIN pend'[q] = {}
                              /\ \A i \in Index : item'[q][i] = Fresh("none")
                        /\ \A i \in Index :
                              /\ item'[q][i].step = "upsert" => op'[q].user \in User /\ op'[q].names[i] \in Name
                              /\ item'[q][i].step \in {"find", "rename"} =>
                                    op'[q].file \in FileId /\ op'[q].name \in Name \cup {NoName}
                              /\ item'[q][i].step = "rename" => op'[q].name # NoName
        BY DEF OpOK
    <2>1. CASE q = r
        BY <1>2, <1>8, <2>1 DEF Idle
    <2>2. CASE q # r
        BY <1>7, <2>2 DEF IInv, OpOK
    <2>3. QED
        BY <2>1, <2>2
<1>10. ItemsOK'
    <2> SUFFICES ASSUME NEW q \in Request, NEW j \in Index PROVE ItemOK(q, j)'
        BY DEF ItemsOK
    <2>1. CASE q = r
        <3>1. item'[q][j].ver = 0 /\ item'[q][j].step = "none" /\ 0 <= puts'
            BY <1>0, <1>2, <1>5, <1>8, <2>1, Types
        <3>2. QED
            BY <3>1 DEF ItemOK, Unput
    <2>2. CASE q # r
        <3>1. ItemOK(q, j)
            BY DEF IInv, ItemsOK
        <3>2. QED
            BY <1>5, <1>7, <2>2, <3>1 DEF ItemOK
    <2>3. QED
        BY <2>1, <2>2
<1>11. \A q \in Request, i \in Index : item'[q][i].ver # 0 => q # r /\ item'[q][i] = item[q][i]
    BY <1>2, <1>7, <1>8
<1>12. OwnVersions'
    BY <1>11 DEF IInv, OwnVersions
<1>13. VersionsOK'
    <2>1. \A q \in Request : \A v \in pver'[q] :
              tx'[q] = "open" /\ \E i \in Index : item'[q][i].step = "saved" /\ item'[q][i].ver = v.id
        BY <1>7 DEF IInv, VersionsOK, Closed
    <2>2. ASSUME NEW v \in versions'
          PROVE  /\ v.id <= puts' /\ objects'[v.id] # NoKey
                 /\ \A q \in Request, i \in Index : item'[q][i].ver # v.id
        <3>1. v.id \in Version /\ v.id # 0
            BY <1>6, FilesAssumption DEF Typed, StoresOK, VersionRow, Version
        <3>2. CASE v \in versions
            <4>1. v.id <= puts /\ objects[v.id] # NoKey /\ \A q \in Request, i \in Index : item[q][i].ver # v.id
                BY <3>2 DEF IInv, VersionsOK
            <4>2. QED
                BY <1>5, <1>11, <3>1, <4>1
        <3>3. CASE v \in pver[r]
            <4>1. PICK i \in Index : item[r][i].step = "saved" /\ item[r][i].ver = v.id
                BY <3>3 DEF IInv, VersionsOK
            <4>2. v.id <= puts /\ objects[v.id] # NoKey
                BY <3>1, <4>1 DEF IInv, ItemsOK, ItemOK
            <4>3. \A q \in Request, j \in Index : q # r => item[q][j].ver # v.id
                BY <3>1, <4>1 DEF IInv, OwnVersions
            <4>4. QED
                BY <1>5, <1>11, <3>1, <4>2, <4>3
        <3>4. QED
            BY <3>2, <3>3 DEF Closed
    <2>3. \A v \in Version : objects'[v] # NoKey => v <= puts'
        BY <1>5 DEF IInv, VersionsOK
    <2>4. QED
        BY <2>1, <2>2, <2>3 DEF VersionsOK
<1>14. PendOK'
    <2>1. \A q, p \in Request : q # p => DOMAIN pend'[q] \cap DOMAIN pend'[p] = {}
        BY <1>7 DEF IInv, PendOK, Closed
    <2>2. \A q \in Request : \A f \in DOMAIN pend'[q] : q # r
        BY DEF Closed
    <2>3. versions \subseteq versions'
        BY DEF Closed
    <2>4. QED
        BY <1>7, <2>1, <2>2, <2>3 DEF IInv, PendOK
<1>15. QED
    BY <1>6, <1>9, <1>10, <1>12, <1>13, <1>14 DEF IInv

LEMMA DeleteRowHolds == ASSUME IInv, NEW r \in Request, DeleteRow(r) PROVE IInv'
<1> DEFINE f == op[r].file
           row == IF file[f] = NoFile THEN NoFile ELSE [file[f] EXCEPT !.deleted = TRUE]
<1>0. Typed
    BY DEF IInv
<1>1. /\ op[r].kind = "delete" /\ file' = [file EXCEPT ![f] = row] /\ Close(r)
      /\ UNCHANGED <<slug, calls, versions, bucket, pend, pver, history, faults>>
    BY DEF DeleteRow, MayDelete
<1>2. f \in FileId /\ DOMAIN pend[r] = {} /\ \A i \in Index : item[r][i] = Fresh("none")
    BY <1>1 DEF IInv, OpOK
<1>3. pver[r] = {}
    BY <1>2 DEF IInv, VersionsOK, Fresh
<1>4. row \in Row \cup {NoFile} /\ (row # NoFile => file[f] # NoFile /\ row.last = file[f].last)
    <2>1. CASE file[f] = NoFile
        BY <2>1
    <2>2. CASE file[f] # NoFile
        <3>1. file[f] \in Row
            BY <1>0, <1>2, <2>2, Types
        <3>2. QED
            BY <2>2, <3>1 DEF Row
    <2>3. QED
        BY <2>1, <2>2
<1> HIDE DEF row
<1>5. file' \in [FileId -> Row \cup {NoFile}] /\ \A g \in FileId : file'[g] = IF g = f THEN row ELSE file[g]
    BY <1>0, <1>1, <1>2, <1>4, Types
<1>6. ContentOK'
    BY <1>1, <1>4, <1>5 DEF IInv, ContentOK
<1>7. Closed(r)
    BY <1>1, <1>2, <1>3 DEF Closed
<1>8. pend' \in [Request -> Pending] /\ pver' \in [Request -> SUBSET VersionRow]
    BY <1>0, <1>1, Types
<1>9. QED
    BY <1>1, <1>5, <1>6, <1>7, <1>8, CloseHolds

LEMMA EndHolds == ASSUME IInv, NEW r \in Request, End(r) PROVE IInv'
<1>0. Typed
    BY DEF IInv
<1>1. tx[r] = "rolledback" /\ Close(r) /\ UNCHANGED <<slug, calls, db, bucket, pend, pver, history, faults>>
    BY DEF End, MayEnd
<1>2. DOMAIN pend[r] = {} /\ pver[r] = {}
    BY <1>1 DEF IInv, PendOK, VersionsOK
<1>3. Closed(r)
    BY <1>1, <1>2 DEF Closed, db
<1>4. file' \in [FileId -> Row \cup {NoFile}] /\ pend' \in [Request -> Pending] /\ pver' \in [Request -> SUBSET VersionRow]
    BY <1>0, <1>1, Types DEF db
<1>5. ContentOK'
    BY <1>1 DEF IInv, ContentOK, db
<1>6. QED
    BY <1>1, <1>3, <1>4, <1>5, CloseHolds

\* What a commit and a rollback leave of a request's rows.
LEMMA RowsForgotten ==
    ASSUME Typed, NEW r \in Request, pend' = [pend EXCEPT ![r] = <<>>], pver' = [pver EXCEPT ![r] = {}]
    PROVE  /\ pend' \in [Request -> Pending] /\ pver' \in [Request -> SUBSET VersionRow]
           /\ DOMAIN pend'[r] = {} /\ pver'[r] = {}
           /\ \A q \in Request : q # r => pend'[q] = pend[q] /\ pver'[q] = pver[q]
BY NoRows, Types

LEMMA CommitHolds == ASSUME IInv, NEW r \in Request, Commit(r) PROVE IInv'
<1>0. Typed
    BY DEF IInv
<1>1. /\ tx[r] = "open" /\ Close(r) /\ \A i \in Index : item[r][i].step \in {"none", "saved"}
      /\ file' = [f \in FileId |-> Seen(r, f)] /\ versions' = versions \cup pver[r]
      /\ pend' = [pend EXCEPT ![r] = <<>>] /\ pver' = [pver EXCEPT ![r] = {}]
      /\ UNCHANGED <<slug, calls, bucket, history, faults>>
    BY DEF Commit, MayCommit
<1>2. /\ pend' \in [Request -> Pending] /\ pver' \in [Request -> SUBSET VersionRow]
      /\ DOMAIN pend'[r] = {} /\ pver'[r] = {}
      /\ \A q \in Request : q # r => pend'[q] = pend[q] /\ pver'[q] = pver[q]
    BY <1>0, <1>1, RowsForgotten
<1>3. Closed(r)
    BY <1>1, <1>2 DEF Closed
<1>4. file' \in [FileId -> Row \cup {NoFile}]
    BY <1>0, <1>1, SeenRows
<1>5. ContentOK'
    <2> SUFFICES ASSUME NEW f \in FileId, file'[f] # NoFile
                 PROVE  \E v \in versions' : v.file = f /\ v.id = file'[f].last
        BY DEF ContentOK
    <2>1. file'[f] = Seen(r, f)
        BY <1>1
    <2>2. CASE f \in DOMAIN pend[r]
        <3>1. file'[f] = pend[r][f]
            BY <2>1, <2>2 DEF Seen
        <3>2. \A i \in Index : item[r][i].step \notin Undone
            BY <1>1 DEF Undone
        <3>3. \E v \in versions \cup pver[r] : v.file = f /\ v.id = pend[r][f].last
            BY <2>2, <3>2 DEF IInv, PendOK
        <3>4. QED
            BY <1>1, <3>1, <3>3
    <2>3. CASE f \notin DOMAIN pend[r]
        BY <1>1, <2>1, <2>3 DEF Seen, IInv, ContentOK
    <2>4. QED
        BY <2>2, <2>3
<1>6. QED
    BY <1>1, <1>2, <1>3, <1>4, <1>5, CloseHolds

\* A transaction undone: its uploads go on, or have failed.
LEMMA UndoHolds ==
    ASSUME IInv, NEW r \in Request, tx[r] = "open", Undo(r), NEW its \in [Index -> Item], item' = [item EXCEPT ![r] = its],
           \A i \in Index : \/ its[i] = item[r][i]
                            \/ its[i] = Fresh("failed") /\ item[r][i].step # "none"
    PROVE  IInv'
<1>0. Typed
    BY DEF IInv
<1>1. /\ pend' = [pend EXCEPT ![r] = <<>>] /\ pver' = [pver EXCEPT ![r] = {}]
      /\ tx' = [tx EXCEPT ![r] = "rolledback"] /\ stray' = stray \cup {v.id : v \in pver[r]}
      /\ UNCHANGED <<slug, calls, file, versions, objects, puts, op, raced, faults>>
    BY DEF Undo, db, bucket
<1>2. /\ pend' \in [Request -> Pending] /\ pver' \in [Request -> SUBSET VersionRow]
      /\ DOMAIN pend'[r] = {} /\ pver'[r] = {}
      /\ \A q \in Request : q # r => pend'[q] = pend[q] /\ pver'[q] = pver[q]
    BY <1>0, <1>1, RowsForgotten
<1>3. item' \in [Request -> [Index -> Item]] /\ \A q \in Request : item'[q] = IF q = r THEN its ELSE item[q]
    BY <1>0, Types, ItemsReplaced
<1>4. tx' \in [Request -> {"none", "open", "rolledback"}] /\ \A q \in Request : tx'[q] = IF q = r THEN "rolledback" ELSE tx[q]
    BY <1>0, <1>1, Types
<1>5. "failed" \in Step /\ Fresh("failed").ver = 0 /\ Fresh("failed").step = "failed"
    BY DEF Step, Fresh
<1>6. Typed'
    <2>1. pver[r] \subseteq VersionRow
        BY <1>0, Types
    <2>2. stray' \subseteq Version
        BY <1>0, <1>1, <2>1, Types DEF VersionRow
    <2>3. op' \in [Request -> Operation]
        BY <1>0, <1>1 DEF Typed, StoresOK
    <2>4. QED
        BY <1>0, <1>1, <1>2, <1>3, <1>4, <2>2, <2>3, Types, TypedNext
<1>7. \A q \in Request : q # r => tx'[q] = tx[q] /\ item'[q] = item[q] /\ pend'[q] = pend[q] /\ pver'[q] = pver[q]
    BY <1>2, <1>3, <1>4
<1>8. tx'[r] = "rolledback" /\ item'[r] = its
    BY <1>3, <1>4
<1>9. OpOK'
    <2>1. op[r] # Idle
        BY DEF IInv, OpOK
    <2> SUFFICES ASSUME NEW q \in Request
                 PROVE  /\ op'[q] = Idle => tx'[q] = "none" /\ \A i \in Index : item'[q][i] = Fresh("none")
                        /\ op'[q].kind = "delete" =>
                              /\ op'[q].file \in FileId /\ DOMAIN pend'[q] = {}
                              /\ \A i \in Index : item'[q][i] = Fresh("none")
                        /\ \A i \in Index :
                              /\ item'[q][i].step = "upsert" => op'[q].user \in User /\ op'[q].names[i] \in Name
                              /\ item'[q][i].step \in {"find", "rename"} =>
                                    op'[q].file \in FileId /\ op'[q].name \in Name \cup {NoName}
                              /\ item'[q][i].step = "rename" => op'[q].name # NoName
        BY DEF OpOK
    <2>2. op'[q] = op[q]
        BY <1>1
    <2>3. CASE q = r
        <3>1. op[r].kind = "delete" => op[r].file \in FileId /\ \A i \in Index : its[i] = Fresh("none")
            BY DEF IInv, OpOK, Fresh
        <3>2. \A i \in Index : its[i].step \in {"upsert", "find", "rename"} => its[i] = item[r][i]
            BY <1>5
        <3>3. \A i \in Index :
                  /\ its[i].step = "upsert" => op[r].user \in User /\ op[r].names[i] \in Name
                  /\ its[i].step \in {"find", "rename"} => op[r].file \in FileId /\ op[r].name \in Name \cup {NoName}
                  /\ its[i].step = "rename" => op[r].name # NoName
            BY <3>2 DEF IInv, OpOK
        <3>4. QED
            BY <1>2, <1>8, <2>1, <2>2, <2>3, <3>1, <3>3
    <2>4. CASE q # r
        BY <1>7, <2>2, <2>4 DEF IInv, OpOK
    <2>5. QED
        BY <2>3, <2>4
<1>10. ItemsOK'
    <2> SUFFICES ASSUME NEW q \in Request, NEW j \in Index PROVE ItemOK(q, j)'
        BY DEF ItemsOK
    <2>1. ItemOK(q, j)
        BY DEF IInv, ItemsOK
    <2>2. CASE q = r /\ its[j] = item[r][j]
        <3>1. item'[q][j] = item[q][j] /\ tx[q] = "open" /\ tx'[q] = "rolledback" /\ UNCHANGED <<objects, puts>> /\ stray \subseteq stray'
            BY <1>1, <1>8, <2>2
        <3>2. [id |-> item[q][j].ver, file |-> item[q][j].file] \in pver[q] => item[q][j].ver \in stray'
            BY <1>1, <2>2
        <3>3. QED
            BY <2>1, <3>1, <3>2 DEF ItemOK
    <2>3. CASE q = r /\ its[j] = Fresh("failed")
        <3>1. item'[q][j].ver = 0 /\ item'[q][j].step = "failed" /\ 0 <= puts'
            BY <1>0, <1>1, <1>5, <1>8, <2>3, Types
        <3>2. QED
            BY <3>1 DEF ItemOK, Unput
    <2>4. CASE q # r
        <3>1. item'[q][j] = item[q][j] /\ tx'[q] = tx[q] /\ pver'[q] = pver[q] /\ UNCHANGED <<objects, puts>> /\ stray \subseteq stray'
            BY <1>1, <1>7, <2>4
        <3>2. QED
            BY <2>1, <3>1 DEF ItemOK
    <2>5. QED
        BY <2>2, <2>3, <2>4
<1>11. \A q \in Request, i \in Index : item'[q][i].ver \in {0, item[q][i].ver}
    BY <1>3, <1>5
<1>12. OwnVersions'
    BY <1>11 DEF IInv, OwnVersions
<1>13. VersionsOK'
    <2>1. \A q \in Request : \A v \in pver'[q] :
              tx'[q] = "open" /\ \E i \in Index : item'[q][i].step = "saved" /\ item'[q][i].ver = v.id
        BY <1>2, <1>7 DEF IInv, VersionsOK
    <2>2. \A v \in versions : v.id # 0
        BY <1>0, Types, FilesAssumption DEF VersionRow, Version
    <2>3. \A v \in versions : \A q \in Request, i \in Index : item'[q][i].ver # v.id
        BY <1>11, <2>2 DEF IInv, VersionsOK
    <2>4. QED
        BY <1>1, <2>1, <2>3 DEF IInv, VersionsOK
<1>14. PendOK'
    <2>1. \A q, p \in Request : q # p => DOMAIN pend'[q] \cap DOMAIN pend'[p] = {}
        BY <1>2 DEF IInv, PendOK
    <2>2. \A q \in Request : \A f \in DOMAIN pend'[q] : q # r
        BY <1>2
    <2>3. QED
        BY <1>1, <1>7, <2>1, <2>2 DEF IInv, PendOK
<1>15. ContentOK'
    BY <1>1 DEF IInv, ContentOK
<1>16. QED
    BY <1>6, <1>9, <1>10, <1>12, <1>13, <1>14, <1>15 DEF IInv

LEMMA RollbackHolds == ASSUME IInv, NEW r \in Request, Rollback(r) PROVE IInv'
<1>1. tx[r] = "open" /\ Undo(r) /\ item' = item
    BY DEF Rollback, MayRollback
<1>2. item \in [Request -> [Index -> Item]]
    BY Types DEF IInv
<1>3. item[r] \in [Index -> Item] /\ item' = [item EXCEPT ![r] = item[r]]
    BY <1>1, <1>2
<1>4. QED
    BY <1>1, <1>3, UndoHolds

LEMMA BreakDeadlockHolds == ASSUME IInv, NEW r \in Request, BreakDeadlock(r) PROVE IInv'
<1> DEFINE its == [i \in Index |->
                    IF item[r][i].step \in {"upsert", "rename"} \/ (item[r][i].step = "put" /\ ~ReadBack(r))
                    THEN Fresh("failed") ELSE item[r][i]]
<1>1. item \in [Request -> [Index -> Item]]
    BY Types DEF IInv
<1>2. Undo(r) /\ item' = [item EXCEPT ![r] = its]
    BY <1>1 DEF BreakDeadlock
<1>3. PICK p \in Request : WaitsFor(r, p)
    BY DEF BreakDeadlock, InCircle, Circle
<1>4. tx[r] = "open"
    BY <1>3 DEF WaitsFor
<1>5. Fresh("failed") \in Item
    BY FreshItem DEF Step
<1>6. /\ its \in [Index -> Item]
      /\ \A i \in Index : its[i] = item[r][i] \/ (its[i] = Fresh("failed") /\ item[r][i].step # "none")
    BY <1>1, <1>5
<1> HIDE DEF its
<1>7. QED
    BY <1>2, <1>4, <1>6, UndoHolds

LEMMA CrashHolds == ASSUME IInv, Crash PROVE IInv'
<1>0. Typed
    BY DEF IInv
<1>1. /\ op' = [r \in Request |-> Idle] /\ tx' = [r \in Request |-> "none"] /\ pend' = [r \in Request |-> <<>>]
      /\ pver' = [r \in Request |-> {}] /\ item' = [r \in Request |-> [i \in Index |-> Fresh("none")]]
      /\ UNCHANGED <<slug, calls, file, versions, objects, puts, raced>>
    BY DEF Crash, db, bucket
<1>2. \A r \in Request : /\ op'[r] = Idle /\ tx'[r] = "none" /\ DOMAIN pend'[r] = {} /\ pver'[r] = {}
                         /\ \A i \in Index : item'[r][i] = Fresh("none")
    BY <1>1, NoRows
<1>3. Fresh("none") \in Item /\ Fresh("none").ver = 0 /\ Fresh("none").step = "none"
    BY FreshItem DEF Step
<1>4. Typed'
    <2>1. item' \in [Request -> [Index -> Item]]
        BY <1>1, <1>3
    <2>2. op' \in [Request -> Operation] /\ tx' \in [Request -> {"none", "open", "rolledback"}]
        BY <1>1 DEF Operation
    <2>3. pend' \in [Request -> Pending] /\ pver' \in [Request -> SUBSET VersionRow]
        BY <1>1, NoRows
    <2>4. stray' \subseteq Version
        BY <1>0, Types DEF Crash
    <2>5. faults' \in 0..MaxFaults
        BY <1>0, Faults DEF Crash, Fault
    <2>6. QED
        BY <1>0, <1>1, <2>1, <2>2, <2>3, <2>4, <2>5, Types, TypedNext
<1>5. OpOK'
    BY <1>2, <1>3 DEF OpOK, Idle
<1>6. ItemsOK'
    <2>1. 0 <= puts'
        BY <1>0, <1>1, Types
    <2>2. QED
        BY <1>2, <1>3, <2>1 DEF ItemsOK, ItemOK, Unput
<1>7. OwnVersions'
    BY <1>2, <1>3 DEF OwnVersions
<1>8. VersionsOK'
    <2>1. \A v \in versions : v.id # 0
        BY <1>0, Types, FilesAssumption DEF VersionRow, Version
    <2>2. QED
        BY <1>1, <1>2, <1>3, <2>1 DEF IInv, VersionsOK
<1>9. PendOK'
    BY <1>2 DEF PendOK
<1>10. ContentOK'
    BY <1>1 DEF IInv, ContentOK
<1>11. QED
    BY <1>4, <1>5, <1>6, <1>7, <1>8, <1>9, <1>10 DEF IInv

----------------------------------------------------------------------------
(* Every step                                                              *)

LEMMA InitHolds == Init => IInv
<1> SUFFICES ASSUME Init PROVE IInv
    OBVIOUS
<1>1. Fresh("none") \in Item /\ Fresh("none").ver = 0 /\ Fresh("none").step = "none"
    BY FreshItem DEF Step
<1>2. pend \in [Request -> Pending] /\ \A r \in Request : DOMAIN pend[r] = {}
    BY NoRows DEF Init
<1>3. Typed
    <2>1. item \in [Request -> [Index -> Item]]
        BY <1>1 DEF Init
    <2>2. op \in [Request -> Operation] /\ pver \in [Request -> SUBSET VersionRow]
        BY DEF Init, Operation
    <2>3. puts \in 0..MaxVersion /\ calls \in 0..MaxCalls /\ faults \in 0..MaxFaults
        BY FilesAssumption DEF Init
    <2>4. QED
        BY <1>2, <2>1, <2>2, <2>3 DEF Init, Typed, StoresOK
<1>4. OpOK
    BY <1>1 DEF Init, OpOK, Idle
<1>5. ItemsOK /\ OwnVersions
    BY <1>1 DEF Init, ItemsOK, ItemOK, OwnVersions, Unput
<1>6. VersionsOK /\ PendOK /\ ContentOK
    BY <1>2 DEF Init, VersionsOK, PendOK, ContentOK
<1>7. QED
    BY <1>3, <1>4, <1>5, <1>6 DEF IInv

LEMMA StutterHolds == IInv /\ UNCHANGED vars => IInv'
BY DEF vars, IInv, Typed, StoresOK, OpOK, ItemsOK, ItemOK, OwnVersions, VersionsOK, PendOK, ContentOK

\* The cache keeps keys: those of rows committed, or read back.
LEMMA RowKeys == ASSUME Typed, NEW row \in Row PROVE KeyOf(row) \in Key
BY Types, PathIsKey DEF KeyOf, Row

LEMMA KeysTyped == ASSUME Typed, CacheOK, NEW f \in FileId PROVE Keys(f) \subseteq Key
<1>1. Live(file[f]) => file[f] \in Row
    BY Types DEF Live
<1>2. QED
    BY <1>1, RowKeys DEF Keys, LiveKeys, CacheOK

LEMMA LeaksTyped == ASSUME Typed, NEW r \in Request, NEW f \in FileId PROVE Leaks(r, f) \subseteq Key
<1>1. f \in ToldBy(r) => pend[r][f] \in Row
    BY Types, PendingRows DEF ToldBy
<1>2. QED
    BY <1>1, RowKeys DEF Leaks

LEMMA CacheHolds == IInv /\ CacheOK /\ [Next]_vars => CacheOK'
<1> SUFFICES ASSUME IInv, CacheOK, [Next]_vars PROVE CacheOK'
    OBVIOUS
<1>0. Typed
    BY DEF IInv
<1>1. ASSUME UNCHANGED cache PROVE CacheOK'
    BY <1>1 DEF cache, CacheOK
<1>3. ASSUME NEW r \in Request, Call(r) PROVE CacheOK'
    BY <1>1, <1>3 DEF Call, StartUpload, StartUpdate, StartDelete, Begin
<1>4. ASSUME NEW r \in Request, NEW i \in Index, Upload(r, i) PROVE CacheOK'
    BY <1>1, <1>4 DEF Upload, Upsert, Put, PutFails, Save, SaveFails, Cleanup, Drop
<1>5. ASSUME NEW r \in Request, FindForUpdate(r) \/ Rename(r) \/ End(r) PROVE CacheOK'
    BY <1>1, <1>5 DEF FindForUpdate, Rename, End
<1>6. ASSUME NEW r \in Request, DeleteRow(r) PROVE CacheOK'
    <2>1. op[r].file \in FileId
        BY <1>6 DEF DeleteRow, MayDelete, IInv, OpOK
    <2>2. Keys(op[r].file) \subseteq Key
        BY <1>0, <2>1, KeysTyped
    <2>3. QED
        BY <1>6, <2>1, <2>2 DEF DeleteRow, CacheOK
<1>7. ASSUME NEW r \in Request, Commit(r) PROVE CacheOK'
    <2>1. \A f \in FileId : Keys(f) \subseteq Key
        BY <1>0, KeysTyped
    <2>2. QED
        BY <1>7, <2>1 DEF Commit, CacheOK
<1>8. ASSUME NEW r \in Request, Undo(r) PROVE CacheOK'
    BY <1>0, <1>8, LeaksTyped DEF Undo, CacheOK
<1>9. CASE Crash
    <2>1. \A f \in FileId : UNION {Leaks(r, f) : r \in Request} \subseteq Key
        BY <1>0, LeaksTyped
    <2>2. QED
        BY <1>9, <2>1 DEF Crash, CacheOK
<1>10. ASSUME NEW f \in FileId, NEW k \in Key, Expire(f, k) PROVE CacheOK'
    BY <1>10 DEF Expire, CacheOK
<1>11. CASE UNCHANGED vars
    BY <1>1, <1>11 DEF vars, cache
<1>12. ASSUME NEW r \in Request, Work(r) PROVE CacheOK'
    BY <1>4, <1>5, <1>6, <1>7, <1>8, <1>12 DEF Work, Rollback, BreakDeadlock
<1>13. QED
    BY <1>3, <1>9, <1>10, <1>11, <1>12 DEF Next

\* Only the cache forgets.
LEMMA ExpireHolds == ASSUME IInv, NEW f \in FileId, NEW k \in Key, Expire(f, k) PROVE IInv'
<1>1. UNCHANGED <<slug, calls, file, versions, objects, puts, op, tx, pend, pver, item, raced, stray, faults>>
    BY DEF Expire, db, bucket, history
<1>2. QED
    <2>1. Typed'
        BY <1>1 DEF IInv, Typed, StoresOK
    <2>2. OpOK' /\ PendOK' /\ ContentOK'
        BY <1>1 DEF IInv, OpOK, PendOK, ContentOK
    <2>3. ItemsOK'
        BY <1>1 DEF IInv, ItemsOK, ItemOK
    <2>4. OwnVersions' /\ VersionsOK'
        BY <1>1 DEF IInv, OwnVersions, VersionsOK
    <2>5. QED
        BY <2>1, <2>2, <2>3, <2>4 DEF IInv

LEMMA StepHolds == IInv /\ CacheOK /\ [Next]_vars => IInv'
<1> SUFFICES ASSUME IInv, CacheOK, [Next]_vars PROVE IInv'
    OBVIOUS
<1>1. ASSUME NEW r \in Request, Call(r) PROVE IInv'
    BY <1>1, StartUploadHolds, StartUpdateHolds, StartDeleteHolds DEF Call
<1>2. ASSUME NEW r \in Request, Work(r) PROVE IInv'
    <2>1. ASSUME NEW i \in Index, Upload(r, i) PROVE IInv'
        BY <2>1, UpsertHolds, PutHolds, PutFailsHolds, SaveHolds, SaveFailsHolds, CleanupHolds, DropHolds DEF Upload
    <2>2. QED
        BY <1>2, <2>1, FindHolds, RenameHolds, DeleteRowHolds, CommitHolds, RollbackHolds, BreakDeadlockHolds, EndHolds
           DEF Work
<1>3. QED
    BY <1>1, <1>2, CrashHolds, ExpireHolds, StutterHolds DEF Next

LEMMA Invariance == Spec => [](IInv /\ CacheOK)
<1>1. Init => CacheOK
    BY DEF Init, CacheOK
<1>2. IInv /\ CacheOK /\ [Next]_vars => (IInv /\ CacheOK)'
    BY StepHolds, CacheHolds
<1>3. QED
    BY <1>1, <1>2, InitHolds, PTL DEF Spec

\* Every variable keeps its type: above all the key and the row an upload works
\* with are those of a file, whatever its request asked for.
THEOREM TypeCorrect == Spec => []TypeOK
BY Invariance, PTL DEF IInv, Typed, TypeOK

\* A committed file has its last version and every version its object, through
\* failed uploads, rollbacks with uploads still running, and crashes.
THEOREM FilesKeepContent == Spec => []FileHasContent
<1>1. IInv => FileHasContent
    BY DEF IInv, ContentOK, VersionsOK, FileHasContent
<1>2. QED
    BY <1>1, Invariance, PTL

\* The steps that write committed rows.
LEMMA NothingLost == IInv /\ [Next]_vars => \A f \in FileId : file[f] # NoFile => file'[f] # NoFile
<1> SUFFICES ASSUME IInv, [Next]_vars, NEW f \in FileId, file[f] # NoFile PROVE file'[f] # NoFile
    OBVIOUS
<1>0. Typed
    BY DEF IInv
<1>1. CASE UNCHANGED file
    BY <1>1
<1>2. ASSUME NEW r \in Request, DeleteRow(r) PROVE file'[f] # NoFile
    <2>1. CASE op[r].file = f
        <3>1. file'[f] = [file[f] EXCEPT !.deleted = TRUE] /\ file[f] \in Row
            BY <1>0, <1>2, <2>1, Types DEF DeleteRow
        <3>2. [file[f] EXCEPT !.deleted = TRUE] \in Row
            BY <3>1 DEF Row
        <3>3. QED
            BY <3>1, <3>2, RowNotNoFile
    <2>2. CASE op[r].file # f
        BY <1>0, <1>2, <2>2, Types DEF DeleteRow
    <2>3. QED
        BY <2>1, <2>2
<1>3. ASSUME NEW r \in Request, NEW i \in Index, Drop(r, i) PROVE file'[f] # NoFile
    <2>1. item[r][i].file \in FileId
        BY <1>3 DEF Drop, IInv, ItemsOK, ItemOK, MayDrop
    <2>2. QED
        BY <1>3, <2>1, NothingDropped DEF Drop
<1>4. ASSUME NEW r \in Request, Commit(r) PROVE file'[f] # NoFile
    <2>1. file'[f] = Seen(r, f)
        BY <1>4 DEF Commit
    <2>2. f \in DOMAIN pend[r] => pend[r][f] \in Row
        BY <1>0, Types, PendingRows
    <2>3. QED
        BY <2>1, <2>2, RowNotNoFile DEF Seen
<1>5. ASSUME NEW r \in Request, Call(r) PROVE UNCHANGED file
    BY <1>5 DEF Call, StartUpload, StartUpdate, StartDelete, Begin, db
<1>6. ASSUME NEW r \in Request, NEW i \in Index, Upload(r, i), ~Drop(r, i) PROVE UNCHANGED file
    BY <1>6 DEF Upload, Upsert, Put, PutFails, Save, SaveFails, Cleanup, db
<1>7. ASSUME NEW r \in Request, FindForUpdate(r) \/ Rename(r) \/ Rollback(r) \/ BreakDeadlock(r) \/ End(r)
      PROVE  UNCHANGED file
    BY <1>7 DEF FindForUpdate, Rename, Rollback, BreakDeadlock, End, Undo, db
<1>8. CASE Crash
    BY <1>1, <1>8 DEF Crash, db
<1>9. CASE UNCHANGED vars
    BY <1>1, <1>9 DEF vars
<1>10. ASSUME NEW r \in Request, Work(r) PROVE file'[f] # NoFile
    BY <1>1, <1>2, <1>3, <1>4, <1>6, <1>7, <1>10 DEF Work
<1>11. ASSUME NEW g \in FileId, NEW k \in Key, Expire(g, k) PROVE UNCHANGED file
    BY <1>11 DEF Expire, db
<1>12. QED
    BY <1>1, <1>5, <1>8, <1>9, <1>10, <1>11 DEF Next

\* The row that a failed upload deletes over its own connection is never one that
\* was there before: such a row has a version, and the foreign key refuses.
THEOREM FilesStay == Spec => NoFileLost
BY Invariance, NothingLost, PTL DEF Spec, NoFileLost

----------------------------------------------------------------------------
(* Objects nobody has                                                      *)

\* An object keeps its reason to be there unless its upload forgets it.
LEMMA KeptKnown ==
    ASSUME OnlyStraysAreOrphans, stray \subseteq stray', versions \subseteq versions',
           \A v \in Version : objects'[v] # NoKey =>
               \/ objects[v] # NoKey /\ \A q \in Request, j \in Index : item[q][j].ver = v =>
                      \/ item'[q][j].ver = v
                      \/ v \in stray'
                      \/ \E w \in versions' : w.id = v
               \/ \E q \in Request, j \in Index : item'[q][j].ver = v
               \/ v \in stray'
    PROVE  OnlyStraysAreOrphans'
BY DEF OnlyStraysAreOrphans

\* A step of one upload.
LEMMA ItemKnown ==
    ASSUME IInv, OnlyStraysAreOrphans, NEW r \in Request, NEW i \in Index, NEW t, item' = [item EXCEPT ![r][i] = t],
           item[r][i].ver \in {0, t.ver}, UNCHANGED versions, stray \subseteq stray',
           \A v \in Version : objects'[v] # NoKey => objects[v] # NoKey \/ v = t.ver \/ v \in stray'
    PROVE  OnlyStraysAreOrphans'
<1>1. item \in [Request -> [Index -> Item]]
    BY Types DEF IInv
<1>2. \A q \in Request, j \in Index : item'[q][j] = IF q = r /\ j = i THEN t ELSE item[q][j]
    BY <1>1
<1>3. \A v \in Version : v # 0
    BY FilesAssumption DEF Version
<1>4. QED
    BY <1>2, <1>3, KeptKnown

\* A request's uploads replaced.
LEMMA RequestKnown ==
    ASSUME IInv, OnlyStraysAreOrphans, NEW r \in Request, NEW its, item' = [item EXCEPT ![r] = its],
           UNCHANGED objects, stray \subseteq stray', versions \subseteq versions',
           \A i \in Index : \/ item[r][i].ver \in {0, its[i].ver}
                            \/ item[r][i].ver \in stray' \/ objects[item[r][i].ver] = NoKey
                            \/ \E w \in versions' : w.id = item[r][i].ver
    PROVE  OnlyStraysAreOrphans'
<1>1. item \in [Request -> [Index -> Item]]
    BY Types DEF IInv
<1>2. \A q \in Request : item'[q] = IF q = r THEN its ELSE item[q]
    BY <1>1
<1>3. \A v \in Version : v # 0
    BY FilesAssumption DEF Version
<1>4. QED
    BY <1>2, <1>3, KeptKnown

LEMMA UploadKnown ==
    ASSUME IInv, OnlyStraysAreOrphans, NEW r \in Request, NEW i \in Index, Upload(r, i)
    PROVE  OnlyStraysAreOrphans'
<1>0. item \in [Request -> [Index -> Item]] /\ objects \in [Version -> Key \cup {NoKey}] /\ item[r][i] \in Item
    BY Types DEF IInv
<1>1. item[r][i].step \in Unput => item[r][i].ver = 0
    BY DEF IInv, ItemsOK, ItemOK
<1>2. ASSUME NEW s \in Step, Move(r, i, s), UNCHANGED versions, stray \subseteq stray',
             \A v \in Version : objects'[v] # NoKey => objects[v] # NoKey \/ v \in stray'
      PROVE  OnlyStraysAreOrphans'
    <2>1. item' = [item EXCEPT ![r][i] = [item[r][i] EXCEPT !.step = s]]
        BY <1>0, <1>2, Moved
    <2>2. [item[r][i] EXCEPT !.step = s].ver = item[r][i].ver
        BY <1>0 DEF Item
    <2>3. QED
        BY <1>2, <2>1, <2>2, ItemKnown
<1>3. ASSUME NEW f \in FileId, Upsert(r, i, f) PROVE OnlyStraysAreOrphans'
    <2>1. item[r][i].ver = 0
        BY <1>1, <1>3 DEF Upsert, NextUpsert, Unput, MayUpsert
    <2>2. UNCHANGED <<versions, objects, stray>>
        BY <1>3 DEF Upsert, db, bucket
    <2>3. PICK t : item' = [item EXCEPT ![r][i] = t]
        BY <1>3 DEF Upsert
    <2>4. QED
        BY <2>1, <2>2, <2>3, ItemKnown
<1>4. CASE Put(r, i)
    <2> DEFINE t == [item[r][i] EXCEPT !.step = "head", !.ver = puts + 1]
    <2>1. item[r][i].ver = 0
        BY <1>1, <1>4 DEF Put, Unput, MayPut
    <2>2. item' = [item EXCEPT ![r][i] = t] /\ t.ver = puts + 1
        BY <1>0, <1>4 DEF Put, Item
    <2>3. UNCHANGED <<versions, stray>> /\ \A v \in Version : v # puts + 1 => objects'[v] = objects[v]
        BY <1>0, <1>4 DEF Put, db, history
    <2> HIDE DEF t
    <2>4. QED
        BY <2>1, <2>2, <2>3, ItemKnown
<1>5. CASE PutFails(r, i)
    <2>1. \A v \in Version : objects'[v] # NoKey => objects[v] # NoKey \/ v \in stray'
        BY <1>0, <1>5 DEF PutFails
    <2>2. Move(r, i, "failed") /\ UNCHANGED versions /\ stray \subseteq stray' /\ "failed" \in Step
        BY <1>5 DEF PutFails, db, Step
    <2>3. QED
        BY <1>2, <2>1, <2>2
<1>6. CASE Save(r, i)
    BY <1>2, <1>6 DEF Save, Step, db, bucket, history
<1>7. CASE SaveFails(r, i)
    BY <1>2, <1>7 DEF SaveFails, Step, db, bucket, history
<1>8. CASE Cleanup(r, i)
    <2>1. \A v \in Version : objects'[v] # NoKey => objects[v] # NoKey
        BY <1>0, <1>8 DEF Cleanup
    <2>2. Move(r, i, "drop") /\ UNCHANGED versions /\ stray \subseteq stray' /\ "drop" \in Step
        BY <1>8 DEF Cleanup, db, Step
    <2>3. QED
        BY <1>2, <2>1, <2>2
<1>9. CASE Drop(r, i)
    BY <1>2, <1>9 DEF Drop, Step, bucket, history
<1>10. QED
    BY <1>3, <1>4, <1>5, <1>6, <1>7, <1>8, <1>9 DEF Upload

LEMMA CallKnown ==
    ASSUME IInv, OnlyStraysAreOrphans, NEW r \in Request, Call(r)
    PROVE  OnlyStraysAreOrphans'
<1>1. op[r] = Idle /\ UNCHANGED <<versions, objects, stray>>
    BY DEF Call, StartUpload, StartUpdate, StartDelete, Begin, db, bucket
<1>2. PICK its : item' = [item EXCEPT ![r] = its]
    BY DEF Call, StartUpload, StartUpdate, StartDelete, Begin
<1>3. \A i \in Index : item[r][i].ver = 0
    BY <1>1, IdleSlot
<1>4. QED
    BY <1>1, <1>2, <1>3, RequestKnown

\* A request that is over has its versions, or nobody has their objects.
LEMMA ClosedKnown ==
    ASSUME IInv, OnlyStraysAreOrphans, NEW r \in Request, DeleteRow(r) \/ End(r) \/ Commit(r)
    PROVE  OnlyStraysAreOrphans'
<1>1. PICK its : item' = [item EXCEPT ![r] = its]
    BY DEF DeleteRow, End, Commit, Close
<1>2. UNCHANGED <<objects, stray>> /\ versions \subseteq versions'
    BY DEF DeleteRow, End, Commit, db, bucket, history
<1>3. ASSUME NEW i \in Index
      PROVE  \/ item[r][i].ver = 0 \/ item[r][i].ver \in stray' \/ objects[item[r][i].ver] = NoKey
             \/ \E w \in versions' : w.id = item[r][i].ver
    <2>1. ItemOK(r, i)
        BY DEF IInv, ItemsOK
    <2>2. CASE DeleteRow(r)
        BY <2>2 DEF DeleteRow, IInv, OpOK, Fresh, MayDelete
    <2>3. CASE End(r)
        <3>1. tx[r] = "rolledback" /\ item[r][i].step \in {"none", "saved", "failed"}
            BY <2>3 DEF End, MayEnd
        <3>2. QED
            BY <1>2, <2>1, <3>1 DEF ItemOK, Unput
    <2>4. CASE Commit(r)
        <3>1. tx[r] = "open" /\ item[r][i].step \in {"none", "saved"} /\ versions' = versions \cup pver[r]
            BY <2>4 DEF Commit, MayCommit
        <3>2. item[r][i].ver # 0 => [id |-> item[r][i].ver, file |-> item[r][i].file] \in pver[r]
            BY <2>1, <3>1 DEF ItemOK, Unput
        <3>3. [id |-> item[r][i].ver, file |-> item[r][i].file].id = item[r][i].ver
            OBVIOUS
        <3>4. QED
            BY <3>1, <3>2, <3>3
    <2>5. QED
        BY <2>2, <2>3, <2>4
<1>4. QED
    BY <1>1, <1>2, <1>3, RequestKnown

LEMMA UndoneKnown ==
    ASSUME IInv, OnlyStraysAreOrphans, NEW r \in Request, Rollback(r) \/ BreakDeadlock(r)
    PROVE  OnlyStraysAreOrphans'
<1>0. item \in [Request -> [Index -> Item]]
    BY Types DEF IInv
<1>1. UNCHANGED <<objects, versions>> /\ stray \subseteq stray'
    BY DEF Rollback, BreakDeadlock, Undo, db, bucket
<1>2. \A i \in Index : item[r][i].step \in {"upsert", "rename", "put"} => item[r][i].ver = 0
    BY DEF IInv, ItemsOK, ItemOK, Unput
<1>3. CASE Rollback(r)
    <2>1. item' = [item EXCEPT ![r] = item[r]]
        BY <1>0, <1>3 DEF Rollback
    <2>2. QED
        BY <1>1, <2>1, RequestKnown
<1>4. CASE BreakDeadlock(r)
    <2> DEFINE its == [i \in Index |->
                        IF item[r][i].step \in {"upsert", "rename"} \/ (item[r][i].step = "put" /\ ~ReadBack(r))
                        THEN Fresh("failed") ELSE item[r][i]]
    <2>1. item' = [item EXCEPT ![r] = its]
        BY <1>0, <1>4 DEF BreakDeadlock
    <2>2. \A i \in Index : item[r][i].ver \in {0, its[i].ver}
        BY <1>2
    <2> HIDE DEF its
    <2>3. QED
        BY <1>1, <2>1, <2>2, RequestKnown
<1>5. QED
    BY <1>3, <1>4

LEMMA FindKnown ==
    ASSUME IInv, OnlyStraysAreOrphans, NEW r \in Request, FindForUpdate(r) \/ Rename(r)
    PROVE  OnlyStraysAreOrphans'
<1>0. item \in [Request -> [Index -> Item]] /\ 1 \in Index
    BY Types, FilesAssumption DEF IInv, Index
<1>1. item[r][1].step \in {"find", "rename"} /\ UNCHANGED <<objects, versions, stray>>
    BY DEF FindForUpdate, Rename, db, bucket, history, MayRename
<1>2. item[r][1].ver = 0
    BY <1>0, <1>1 DEF IInv, ItemsOK, ItemOK, Unput
<1>3. PICK t : item' = [item EXCEPT ![r][1] = t]
    <2>1. CASE FindForUpdate(r)
        BY <2>1 DEF FindForUpdate
    <2>2. CASE Rename(r)
        <3>1. PICK s \in Step : Move(r, 1, s)
            BY <2>2 DEF Rename, Step
        <3>2. item' = [item EXCEPT ![r][1] = [item[r][1] EXCEPT !.step = s]]
            BY <1>0, <3>1, Moved
        <3>3. QED
            BY <3>2
    <2>3. QED
        BY <2>1, <2>2
<1>4. QED
    BY <1>0, <1>1, <1>2, <1>3, ItemKnown

LEMMA KnownHolds == IInv /\ OnlyStraysAreOrphans /\ [Next]_vars => OnlyStraysAreOrphans'
<1> SUFFICES ASSUME IInv, OnlyStraysAreOrphans, [Next]_vars PROVE OnlyStraysAreOrphans'
    OBVIOUS
<1>1. ASSUME NEW r \in Request, Work(r) PROVE OnlyStraysAreOrphans'
    BY <1>1, UploadKnown, ClosedKnown, UndoneKnown, FindKnown DEF Work
<1>2. CASE Crash
    <2>1. UNCHANGED <<objects, versions>>
          /\ stray' = stray \cup {v \in Version : \E q \in Request, j \in Index : item[q][j].ver = v}
        BY <1>2 DEF Crash, db, bucket
    <2>2. QED
        BY <2>1, KeptKnown
<1>3. CASE UNCHANGED vars
    BY <1>3 DEF vars, OnlyStraysAreOrphans
<1>4. ASSUME NEW f \in FileId, NEW k \in Key, Expire(f, k) PROVE OnlyStraysAreOrphans'
    BY <1>4 DEF Expire, db, bucket, history, OnlyStraysAreOrphans
<1>5. QED
    BY <1>1, <1>2, <1>3, <1>4, CallKnown DEF Next

\* An object without a version is one an upload still has, or one that a crash, a
\* failed delete, a sibling's rollback or a put whose answer was lost has left.
THEOREM OrphansAreStrays == Spec => []OnlyStraysAreOrphans
<1>1. Init => OnlyStraysAreOrphans
    BY DEF Init, OnlyStraysAreOrphans
<1>2. QED
    BY <1>1, KnownHolds, Invariance, PTL DEF Spec

----------------------------------------------------------------------------
(* What a download serves                                                   *)

\* What an upload still is, and what its request asked for.
KindOf(r, i) ==
    /\ item[r][i].step = "upsert" => op[r].kind = "upload"
    /\ item[r][i].step \in {"find", "rename"} => op[r].kind = "update"

KindOK ==
    \A r \in Request : /\ op[r].kind = "update" => op[r].file \in raced
                       /\ \A i \in Index : KindOf(r, i)

\* An upload puts its version under the key it read.
KeyOK ==
    \A r \in Request, i \in Index :
        item[r][i].ver # 0 => objects[item[r][i].ver] \in {item[r][i].key, NoKey}

\* A file that nobody edited or named twice has one upload of a request, which
\* holds its row until the transaction is over.
OnceOf(r, i, f) ==
    item[r][i].file = f /\ f \notin raced =>
        /\ op[r].kind = "upload"
        /\ tx[r] = "open" => f \in DOMAIN pend[r]
        /\ \A j \in Index : item[r][j].file = f => j = i

OnceOK == \A r \in Request, i \in Index, f \in FileId : OnceOf(r, i, f)

\* A version's row that is not committed is that of a saved upload of its file.
SavedOf(r, v) == \E i \in Index : item[r][i].step = "saved" /\ item[r][i].ver = v.id /\ item[r][i].file = v.file
SavedOK == \A r \in Request : \A v \in pver[r] : SavedOf(r, v)

\* The upload of such a file puts it under the key of the row its request holds,
\* after every committed version of it.
Carries(r, i, f) ==
    LET t == item[r][i] IN
    /\ t.file = f /\ t.step \notin {"none", "upsert", "find", "rename"}
    /\ t.key = FilePath(pend[r][f].owner, pend[r][f].name)
    /\ t.step = "saved" => t.ver # 0 /\ pend[r][f].last = t.ver
    /\ t.ver # 0 => \A v \in versions : v.file = f => v.id < t.ver

HeldOK == \A r \in Request : \A f \in DOMAIN pend[r] \ raced : \E i \in Index : Carries(r, i, f)

\* Its committed row names the key of its last version, which is its newest.
ServedOf(f) ==
    file[f] # NoFile =>
        /\ objects[file[f].last] = FilePath(file[f].owner, file[f].name)
        /\ \A v \in versions : v.file = f => v.id <= file[f].last

ServedOK == \A f \in FileId \ raced : ServedOf(f)

Serving == KindOK /\ KeyOK /\ OnceOK /\ SavedOK /\ HeldOK /\ ServedOK

\* The rows and objects that are committed stay as they are.
LEMMA ServedStays ==
    ASSUME IInv, ServedOK, UNCHANGED <<slug, versions>>, raced \subseteq raced',
           \A f \in FileId : file'[f] # NoFile =>
               /\ file[f] # NoFile /\ file'[f].owner = file[f].owner
               /\ file'[f].name = file[f].name /\ file'[f].last = file[f].last,
           \A v \in versions : objects'[v.id] = objects[v.id]
    PROVE  ServedOK'
<1> SUFFICES ASSUME NEW f \in FileId, f \notin raced', file'[f] # NoFile
             PROVE  /\ objects'[file'[f].last] = FilePath(file[f].owner, file[f].name)'
                    /\ \A v \in versions' : v.file = f => v.id <= file'[f].last
    BY DEF ServedOK, ServedOf
<1>1. /\ file[f] # NoFile /\ file'[f].owner = file[f].owner
      /\ file'[f].name = file[f].name /\ file'[f].last = file[f].last
    OBVIOUS
<1>2. /\ objects[file[f].last] = FilePath(file[f].owner, file[f].name)
      /\ \A v \in versions : v.file = f => v.id <= file[f].last
    BY <1>1 DEF ServedOK, ServedOf
<1>3. PICK v \in versions : v.id = file[f].last
    BY <1>1 DEF IInv, ContentOK
<1>4. QED
    BY <1>1, <1>2, <1>3 DEF FilePath

Turned(r, i, t) ==
    \A q \in Request, j \in Index : item'[q][j] = IF q = r /\ j = i THEN t ELSE item[q][j]
ObjectsStay(r, i) == \A v \in Version : v # item[r][i].ver /\ v # puts + 1 => objects'[v] = objects[v]

LEMMA CommittedStay ==
    ASSUME IInv, NEW r \in Request, NEW i \in Index, ObjectsStay(r, i)
    PROVE  \A v \in versions : objects'[v.id] = objects[v.id]
<1> SUFFICES ASSUME NEW v \in versions PROVE objects'[v.id] = objects[v.id]
    OBVIOUS
<1>1. v.id \in Version /\ v.id \in Nat /\ puts \in Nat
    BY Types, FilesAssumption DEF IInv, VersionRow, Version
<1>2. v.id <= puts /\ item[r][i].ver # v.id
    BY DEF IInv, VersionsOK
<1>3. QED
    BY <1>1, <1>2 DEF ObjectsStay

\* One upload goes a step further.
LEMMA TurnServes ==
    ASSUME IInv, Serving, NEW r \in Request, NEW i \in Index, NEW t \in Item, Turned(r, i, t),
           UNCHANGED <<slug, file, versions, op, tx>>, raced \subseteq raced', item[r][i].step # "saved",
           t.step \notin {"upsert", "find"}, t.step = "rename" => op[r].kind = "update",
           t.ver # 0 => objects'[t.ver] \in {t.key, NoKey}, ObjectsStay(r, i),
           \/ t.file \in {item[r][i].file, NoFile} \cup raced'
           \/ /\ op[r].kind = "upload" /\ t.file \in DOMAIN pend'[r]
              /\ \A j \in Index \ {i} : item[r][j].file # t.file,
           \A q \in Request : DOMAIN pend[q] \subseteq DOMAIN pend'[q] /\ (q # r => pend'[q] = pend[q]),
           \A q \in Request : q # r => pver'[q] = pver[q],
           \A v \in pver'[r] : v \in pver[r] \/ (t.step = "saved" /\ v.id = t.ver /\ v.file = t.file),
           \A f \in DOMAIN pend'[r] \ raced' :
               \/ Carries(r, i, f)'
               \/ f \in DOMAIN pend[r] /\ pend'[r][f] = pend[r][f] /\ ~Carries(r, i, f)
    PROVE  Serving'
<1>0. item'[r][i] = t /\ NoFile \notin FileId
    BY FilesAssumption DEF Turned
<1>1. KindOK'
    BY <1>0 DEF Serving, KindOK, KindOf, Turned
<1>2. KeyOK'
    <2> SUFFICES ASSUME NEW q \in Request, NEW j \in Index, item'[q][j].ver # 0
                 PROVE  objects'[item'[q][j].ver] \in {item'[q][j].key, NoKey}
        BY DEF KeyOK
    <2>1. CASE q = r /\ j = i
        BY <1>0, <2>1
    <2>2. CASE ~(q = r /\ j = i)
        <3>1. item'[q][j] = item[q][j] /\ item[q][j].ver # 0
            BY <2>2 DEF Turned
        <3>2. item[q][j].ver \in Version /\ item[q][j].ver \in Nat /\ puts \in Nat /\ item[q][j].ver <= puts
            <4>1. item[q][j] \in Item /\ puts \in Nat
                BY Types DEF IInv
            <4>2. item[q][j].ver \in 0..MaxVersion /\ item[q][j].ver <= puts
                BY <4>1 DEF Item, IInv, ItemsOK, ItemOK
            <4>3. QED
                BY <3>1, <4>1, <4>2, FilesAssumption DEF Version
        <3>3. item[q][j].ver # item[r][i].ver
            BY <2>2, <3>1 DEF IInv, OwnVersions
        <3>4. objects'[item[q][j].ver] = objects[item[q][j].ver]
            BY <3>2, <3>3 DEF ObjectsStay
        <3>5. QED
            BY <3>1, <3>4 DEF Serving, KeyOK
    <2>3. QED
        BY <2>1, <2>2
<1>3. OnceOK'
    <2> SUFFICES ASSUME NEW q \in Request, NEW j \in Index, NEW f \in FileId,
                        item'[q][j].file = f, f \notin raced'
                 PROVE  /\ op[q].kind = "upload"
                        /\ tx[q] = "open" => f \in DOMAIN pend'[q]
                        /\ \A k \in Index : item'[q][k].file = f => k = j
        BY DEF OnceOK, OnceOf
    <2>1. CASE item[q][j].file = f
        <3>1. /\ op[q].kind = "upload" /\ (tx[q] = "open" => f \in DOMAIN pend[q])
              /\ \A k \in Index : item[q][k].file = f => k = j
            BY <2>1 DEF Serving, OnceOK, OnceOf
        <3>2. ASSUME NEW k \in Index, item'[q][k].file = f, item[q][k].file # f PROVE k = j
            BY <1>0, <2>1, <3>2 DEF Turned
        <3>3. QED
            BY <3>1, <3>2
    <2>2. CASE item[q][j].file # f
        <3>1. q = r /\ j = i /\ t.file = f
            BY <2>2 DEF Turned
        <3>2. /\ op[r].kind = "upload" /\ f \in DOMAIN pend'[r]
              /\ \A k \in Index \ {i} : item[r][k].file # f
            BY <1>0, <2>2, <3>1
        <3>3. QED
            BY <3>1, <3>2 DEF Turned
    <2>3. QED
        BY <2>1, <2>2
<1>4. SavedOK'
    <2> SUFFICES ASSUME NEW q \in Request, NEW v \in pver'[q] PROVE SavedOf(q, v)'
        BY DEF SavedOK
    <2>1. CASE v \in pver[q]
        <3>1. PICK j \in Index : item[q][j].step = "saved" /\ item[q][j].ver = v.id /\ item[q][j].file = v.file
            BY <2>1 DEF Serving, SavedOK, SavedOf
        <3>2. item'[q][j] = item[q][j]
            BY <3>1 DEF Turned
        <3>3. QED
            BY <3>1, <3>2 DEF SavedOf
    <2>2. CASE v \notin pver[q]
        BY <1>0, <2>2 DEF SavedOf
    <2>3. QED
        BY <2>1, <2>2
<1>5. HeldOK'
    <2> SUFFICES ASSUME NEW q \in Request, NEW f \in DOMAIN pend'[q], f \notin raced'
                 PROVE  \E j \in Index : Carries(q, j, f)'
        BY DEF HeldOK
    <2>1. CASE q = r /\ Carries(r, i, f)'
        BY <2>1
    <2>2. CASE ~(q = r /\ Carries(r, i, f)')
        <3>1. f \in DOMAIN pend[q] /\ pend'[q][f] = pend[q][f] /\ (q = r => ~Carries(r, i, f))
            BY <2>2
        <3>2. PICK j \in Index : Carries(q, j, f)
            BY <3>1 DEF Serving, HeldOK
        <3>3. item'[q][j] = item[q][j]
            BY <3>1, <3>2 DEF Turned
        <3>4. Carries(q, j, f)'
            BY <3>1, <3>2, <3>3 DEF Carries, FilePath
        <3>5. QED
            BY <3>4
    <2>3. QED
        BY <2>1, <2>2
<1>6. ServedOK'
    BY CommittedStay, ServedStays DEF Serving
<1>7. QED
    BY <1>1, <1>2, <1>3, <1>4, <1>5, <1>6 DEF Serving

\* A step of an upload that writes no row and keeps its file and its key.
LEMMA StepServes ==
    ASSUME IInv, Serving, NEW r \in Request, NEW i \in Index, NEW t \in Item, item' = [item EXCEPT ![r][i] = t],
           t.file = item[r][i].file, t.key = item[r][i].key,
           t.step \in {"put", "head", "cleanup", "drop", "failed"},
           item[r][i].step \notin {"none", "upsert", "find", "rename", "saved"},
           t.ver \in {item[r][i].ver, puts + 1}, t.ver # 0 => objects'[t.ver] \in {t.key, NoKey},
           UNCHANGED <<slug, file, versions, op, tx, pver, raced>>, ObjectsStay(r, i),
           \A q \in Request : q # r => pend'[q] = pend[q],
           DOMAIN pend[r] \subseteq DOMAIN pend'[r],
           \A f \in DOMAIN pend'[r] \ raced : f \in DOMAIN pend[r] /\ pend'[r][f] = pend[r][f]
    PROVE  Serving'
<1>1. Turned(r, i, t) /\ item'[r][i] = t
    BY Types, OneItem DEF Turned, IInv
<1>2. ASSUME NEW f \in DOMAIN pend'[r], f \notin raced', Carries(r, i, f) PROVE Carries(r, i, f)'
    <2>1. f \in DOMAIN pend[r] /\ pend'[r][f] = pend[r][f]
        BY <1>2
    <2>2. \A v \in versions : v.id \in Nat /\ v.id <= puts /\ puts \in Nat
        BY Types, FilesAssumption DEF IInv, VersionsOK, VersionRow, Version
    <2>3. t.ver # 0 => \A v \in versions : v.file = f => v.id < t.ver
        BY <1>2, <2>2 DEF Carries
    <2>4. QED
        BY <1>1, <1>2, <2>1, <2>3 DEF Carries, FilePath
<1>3. \A f \in DOMAIN pend'[r] \ raced' :
         \/ Carries(r, i, f)'
         \/ f \in DOMAIN pend[r] /\ pend'[r][f] = pend[r][f] /\ ~Carries(r, i, f)
    BY <1>2
<1>4. \A q \in Request : DOMAIN pend[q] \subseteq DOMAIN pend'[q] /\ (q # r => pend'[q] = pend[q])
    OBVIOUS
<1>5. QED
    BY <1>1, <1>3, <1>4, TurnServes

LEMMA PutServes ==
    ASSUME IInv, Serving, NEW r \in Request, NEW i \in Index, Put(r, i)
    PROVE  Serving'
<1> DEFINE t == [item[r][i] EXCEPT !.step = "head", !.ver = puts + 1]
<1>1. /\ item \in [Request -> [Index -> Item]] /\ objects \in [Version -> Key \cup {NoKey}]
      /\ item[r][i] \in Item /\ puts \in Nat /\ MaxVersion \in Nat
    BY Types, FilesAssumption DEF IInv
<1>2. /\ item[r][i].step = "put" /\ puts < MaxVersion /\ item' = [item EXCEPT ![r][i] = t]
      /\ objects' = [objects EXCEPT ![puts + 1] = item[r][i].key]
      /\ UNCHANGED <<slug, file, versions, op, tx, pend, pver, raced>>
    BY <1>1 DEF Put, db, history, MayPut
<1>3. puts + 1 \in Version /\ puts + 1 \in 0..MaxVersion
    BY <1>1, <1>2 DEF Version
<1>4. /\ t \in Item /\ t.file = item[r][i].file /\ t.key = item[r][i].key /\ t.step = "head" /\ t.ver = puts + 1
    BY <1>1, <1>3 DEF Item, Step
<1> HIDE DEF t
<1>5. ObjectsStay(r, i) /\ objects'[t.ver] = t.key
    BY <1>1, <1>2, <1>3, <1>4 DEF ObjectsStay
<1>6. QED
    BY <1>2, <1>4, <1>5, StepServes

\* The steps that only move an upload on.
LEMMA MoveServes ==
    ASSUME IInv, Serving, NEW r \in Request, NEW i \in Index, PutFails(r, i) \/ Cleanup(r, i) \/ Drop(r, i)
    PROVE  Serving'
<1>1. /\ item \in [Request -> [Index -> Item]] /\ objects \in [Version -> Key \cup {NoKey}] /\ item[r][i] \in Item
    BY Types DEF IInv
<1>2. PICK s \in Step : s \in {"drop", "failed"} /\ Move(r, i, s)
    BY DEF PutFails, Cleanup, Drop, Step
<1> DEFINE t == [item[r][i] EXCEPT !.step = s]
<1>3. item' = [item EXCEPT ![r][i] = t]
    BY <1>1, <1>2, Moved
<1>4. t \in Item /\ t.step = s /\ t.file = item[r][i].file /\ t.key = item[r][i].key /\ t.ver = item[r][i].ver
    BY <1>1, MovedItem
<1> HIDE DEF t
<1>5. item[r][i].step \in {"put", "cleanup", "drop"} /\ UNCHANGED <<slug, versions, op, tx, pend, pver, raced>>
    BY DEF PutFails, Cleanup, Drop, db, bucket, history, MayPut, MayDrop
<1>6. file' = file
    <2>1. CASE Drop(r, i)
        <3>1. item[r][i].file \in FileId
            BY <2>1 DEF Drop, IInv, ItemsOK, ItemOK, MayDrop
        <3>2. QED
            BY <2>1, <3>1, NothingDropped DEF Drop
    <2>2. QED
        BY <2>1 DEF PutFails, Cleanup, db
<1>7. \A v \in Version : \/ objects'[v] = objects[v] \/ v = puts + 1
                         \/ v = item[r][i].ver /\ objects'[v] = NoKey
    BY <1>1 DEF PutFails, Cleanup, Drop, bucket
<1>8. t.ver # 0 => objects'[t.ver] \in {t.key, NoKey}
    <2>1. t.ver # 0 => t.ver \in Version /\ objects[t.ver] \in {t.key, NoKey}
        BY <1>1, <1>4, FilesAssumption DEF Serving, KeyOK, Item, Version
    <2>2. t.ver <= puts /\ t.ver \in Nat /\ puts \in Nat
        <3>1. item[r][i].ver <= puts
            BY DEF IInv, ItemsOK, ItemOK
        <3>2. item[r][i].ver \in Nat /\ puts \in Nat
            BY <1>1, Types, FilesAssumption DEF IInv, Item
        <3>3. QED
            BY <1>4, <3>1, <3>2
    <2>3. QED
        BY <1>7, <2>1, <2>2
<1>9. ObjectsStay(r, i)
    BY <1>7 DEF ObjectsStay
<1>10. QED
    BY <1>2, <1>3, <1>4, <1>5, <1>6, <1>8, <1>9, StepServes

\* An upload at "head" of a file nobody edited holds its row.
LEMMA HeadHolds ==
    ASSUME IInv, Serving, NEW r \in Request, NEW i \in Index, MaySave(r, i), item[r][i].file \notin raced
    PROVE  /\ item[r][i].file \in DOMAIN pend[r]
           /\ Seen(r, item[r][i].file) = pend[r][item[r][i].file]
           /\ Carries(r, i, item[r][i].file)
<1> DEFINE f == item[r][i].file
<1>1. f \in FileId /\ tx[r] = "open"
    BY DEF MaySave, IInv, ItemsOK, ItemOK
<1>2. f \in DOMAIN pend[r] /\ \A j \in Index : item[r][j].file = f => j = i
    BY <1>1 DEF Serving, OnceOK, OnceOf
<1>3. PICK j \in Index : Carries(r, j, f)
    BY <1>2 DEF Serving, HeldOK
<1>4. j = i
    BY <1>2, <1>3 DEF Carries
<1>5. QED
    BY <1>2, <1>3, <1>4 DEF Seen

LEMMA SaveFailsServes ==
    ASSUME IInv, Serving, NEW r \in Request, NEW i \in Index, SaveFails(r, i)
    PROVE  Serving'
<1> DEFINE t == [item[r][i] EXCEPT !.step = "cleanup"]
           f == item[r][i].file
<1>0. Typed
    BY DEF IInv
<1>1. item \in [Request -> [Index -> Item]] /\ item[r][i] \in Item /\ pend \in [Request -> Pending]
    BY <1>0, Types
<1>2. /\ item[r][i].step = "head" /\ Move(r, i, "cleanup")
      /\ UNCHANGED <<slug, file, versions, objects, op, tx, pver, raced>>
    BY DEF SaveFails, db, bucket, history
<1>3. item' = [item EXCEPT ![r][i] = t]
    BY <1>1, <1>2, Moved DEF Step
<1>4. t \in Item /\ t.step = "cleanup" /\ t.file = item[r][i].file /\ t.key = item[r][i].key /\ t.ver = item[r][i].ver
    BY <1>1, MovedItem DEF Step
<1>5. f \in FileId
    BY <1>2 DEF IInv, ItemsOK, ItemOK
<1> HIDE DEF t
<1>6. /\ \A q \in Request : q # r => pend'[q] = pend[q]
      /\ DOMAIN pend[r] \subseteq DOMAIN pend'[r]
      /\ \A g \in DOMAIN pend'[r] \ raced : g \in DOMAIN pend[r] /\ pend'[r][g] = pend[r][g]
    <2>1. CASE UNCHANGED pend
        BY <2>1
    <2>2. CASE MaySave(r, i) /\ Write(r, f, Seen(r, f))
        <3>1. Seen(r, f) \in Row
            BY <1>0, <1>5, <2>2, SeenRows DEF MaySave, Readable
        <3>2. RowWritten(r, f, Seen(r, f))
            BY <1>1, <1>5, <2>2, <3>1, OneRow
        <3>3. \A q \in Request : q # r => pend'[q] = pend[q]
            BY <1>1, <2>2 DEF Write, Written
        <3>4. f \notin raced => f \in DOMAIN pend[r] /\ Seen(r, f) = pend[r][f]
            BY <2>2, HeadHolds
        <3>5. QED
            BY <3>2, <3>3, <3>4 DEF RowWritten
    <2>3. QED
        BY <2>1, <2>2 DEF SaveFails
<1>7. ObjectsStay(r, i) /\ (t.ver # 0 => objects'[t.ver] \in {t.key, NoKey})
    BY <1>2, <1>4 DEF ObjectsStay, Serving, KeyOK
<1>8. QED
    BY <1>2, <1>3, <1>4, <1>6, <1>7, StepServes

LEMMA SaveServes ==
    ASSUME IInv, Serving, NEW r \in Request, NEW i \in Index, Save(r, i)
    PROVE  Serving'
<1> DEFINE t == [item[r][i] EXCEPT !.step = "saved"]
           f == item[r][i].file
           row == [Seen(r, f) EXCEPT !.last = item[r][i].ver]
<1>0. Typed
    BY DEF IInv
<1>1. /\ item \in [Request -> [Index -> Item]] /\ item[r][i] \in Item /\ pend \in [Request -> Pending]
      /\ pver \in [Request -> SUBSET VersionRow]
    BY <1>0, Types
<1>2. /\ MaySave(r, i) /\ item[r][i].step = "head" /\ Move(r, i, "saved") /\ Write(r, f, row)
      /\ pver' = [pver EXCEPT ![r] = @ \cup {NewVersion(r, i)}]
      /\ UNCHANGED <<slug, file, versions, objects, op, tx, raced>>
    BY DEF Save, MaySave, db, bucket, history
<1>3. item' = [item EXCEPT ![r][i] = t]
    BY <1>1, <1>2, Moved DEF Step
<1>4. t \in Item /\ t.step = "saved" /\ t.file = item[r][i].file /\ t.key = item[r][i].key /\ t.ver = item[r][i].ver
    BY <1>1, MovedItem DEF Step
<1>5. f \in FileId /\ item[r][i].ver # 0 /\ item[r][i].ver \in 0..MaxVersion
    BY <1>1, <1>2 DEF IInv, ItemsOK, ItemOK, Item
<1>6. Seen(r, f) \in Row
    BY <1>0, <1>2, <1>5, SeenRows DEF MaySave, Readable
<1>7. row \in Row /\ row.last = t.ver /\ row.owner = Seen(r, f).owner /\ row.name = Seen(r, f).name
    BY <1>4, <1>5, <1>6 DEF Row
<1> HIDE DEF t, row
<1>8. RowWritten(r, f, row) /\ \A q \in Request : q # r => pend'[q] = pend[q]
    BY <1>1, <1>2, <1>5, <1>7, OneRow DEF Write, Written
<1>9. Turned(r, i, t) /\ item'[r][i] = t
    BY <1>1, <1>3, <1>4, OneItem DEF Turned
<1>10. \A g \in DOMAIN pend'[r] \ raced' :
          \/ Carries(r, i, g)'
          \/ g \in DOMAIN pend[r] /\ pend'[r][g] = pend[r][g] /\ ~Carries(r, i, g)
    <2> SUFFICES ASSUME NEW g \in DOMAIN pend'[r], g \notin raced
                 PROVE  \/ Carries(r, i, g)'
                        \/ g \in DOMAIN pend[r] /\ pend'[r][g] = pend[r][g] /\ ~Carries(r, i, g)
        BY <1>2
    <2>1. CASE g # f
        BY <1>8, <2>1 DEF RowWritten, Carries
    <2>2. CASE g = f
        <3>1. Carries(r, i, f) /\ Seen(r, f) = pend[r][f]
            BY <1>2, <2>2, HeadHolds
        <3>2. pend'[r][f] = row
            BY <1>8, <2>2 DEF RowWritten
        <3>3. QED
            BY <1>2, <1>4, <1>5, <1>7, <1>9, <2>2, <3>1, <3>2 DEF Carries, FilePath
    <2>3. QED
        BY <2>1, <2>2
<1>11. \A q \in Request : DOMAIN pend[q] \subseteq DOMAIN pend'[q] /\ (q # r => pend'[q] = pend[q])
    BY <1>8 DEF RowWritten
<1>12. /\ \A q \in Request : q # r => pver'[q] = pver[q]
       /\ \A v \in pver'[r] : v \in pver[r] \/ (t.step = "saved" /\ v.id = t.ver /\ v.file = t.file)
    BY <1>1, <1>2, <1>4 DEF NewVersion
<1>13. ObjectsStay(r, i) /\ (t.ver # 0 => objects'[t.ver] \in {t.key, NoKey})
    BY <1>2, <1>4 DEF ObjectsStay, Serving, KeyOK
<1>14. QED
    BY <1>2, <1>4, <1>9, <1>10, <1>11, <1>12, <1>13, TurnServes

LEMMA UpsertServes ==
    ASSUME IInv, Serving, NEW r \in Request, NEW i \in Index, NEW f \in FileId, Upsert(r, i, f)
    PROVE  Serving'
<1> DEFINE n == op[r].names[i]
           row == Upserted(r, n, f)
<1>0. Typed
    BY DEF IInv
<1>1. /\ item \in [Request -> [Index -> Item]] /\ pend \in [Request -> Pending]
    BY <1>0, Types
<1>6. PICK t \in Item : /\ item' = [item EXCEPT ![r][i] = t] /\ t.step \in {"put", "failed"} /\ t.file = f
                        /\ t.key = FilePath(op[r].user, n) /\ t.ver = 0
    BY UpsertedItem
<1>2. /\ item[r][i].step = "upsert" /\ item' = [item EXCEPT ![r][i] = t] /\ Write(r, f, row)
      /\ raced' = raced \cup {g \in {f} : \E j \in Index \ {i} : item[r][j].file = g}
      /\ UNCHANGED <<slug, file, versions, objects, op, tx, pver>>
    BY <1>6 DEF Upsert, NextUpsert, db, bucket, MayUpsert
<1>3. op[r].kind = "upload" /\ op[r].user \in User /\ n \in Name /\ item[r][i].ver = 0
    BY <1>2 DEF Serving, KindOK, KindOf, IInv, OpOK, ItemsOK, ItemOK, Unput
<1>4. row \in Row /\ (f \notin Named(r, n) \/ Seen(r, f).name = n => row.owner = op[r].user /\ row.name = n)
    <2>1. CASE f \in Named(r, n)
        <3>1. Seen(r, f) \in Row
            BY <1>0, <2>1, SeenRows DEF Named
        <3>2. row = [Seen(r, f) EXCEPT !.owner = op[r].user]
            BY <2>1 DEF Upserted
        <3>3. QED
            BY <1>3, <2>1, <3>1, <3>2 DEF Row, Named
    <2>2. CASE f \notin Named(r, n)
        <3>1. row = [name |-> n, owner |-> op[r].user, last |-> 0, deleted |-> FALSE]
            BY <2>2 DEF Upserted
        <3>2. QED
            BY <1>3, <3>1, FilesAssumption DEF Row
    <2>3. QED
        BY <2>1, <2>2
<1>5. row.owner = op[r].user /\ row.name = n
    BY <1>4 DEF Named
<1>7. t.step \in {"failed", "put"} /\ t.file = f /\ t.key = FilePath(op[r].user, n) /\ t.ver = 0
    BY <1>6
<1> HIDE DEF row, n
<1>8. RowWritten(r, f, row) /\ \A q \in Request : q # r => pend'[q] = pend[q]
    BY <1>1, <1>2, <1>4, OneRow DEF Write, Written
<1>9. Turned(r, i, t) /\ item'[r][i] = t
    BY <1>1, <1>2, <1>6, OneItem DEF Turned
<1>10. f \notin raced' => \A j \in Index \ {i} : item[r][j].file # f
    BY <1>2
<1>11. ASSUME NEW g \in DOMAIN pend'[r], g \notin raced'
       PROVE  \/ Carries(r, i, g)'
              \/ g \in DOMAIN pend[r] /\ pend'[r][g] = pend[r][g] /\ ~Carries(r, i, g)
    <2>1. CASE g # f
        BY <1>2, <1>8, <1>11, <2>1 DEF RowWritten, Carries
    <2>2. CASE g = f
        <3>1. pend'[r][g] = row
            BY <1>8, <2>2 DEF RowWritten
        <3>2. QED
            BY <1>2, <1>5, <1>7, <1>9, <2>2, <3>1 DEF Carries, FilePath
    <2>3. QED
        BY <2>1, <2>2
<1>12. \/ t.file \in raced'
       \/ /\ op[r].kind = "upload" /\ t.file \in DOMAIN pend'[r]
          /\ \A j \in Index \ {i} : item[r][j].file # t.file
    BY <1>3, <1>7, <1>8, <1>10 DEF RowWritten
<1>13. \A q \in Request : DOMAIN pend[q] \subseteq DOMAIN pend'[q] /\ (q # r => pend'[q] = pend[q])
    BY <1>8 DEF RowWritten
<1>14. ObjectsStay(r, i) /\ raced \subseteq raced'
    BY <1>2 DEF ObjectsStay
<1>15. QED
    BY <1>2, <1>6, <1>7, <1>9, <1>11, <1>12, <1>13, <1>14, TurnServes

\* An update is of a file that is edited, and so counted as such.
LEMMA UpdateServes ==
    ASSUME IInv, CacheOK, Serving, NEW r \in Request, FindForUpdate(r) \/ Rename(r)
    PROVE  Serving'
<1>0. Typed /\ 1 \in Index
    BY FilesAssumption DEF IInv, Index
<1>1. /\ item \in [Request -> [Index -> Item]] /\ pend \in [Request -> Pending] /\ item[r][1] \in Item
      /\ file \in [FileId -> Row \cup {NoFile}] /\ MaxVersion \in Nat
    BY <1>0, Types, FilesAssumption
<1>2. /\ item[r][1].step \in {"find", "rename"} /\ UNCHANGED <<slug, file, versions, objects, op, tx, pver, raced>>
    BY DEF FindForUpdate, Rename, db, bucket, history, MayRename
<1>3. /\ op[r].kind = "update" /\ op[r].file \in raced /\ op[r].file \in FileId /\ op[r].name \in Name \cup {NoName}
      /\ item[r][1].ver = 0 /\ (item[r][1].step = "rename" => op[r].name # NoName)
    BY <1>0, <1>2 DEF Serving, KindOK, KindOf, IInv, OpOK, ItemsOK, ItemOK, Unput
<1>4. PICK t \in Item : /\ item' = [item EXCEPT ![r][1] = t] /\ t.ver = 0
                        /\ t.step \notin {"none", "upsert", "find"}
                        /\ t.file \in {item[r][1].file, NoFile} \cup raced
    <2>1. CASE FindForUpdate(r)
        BY <1>3, <2>1, FoundItem
    <2>2. CASE Rename(r)
        <3>1. PICK s \in Step : s \in {"put", "saved", "failed"} /\ Move(r, 1, s)
            BY <2>2 DEF Rename, Step
        <3>2. item' = [item EXCEPT ![r][1] = [item[r][1] EXCEPT !.step = s]]
            BY <1>0, <1>1, <3>1, Moved
        <3>3. /\ [item[r][1] EXCEPT !.step = s] \in Item /\ [item[r][1] EXCEPT !.step = s].step = s
              /\ [item[r][1] EXCEPT !.step = s].file = item[r][1].file
              /\ [item[r][1] EXCEPT !.step = s].ver = item[r][1].ver
            BY <1>1, MovedItem
        <3>4. QED
            BY <1>3, <3>1, <3>2, <3>3
    <2>3. QED
        BY <2>1, <2>2
<1>5. Turned(r, 1, t) /\ item'[r][1] = t
    BY <1>0, <1>1, <1>4, OneItem DEF Turned
<1>6. /\ \A q \in Request : DOMAIN pend[q] \subseteq DOMAIN pend'[q] /\ (q # r => pend'[q] = pend[q])
      /\ \A g \in DOMAIN pend'[r] \ raced : g \in DOMAIN pend[r] /\ pend'[r][g] = pend[r][g]
    <2>1. CASE UNCHANGED pend
        BY <2>1
    <2>2. CASE Rename(r) /\ file[op[r].file] # NoFile /\ Write(r, op[r].file, [file[op[r].file] EXCEPT !.name = op[r].name])
        <3> DEFINE row == [file[op[r].file] EXCEPT !.name = op[r].name]
        <3>1. file[op[r].file] \in Row /\ op[r].name \in Name
            BY <1>1, <1>3, <2>2 DEF Rename, MayRename
        <3>2. row \in Row
            BY <3>1 DEF Row
        <3>3. Write(r, op[r].file, row)
            BY <2>2
        <3> HIDE DEF row
        <3>4. RowWritten(r, op[r].file, row) /\ \A q \in Request : q # r => pend'[q] = pend[q]
            BY <1>1, <1>3, <3>2, <3>3, OneRow DEF Write, Written
        <3>5. QED
            BY <1>3, <3>4 DEF RowWritten
    <2>3. QED
        BY <2>1, <2>2 DEF FindForUpdate, Rename
<1>7. \A g \in DOMAIN pend'[r] \ raced' : g \in DOMAIN pend[r] /\ pend'[r][g] = pend[r][g] /\ ~Carries(r, 1, g)
    BY <1>2, <1>6 DEF Carries
<1>8. ObjectsStay(r, 1)
    BY <1>2 DEF ObjectsStay
<1>9. QED
    BY <1>0, <1>2, <1>3, <1>4, <1>5, <1>6, <1>7, <1>8, TurnServes

\* A request begins, ends, or loses what it had not committed.
LEMMA SlotServes ==
    ASSUME IInv, Serving, NEW r \in Request,
           \A q \in Request : q # r => /\ op'[q] = op[q] /\ tx'[q] = tx[q] /\ item'[q] = item[q]
                                       /\ pend'[q] = pend[q] /\ pver'[q] = pver[q],
           DOMAIN pend'[r] = {}, pver'[r] = {}, op'[r].kind = "update" => op'[r].file \in raced',
           \A i \in Index : \/ item'[r][i] = item[r][i] /\ op'[r] = op[r] /\ tx'[r] # "open"
                            \/ item'[r][i].ver = 0 /\ item'[r][i].file = NoFile /\ KindOf(r, i)',
           UNCHANGED <<slug, objects>>, raced \subseteq raced',
           \A v \in versions' : v \in versions \/ v.file \in raced \cup DOMAIN pend[r],
           ServedOK'
    PROVE  Serving'
<1>0. NoFile \notin FileId
    BY FilesAssumption
<1>1. KindOK'
    <2>1. \A i \in Index : KindOf(r, i)'
        BY DEF Serving, KindOK, KindOf
    <2>2. \A q \in Request : q # r => \A i \in Index : KindOf(q, i)'
        BY DEF Serving, KindOK, KindOf
    <2>3. \A q \in Request : q # r => (op'[q].kind = "update" => op'[q].file \in raced')
        BY DEF Serving, KindOK
    <2>4. QED
        BY <2>1, <2>2, <2>3 DEF KindOK
<1>2. KeyOK'
    <2>1. \A q \in Request, j \in Index : item'[q][j] = item[q][j] \/ item'[q][j].ver = 0
        OBVIOUS
    <2>2. QED
        BY <2>1 DEF Serving, KeyOK
<1>3. OnceOK'
    <2> SUFFICES ASSUME NEW q \in Request, NEW i \in Index, NEW f \in FileId, item'[q][i].file = f, f \notin raced'
                 PROVE  /\ op'[q].kind = "upload"
                        /\ tx'[q] = "open" => f \in DOMAIN pend'[q]
                        /\ \A j \in Index : item'[q][j].file = f => j = i
        BY DEF OnceOK, OnceOf
    <2>1. \A j \in Index : item'[q][j].file = f => item[q][j].file = f
        BY <1>0
    <2>2. item[q][i].file = f /\ f \notin raced
        BY <2>1
    <2>3. /\ op[q].kind = "upload" /\ (tx[q] = "open" => f \in DOMAIN pend[q])
          /\ \A j \in Index : item[q][j].file = f => j = i
        BY <2>2 DEF Serving, OnceOK, OnceOf
    <2>4. CASE q = r
        BY <1>0, <2>1, <2>3, <2>4
    <2>5. CASE q # r
        BY <2>1, <2>3, <2>5
    <2>6. QED
        BY <2>4, <2>5
<1>4. SavedOK'
    <2> SUFFICES ASSUME NEW q \in Request, NEW v \in pver'[q] PROVE SavedOf(q, v)'
        BY DEF SavedOK
    <2>1. q # r /\ SavedOf(q, v)
        BY DEF Serving, SavedOK
    <2>2. QED
        BY <2>1 DEF SavedOf
<1>5. HeldOK'
    <2> SUFFICES ASSUME NEW q \in Request, NEW f \in DOMAIN pend'[q], f \notin raced'
                 PROVE  \E i \in Index : Carries(q, i, f)'
        BY DEF HeldOK
    <2>1. q # r /\ f \in DOMAIN pend[q] /\ f \notin raced
        OBVIOUS
    <2>2. PICK i \in Index : Carries(q, i, f)
        BY <2>1 DEF Serving, HeldOK
    <2>3. f \notin DOMAIN pend[r]
        BY <2>1 DEF IInv, PendOK
    <2>4. \A v \in versions' : v.file = f => v \in versions
        BY <2>1, <2>3
    <2>5. pend'[q] = pend[q] /\ item'[q] = item[q]
        BY <2>1
    <2>6. Carries(q, i, f)'
        BY <2>2, <2>4, <2>5 DEF Carries, FilePath
    <2>7. QED
        BY <2>6
<1>6. QED
    BY <1>1, <1>2, <1>3, <1>4, <1>5 DEF Serving

LEMMA BeginServes ==
    ASSUME IInv, Serving, NEW r \in Request, NEW o, NEW steps, NEW room, Begin(r, o, steps, room), raced \subseteq raced',
           o.kind = "update" => o.file \in raced',
           \A i \in Index : /\ steps[i] = "upsert" => o.kind = "upload"
                            /\ steps[i] = "find" => o.kind = "update"
                            /\ steps[i] # "rename"
    PROVE  Serving'
<1>0. Typed
    BY DEF IInv
<1>1. /\ op[r] = Idle /\ op' = [op EXCEPT ![r] = o] /\ tx' = [tx EXCEPT ![r] = "open"]
      /\ item' = [item EXCEPT ![r] = [i \in Index |-> Fresh(steps[i])]]
      /\ UNCHANGED <<slug, file, versions, objects, pend, pver>>
    BY DEF Begin, db, bucket
<1>2. op \in [Request -> Operation] /\ tx \in [Request -> {"none", "open", "rolledback"}]
      /\ item \in [Request -> [Index -> Item]]
    BY <1>0, Types DEF Typed, StoresOK
<1>3. op'[r] = o /\ \A q \in Request : q # r => op'[q] = op[q] /\ tx'[q] = tx[q] /\ item'[q] = item[q]
    BY <1>1, <1>2
<1>4. DOMAIN pend[r] = {} /\ pver[r] = {}
    BY <1>1, IdleSlot
<1>5. ASSUME NEW i \in Index
      PROVE  item'[r][i].ver = 0 /\ item'[r][i].file = NoFile /\ item'[r][i].step = steps[i]
    <2>1. item'[r][i] = Fresh(steps[i])
        BY <1>1, <1>2
    <2>2. QED
        BY <2>1 DEF Fresh
<1>6. \A i \in Index : item'[r][i].ver = 0 /\ item'[r][i].file = NoFile /\ KindOf(r, i)'
    BY <1>3, <1>5 DEF KindOf
<1>7. ServedOK'
    BY <1>1, ServedStays DEF Serving
<1>8. QED
    BY <1>1, <1>3, <1>4, <1>6, <1>7, SlotServes

LEMMA CallServes ==
    ASSUME IInv, Serving, NEW r \in Request, Call(r)
    PROVE  Serving'
<1>1. ASSUME NEW u \in User, NEW names \in Names, StartUpload(r, u, names) PROVE Serving'
    <2> DEFINE o == [kind |-> "upload", user |-> u, names |-> names]
               steps == [i \in Index |-> IF i \in DOMAIN names THEN "upsert" ELSE "none"]
    <2>1. o.kind = "upload" /\ \A i \in Index : steps[i] \in {"upsert", "none"}
        OBVIOUS
    <2>2. Begin(r, o, steps, Len(names)) /\ UNCHANGED raced
        BY <1>1 DEF StartUpload
    <2> HIDE DEF o, steps
    <2>3. QED
        BY <2>1, <2>2, BeginServes
<1>2. ASSUME NEW u \in User, NEW f \in FileId, StartDelete(r, u, f) PROVE Serving'
    <2> DEFINE o == [kind |-> "delete", file |-> f]
               steps == [i \in Index |-> "none"]
    <2>1. o.kind = "delete" /\ \A i \in Index : steps[i] = "none"
        OBVIOUS
    <2>2. Begin(r, o, steps, 0) /\ UNCHANGED raced
        BY <1>2 DEF StartDelete
    <2> HIDE DEF o, steps
    <2>3. QED
        BY <2>1, <2>2, BeginServes
<1>3. ASSUME NEW u \in User, NEW f \in FileId, NEW n \in Name \cup {NoName}, NEW c \in BOOLEAN, StartUpdate(r, u, f, n, c)
      PROVE  Serving'
    <2> DEFINE o == [kind |-> "update", file |-> f, name |-> n, content |-> c]
               steps == [i \in Index |-> IF i = 1 THEN "find" ELSE "none"]
    <2>1. o.kind = "update" /\ o.file = f /\ \A i \in Index : steps[i] \in {"find", "none"}
        OBVIOUS
    <2>2. Begin(r, o, steps, 1) /\ raced' = raced \cup {f}
        BY <1>3 DEF StartUpdate
    <2> HIDE DEF o, steps
    <2>3. QED
        BY <2>1, <2>2, BeginServes
<1>4. QED
    BY <1>1, <1>2, <1>3 DEF Call

LEMMA CloseServes ==
    ASSUME IInv, Serving, NEW r \in Request, Close(r),
           DOMAIN pend'[r] = {}, pver'[r] = {},
           \A q \in Request : q # r => pend'[q] = pend[q] /\ pver'[q] = pver[q],
           UNCHANGED <<slug, objects, raced>>,
           \A v \in versions' : v \in versions \/ v.file \in raced \cup DOMAIN pend[r],
           ServedOK'
    PROVE  Serving'
<1>0. Typed
    BY DEF IInv
<1>1. op \in [Request -> Operation] /\ tx \in [Request -> {"none", "open", "rolledback"}]
      /\ item \in [Request -> [Index -> Item]]
    BY <1>0, Types DEF Typed, StoresOK
<1>2. /\ op'[r] = Idle /\ (\A i \in Index : item'[r][i] = Fresh("none"))
      /\ \A q \in Request : q # r => op'[q] = op[q] /\ tx'[q] = tx[q] /\ item'[q] = item[q]
    BY <1>1 DEF Close
<1>3. \A i \in Index : item'[r][i].ver = 0 /\ item'[r][i].file = NoFile /\ KindOf(r, i)'
    BY <1>2 DEF Fresh, KindOf
<1>4. op'[r].kind # "update"
    BY <1>2 DEF Idle
<1>5. QED
    BY <1>2, <1>3, <1>4, SlotServes

LEMMA DeleteRowServes ==
    ASSUME IInv, Serving, NEW r \in Request, DeleteRow(r)
    PROVE  Serving'
<1> DEFINE f == op[r].file
           row == IF file[f] = NoFile THEN NoFile ELSE [file[f] EXCEPT !.deleted = TRUE]
<1>0. Typed
    BY DEF IInv
<1>1. /\ op[r].kind = "delete" /\ file' = [file EXCEPT ![f] = row] /\ Close(r)
      /\ UNCHANGED <<slug, versions, objects, pend, pver, raced>>
    BY DEF DeleteRow, bucket, history, MayDelete
<1>2. f \in FileId /\ DOMAIN pend[r] = {} /\ \A i \in Index : item[r][i] = Fresh("none")
    BY <1>1 DEF IInv, OpOK
<1>3. pver[r] = {}
    BY <1>2 DEF IInv, VersionsOK, Fresh
<1>4. row # NoFile => /\ file[f] # NoFile /\ row.owner = file[f].owner
                      /\ row.name = file[f].name /\ row.last = file[f].last
    <2>1. file[f] # NoFile => file[f] \in Row
        BY <1>0, <1>2, Types
    <2>2. QED
        BY <2>1 DEF Row
<1> HIDE DEF row
<1>5. \A g \in FileId : file'[g] = IF g = f THEN row ELSE file[g]
    BY <1>0, <1>1, <1>2, Types
<1>6. ServedOK'
    BY <1>1, <1>4, <1>5, ServedStays DEF Serving
<1>7. QED
    BY <1>1, <1>2, <1>3, <1>6, CloseServes

LEMMA EndServes ==
    ASSUME IInv, Serving, NEW r \in Request, End(r)
    PROVE  Serving'
<1>1. tx[r] = "rolledback" /\ Close(r) /\ UNCHANGED <<slug, file, versions, objects, pend, pver, raced>>
    BY DEF End, db, bucket, history, MayEnd
<1>2. DOMAIN pend[r] = {} /\ pver[r] = {}
    BY <1>1 DEF IInv, PendOK, VersionsOK
<1>3. ServedOK'
    BY <1>1, ServedStays DEF Serving
<1>4. QED
    BY <1>1, <1>2, <1>3, CloseServes

\* A version that is committed is that of a file whose row the request held, and
\* then the newest one.
LEMMA CommitServes ==
    ASSUME IInv, Serving, NEW r \in Request, Commit(r)
    PROVE  Serving'
<1>0. Typed
    BY DEF IInv
<1>1. /\ tx[r] = "open" /\ Close(r) /\ \A i \in Index : item[r][i].step \in {"none", "saved"}
      /\ file' = [f \in FileId |-> Seen(r, f)] /\ versions' = versions \cup pver[r]
      /\ pend' = [pend EXCEPT ![r] = <<>>] /\ pver' = [pver EXCEPT ![r] = {}]
      /\ UNCHANGED <<slug, objects, raced>>
    BY DEF Commit, bucket, history, MayCommit
<1>2. /\ DOMAIN pend'[r] = {} /\ pver'[r] = {}
      /\ \A q \in Request : q # r => pend'[q] = pend[q] /\ pver'[q] = pver[q]
    BY <1>0, <1>1, RowsForgotten
<1>3. ASSUME NEW v \in pver[r], v.file \notin raced
      PROVE  v.file \in DOMAIN pend[r] /\ \A i \in Index : item[r][i].file = v.file => item[r][i].ver = v.id
    <2>1. v.file \in FileId
        BY <1>0, Types DEF VersionRow
    <2>2. PICK j \in Index : item[r][j].ver = v.id /\ item[r][j].file = v.file
        BY DEF Serving, SavedOK, SavedOf
    <2>3. QED
        BY <1>1, <1>3, <2>1, <2>2 DEF Serving, OnceOK, OnceOf
<1>4. ServedOK'
    <2> SUFFICES ASSUME NEW f \in FileId, f \notin raced, file'[f] # NoFile
                 PROVE  /\ objects[file'[f].last] = FilePath(file[f].owner, file[f].name)'
                        /\ \A v \in versions \cup pver[r] : v.file = f => v.id <= file'[f].last
        BY <1>1 DEF ServedOK, ServedOf
    <2>1. file'[f] = Seen(r, f)
        BY <1>1
    <2>2. CASE f \notin DOMAIN pend[r]
        <3>1. file'[f] = file[f]
            BY <2>1, <2>2 DEF Seen
        <3>2. \A v \in pver[r] : v.file # f
            BY <1>3, <2>2
        <3>3. QED
            BY <1>1, <3>1, <3>2 DEF Serving, ServedOK, ServedOf, FilePath
    <2>3. CASE f \in DOMAIN pend[r]
        <3>1. file'[f] = pend[r][f]
            BY <2>1, <2>3 DEF Seen
        <3>2. PICK i \in Index : Carries(r, i, f)
            BY <2>3 DEF Serving, HeldOK
        <3>3. item[r][i].step = "saved" /\ item[r][i].file = f
            BY <1>1, <3>2 DEF Carries
        <3>4. /\ item[r][i].key = FilePath(pend[r][f].owner, pend[r][f].name)
              /\ item[r][i].ver # 0 /\ pend[r][f].last = item[r][i].ver
              /\ \A v \in versions : v.file = f => v.id < item[r][i].ver
            BY <3>2, <3>3 DEF Carries
        <3>5. objects[item[r][i].ver] = item[r][i].key
            BY <3>3, <3>4 DEF Serving, KeyOK, IInv, ItemsOK, ItemOK
        <3>6. item[r][i].ver \in Nat /\ \A v \in versions \cup pver[r] : v.id \in Nat
            <4>1. item[r][i] \in Item /\ versions \cup pver[r] \subseteq VersionRow
                BY <1>0, Types
            <4>2. QED
                BY <4>1, FilesAssumption DEF Item, VersionRow, Version
        <3>7. \A v \in versions \cup pver[r] : v.file = f => v.id <= item[r][i].ver
            BY <1>3, <3>3, <3>4, <3>6
        <3>8. QED
            BY <1>1, <3>1, <3>4, <3>5, <3>7 DEF FilePath
    <2>4. QED
        BY <2>2, <2>3
<1>5. \A v \in versions' : v \in versions \/ v.file \in raced \cup DOMAIN pend[r]
    BY <1>1, <1>3
<1>6. QED
    BY <1>1, <1>2, <1>4, <1>5, CloseServes

LEMMA UndoServes ==
    ASSUME IInv, Serving, NEW r \in Request, Rollback(r) \/ BreakDeadlock(r)
    PROVE  Serving'
<1>0. Typed
    BY DEF IInv
<1>1. /\ pend' = [pend EXCEPT ![r] = <<>>] /\ pver' = [pver EXCEPT ![r] = {}]
      /\ tx' = [tx EXCEPT ![r] = "rolledback"]
      /\ UNCHANGED <<slug, file, versions, objects, op, raced>>
    BY DEF Rollback, BreakDeadlock, Undo, db, bucket
<1>2. /\ item \in [Request -> [Index -> Item]] /\ tx \in [Request -> {"none", "open", "rolledback"}]
    BY <1>0, Types
<1>3. /\ DOMAIN pend'[r] = {} /\ pver'[r] = {}
      /\ \A q \in Request : q # r => pend'[q] = pend[q] /\ pver'[q] = pver[q]
    BY <1>0, <1>1, RowsForgotten
<1>4. tx'[r] = "rolledback" /\ \A q \in Request : q # r => tx'[q] = tx[q]
    BY <1>1, <1>2
<1>5. /\ \A q \in Request : q # r => item'[q] = item[q]
      /\ \A i \in Index : item'[r][i] = item[r][i] \/ item'[r][i] = Fresh("failed")
    <2>1. CASE Rollback(r)
        BY <2>1 DEF Rollback
    <2>2. CASE BreakDeadlock(r)
        <3> DEFINE its == [i \in Index |->
                            IF item[r][i].step \in {"upsert", "rename"} \/ (item[r][i].step = "put" /\ ~ReadBack(r))
                            THEN Fresh("failed") ELSE item[r][i]]
        <3>1. item' = [item EXCEPT ![r] = its]
            BY <1>2, <2>2 DEF BreakDeadlock
        <3>2. \A i \in Index : its[i] = item[r][i] \/ its[i] = Fresh("failed")
            OBVIOUS
        <3> HIDE DEF its
        <3>3. QED
            BY <1>2, <3>1, <3>2
    <2>3. QED
        BY <2>1, <2>2
<1>6. \A i \in Index : item'[r][i] = Fresh("failed") =>
           item'[r][i].ver = 0 /\ item'[r][i].file = NoFile /\ KindOf(r, i)'
    BY DEF Fresh, KindOf
<1>7. ServedOK' /\ (op'[r].kind = "update" => op'[r].file \in raced')
    BY <1>1, ServedStays DEF Serving, KindOK
<1>8. QED
    BY <1>1, <1>3, <1>4, <1>5, <1>6, <1>7, SlotServes

LEMMA CrashServes == ASSUME IInv, Serving, Crash PROVE Serving'
<1>1. \A r \in Request : /\ op'[r] = Idle /\ DOMAIN pend'[r] = {} /\ pver'[r] = {}
                         /\ \A i \in Index : item'[r][i] = Fresh("none")
    BY NoRows DEF Crash
<1>2. UNCHANGED <<slug, file, versions, objects, raced>>
    BY DEF Crash, db, bucket
<1>3. ServedOK'
    BY <1>2, ServedStays DEF Serving
<1>4. KindOK' /\ KeyOK' /\ OnceOK'
    BY <1>1, FilesAssumption DEF KindOK, KindOf, KeyOK, OnceOK, OnceOf, Fresh, Idle
<1>5. SavedOK' /\ HeldOK'
    BY <1>1 DEF SavedOK, HeldOK
<1>6. QED
    BY <1>3, <1>4, <1>5 DEF Serving

LEMMA ServingHolds == IInv /\ CacheOK /\ Serving /\ [Next]_vars => Serving'
<1> SUFFICES ASSUME IInv, CacheOK, Serving, [Next]_vars PROVE Serving'
    OBVIOUS
<1>1. ASSUME NEW r \in Request, NEW i \in Index, Upload(r, i) PROVE Serving'
    BY <1>1, UpsertServes, PutServes, MoveServes, SaveServes, SaveFailsServes DEF Upload
<1>2. ASSUME NEW r \in Request, Work(r) PROVE Serving'
    BY <1>1, <1>2, UpdateServes, DeleteRowServes, CommitServes, UndoServes, EndServes DEF Work
<1>3. ASSUME UNCHANGED <<slug, file, versions, objects, op, tx, pend, pver, item, raced>> PROVE Serving'
    <2>1. KindOK' /\ KeyOK' /\ OnceOK' /\ SavedOK'
        BY <1>3 DEF Serving, KindOK, KindOf, KeyOK, OnceOK, OnceOf, SavedOK, SavedOf
    <2>2. HeldOK'
        <3>1. \A r \in Request, i \in Index : \A f \in DOMAIN pend[r] : Carries(r, i, f) => Carries(r, i, f)'
            BY <1>3 DEF Carries, FilePath
        <3>2. QED
            BY <1>3, <3>1 DEF Serving, HeldOK
    <2>3. ServedOK'
        BY <1>3, ServedStays DEF Serving
    <2>4. QED
        BY <2>1, <2>2, <2>3 DEF Serving
<1>4. ASSUME NEW f \in FileId, NEW k \in Key, Expire(f, k) PROVE Serving'
    BY <1>3, <1>4 DEF Expire, db, bucket, history
<1>5. CASE UNCHANGED vars
    BY <1>3, <1>5 DEF vars
<1>6. QED
    BY <1>2, <1>4, <1>5, CallServes, CrashServes DEF Next

\* The objects of committed versions stay.
LEMMA CommittedKeep ==
    ASSUME IInv, CacheOK, Serving, [Next]_vars
    PROVE  \A v \in versions : objects'[v.id] = objects[v.id]
<1> SUFFICES ASSUME NEW v \in versions PROVE objects'[v.id] = objects[v.id]
    OBVIOUS
<1>1. ASSUME NEW r \in Request, NEW i \in Index, Upload(r, i) PROVE objects'[v.id] = objects[v.id]
    <2>1. objects \in [Version -> Key \cup {NoKey}]
        BY Types DEF IInv
    <2>2. ObjectsStay(r, i)
        BY <1>1, <2>1 DEF Upload, Upsert, Put, PutFails, Save, SaveFails, Cleanup, Drop, bucket, ObjectsStay
    <2>3. QED
        BY <2>2, CommittedStay
<1>2. ASSUME NEW r \in Request, FindForUpdate(r) \/ Rename(r) \/ DeleteRow(r) \/ Commit(r) \/ Undo(r) \/ End(r)
      PROVE  UNCHANGED objects
    BY <1>2 DEF FindForUpdate, Rename, DeleteRow, Commit, Undo, End, bucket
<1>3. ASSUME NEW r \in Request, Call(r) PROVE UNCHANGED objects
    BY <1>3 DEF Call, StartUpload, StartUpdate, StartDelete, Begin, bucket
<1>4. CASE Crash
    BY <1>4 DEF Crash, bucket
<1>5. ASSUME NEW f \in FileId, NEW k \in Key, Expire(f, k) PROVE UNCHANGED objects
    BY <1>5 DEF Expire, bucket
<1>6. CASE UNCHANGED vars
    BY <1>6 DEF vars
<1>7. ASSUME NEW r \in Request, Work(r) PROVE objects'[v.id] = objects[v.id]
    BY <1>1, <1>2, <1>7 DEF Work, Rollback, BreakDeadlock
<1>8. QED
    BY <1>3, <1>4, <1>5, <1>6, <1>7 DEF Next

\* Only keys of now and of before are kept, versions and raced rows never forgotten.
LEMMA KeysKept ==
    ASSUME IInv, CacheOK, [Next]_vars
    PROVE  versions \subseteq versions' /\ raced \subseteq raced' /\ \A f \in FileId : past'[f] \subseteq Keys(f)
<1> DEFINE Kept == versions \subseteq versions' /\ raced \subseteq raced' /\ \A f \in FileId : past'[f] \subseteq Keys(f)
<1>1. ASSUME UNCHANGED past, versions \subseteq versions', raced \subseteq raced' PROVE Kept
    BY <1>1 DEF Keys
<1>2. ASSUME NEW r \in Request, NEW i \in Index, Upload(r, i) PROVE Kept
    BY <1>1, <1>2 DEF Upload, Upsert, Put, PutFails, Save, SaveFails, Cleanup, Drop, db, cache, history
<1>3. ASSUME NEW r \in Request, FindForUpdate(r) \/ Rename(r) \/ Undo(r) \/ End(r) PROVE Kept
    BY <1>1, <1>3 DEF FindForUpdate, Rename, Undo, End, db, cache, history
<1>4. ASSUME NEW r \in Request, DeleteRow(r) PROVE Kept
    BY <1>4 DEF DeleteRow, Keys, history, CacheOK
<1>5. ASSUME NEW r \in Request, Commit(r) PROVE Kept
    BY <1>5 DEF Commit, Keys, history, CacheOK
<1>6. ASSUME NEW r \in Request, Call(r) PROVE Kept
    BY <1>1, <1>6 DEF Call, StartUpload, StartUpdate, StartDelete, Begin, db, cache
<1>7. CASE Crash
    BY <1>1, <1>7 DEF Crash, db
<1>8. ASSUME NEW f \in FileId, NEW k \in Key, Expire(f, k) PROVE Kept
    BY <1>8 DEF Expire, Keys, db, history, CacheOK
<1>9. CASE UNCHANGED vars
    BY <1>1, <1>9 DEF vars
<1>10. ASSUME NEW r \in Request, Work(r) PROVE Kept
    BY <1>2, <1>3, <1>4, <1>5, <1>10 DEF Work, Rollback, BreakDeadlock
<1>11. QED
    BY <1>6, <1>7, <1>8, <1>9, <1>10 DEF Next

\* A key such a file had, or has, is that of a committed version of it.
HadVersion(f, k) == \E v \in versions : v.file = f /\ objects[v.id] = k
PastOK ==
    /\ \A f \in FileId : past[f] # {} => file[f] # NoFile
    /\ \A f \in FileId \ raced : \A k \in past[f] : HadVersion(f, k)

LEMMA KeysHadVersions ==
    ASSUME IInv, Serving, PastOK, NEW f \in FileId \ raced, NEW k \in Keys(f)
    PROVE  HadVersion(f, k)
<1>1. CASE k \in past[f]
    BY <1>1 DEF PastOK
<1>2. CASE k \in LiveKeys(file[f])
    <2>1. file[f] # NoFile /\ k = FilePath(file[f].owner, file[f].name)
        BY <1>2 DEF LiveKeys, Live, KeyOf
    <2>2. PICK v \in versions : v.file = f /\ v.id = file[f].last
        BY <2>1 DEF IInv, ContentOK
    <2>3. objects[v.id] = k
        BY <2>1, <2>2 DEF Serving, ServedOK, ServedOf
    <2>4. QED
        BY <2>2, <2>3 DEF HadVersion
<1>3. QED
    BY <1>1, <1>2 DEF Keys

LEMMA PastHolds == IInv /\ CacheOK /\ Serving /\ PastOK /\ [Next]_vars => PastOK'
<1> SUFFICES ASSUME IInv, CacheOK, Serving, PastOK, [Next]_vars PROVE PastOK'
    OBVIOUS
<1>1. ASSUME NEW f \in FileId, past'[f] # {} PROVE file'[f] # NoFile
    <2>1. Keys(f) # {}
        BY <1>1, KeysKept
    <2>2. file[f] # NoFile
        BY <2>1 DEF Keys, LiveKeys, Live, PastOK
    <2>3. QED
        BY <2>2, NothingLost
<1>2. ASSUME NEW f \in FileId \ raced', NEW k \in past'[f] PROVE HadVersion(f, k)'
    <2>1. f \in FileId \ raced /\ k \in Keys(f) /\ versions \subseteq versions'
        BY KeysKept
    <2>2. HadVersion(f, k)
        BY <2>1, KeysHadVersions
    <2>3. QED
        BY <2>1, <2>2, CommittedKeep DEF HadVersion
<1>3. QED
    BY <1>1, <1>2 DEF PastOK

\* The newest of some objects.
LEMMA Newest ==
    ASSUME NEW S \in SUBSET Version, S # {}
    PROVE  \E v \in S : \A w \in S : w <= v
<1> DEFINE T == {MaxVersion - v : v \in S}
<1>0. \A v \in S : v \in Nat /\ v <= MaxVersion /\ MaxVersion - v \in Nat
    <2>1. MaxVersion \in Nat /\ \A v \in 1..MaxVersion : v \in Nat /\ v <= MaxVersion /\ MaxVersion - v \in Nat
        BY FilesAssumption
    <2>2. QED
        BY <2>1 DEF Version
<1>1. T \subseteq Nat /\ T # {}
    BY <1>0
<1>2. PICK t \in T : \A u \in T : ~(<<u, t>> \in OpToRel(<, Nat))
    BY <1>1, NatLessThanWellFounded, WFMin
<1>3. \A u \in T : ~(u < t)
    BY <1>1, <1>2 DEF OpToRel
<1>4. PICK v \in S : t = MaxVersion - v
    OBVIOUS
<1>5. ASSUME NEW w \in S PROVE w <= v
    <2>1. MaxVersion - w \in T
        OBVIOUS
    <2>2. ~(MaxVersion - w < MaxVersion - v)
        BY <1>3, <1>4, <2>1
    <2>3. QED
        BY <1>0, <2>2, FilesAssumption
<1>6. QED
    BY <1>5

LEMMA NewestIsServed ==
    ASSUME NEW k, NEW v \in ObjectsAt(k), \A w \in ObjectsAt(k) : w <= v
    PROVE  Download(k) = v
<1>1. ObjectsAt(k) \subseteq Nat
    BY FilesAssumption DEF ObjectsAt, Version
<1>2. \A u \in ObjectsAt(k) : (\A w \in ObjectsAt(k) : w <= u) => u = v
    BY <1>1
<1>3. (CHOOSE u \in ObjectsAt(k) : \A w \in ObjectsAt(k) : w <= u) = v
    BY <1>2
<1>4. QED
    BY <1>3 DEF Download

\* What is at a key such a file had when no upload is at work on it: versions of
\* the file, of which its row's last one is the newest under the row's own key.
LEMMA LastIsServed ==
    ASSUME IInv, CacheOK, Serving, PastOK, OnlyStraysAreOrphans, NEW f \in FileId, NEW k \in Keys(f),
           f \notin raced, ~InFlight(k), ObjectsAt(k) \cap stray = {},
           \A v \in versions : objects[v.id] = k => v.file = f
    PROVE  /\ \E v \in versions : v.file = f /\ v.id = Download(k)
           /\ k = KeyOf(file[f]) => Download(k) = file[f].last
<1>0. /\ versions \subseteq VersionRow /\ item \in [Request -> [Index -> Item]]
      /\ tx \in [Request -> {"none", "open", "rolledback"}] /\ file[f] \in Row \cup {NoFile}
    BY Types DEF IInv
<1>1. PICK u \in versions : u.file = f /\ objects[u.id] = k
    BY KeysHadVersions DEF HadVersion
<1>2. u.id \in ObjectsAt(k) /\ ObjectsAt(k) \in SUBSET Version
    BY <1>0, <1>1 DEF ObjectsAt, VersionRow
<1>3. k # NoKey
    BY <1>1 DEF IInv, VersionsOK
<1>4. ASSUME NEW v \in ObjectsAt(k) PROVE \E w \in versions : w.id = v /\ w.file = f
    <2>1. v \in Version /\ objects[v] = k /\ v \notin stray
        BY DEF ObjectsAt
    <2>2. ASSUME NEW r \in Request, NEW i \in Index, item[r][i].ver = v PROVE FALSE
        <3>1. v # 0 /\ item[r][i] \in Item
            BY <1>0, <2>1, FilesAssumption DEF Version
        <3>2. item[r][i].key = k
            BY <1>3, <2>1, <2>2, <3>1 DEF Serving, KeyOK
        <3>3. tx[r] # "open" /\ item[r][i].step \notin {"head", "cleanup"}
            BY <2>2, <3>1, <3>2 DEF InFlight
        <3>4. item[r][i].step \in {"saved", "drop", "failed"}
            BY <2>2, <3>1, <3>3 DEF Item, Step, IInv, ItemsOK, ItemOK, Unput
        <3>5. QED
            BY <1>3, <2>1, <2>2, <3>1, <3>3, <3>4 DEF IInv, ItemsOK, ItemOK
    <2>3. PICK w \in versions : w.id = v
        BY <1>3, <2>1, <2>2 DEF OnlyStraysAreOrphans
    <2>4. QED
        BY <2>1, <2>3
<1>5. \E v \in versions : v.file = f /\ v.id = Download(k)
    BY <1>2, <1>4, Newest, NewestIsServed
<1>6. ASSUME k = KeyOf(file[f]), file[f] # NoFile PROVE Download(k) = file[f].last
    <2>1. objects[file[f].last] = k /\ \A v \in versions : v.file = f => v.id <= file[f].last
        BY <1>6 DEF Serving, ServedOK, ServedOf, KeyOf
    <2>2. PICK w \in versions : w.id = file[f].last
        BY <1>6 DEF IInv, ContentOK
    <2>3. file[f].last \in ObjectsAt(k)
        BY <1>0, <2>1, <2>2 DEF ObjectsAt, VersionRow
    <2>4. \A v \in ObjectsAt(k) : v <= file[f].last
        BY <1>4, <2>1
    <2>5. QED
        BY <2>3, <2>4, NewestIsServed
<1>7. file[f] # NoFile
    BY DEF Keys, LiveKeys, Live, PastOK
<1>8. QED
    BY <1>5, <1>6, <1>7

LEMMA AlwaysServing == Spec => [](Serving /\ PastOK)
<1>1. Init => Serving
    <2> SUFFICES ASSUME Init PROVE Serving
        OBVIOUS
    <2>1. \A r \in Request : op[r] = Idle /\ DOMAIN pend[r] = {} /\ pver[r] = {} /\ \A i \in Index : item[r][i] = Fresh("none")
        BY NoRows DEF Init
    <2>2. KindOK /\ KeyOK /\ OnceOK
        BY <2>1, FilesAssumption DEF KindOK, KindOf, KeyOK, OnceOK, OnceOf, Fresh, Idle
    <2>3. SavedOK /\ HeldOK /\ ServedOK
        BY <2>1 DEF Init, SavedOK, HeldOK, ServedOK, ServedOf
    <2>4. QED
        BY <2>2, <2>3 DEF Serving
<1>2. Init => PastOK
    BY DEF Init, PastOK
<1>3. IInv /\ CacheOK /\ Serving /\ PastOK /\ [Next]_vars => (Serving /\ PastOK)'
    BY ServingHolds, PastHolds
<1>4. QED
    BY <1>1, <1>2, <1>3, Invariance, PTL DEF Spec

\* For any number of overlapping uploads, deletions, failures and crashes, and
\* with answers of the cache: a download of a file nobody edited serves a version
\* of it, and the last one when it is told the row's own key, unless an upload is
\* at work on the key, a stray object is left there, or another file had it.
THEOREM DownloadsServeTheLast == Spec => []ServesLastVersion
<1>1. IInv /\ CacheOK /\ Serving /\ PastOK /\ OnlyStraysAreOrphans => ServesLastVersion
    BY LastIsServed DEF ServesLastVersion
<1>2. QED
    BY <1>1, AlwaysServing, OrphansAreStrays, Invariance, PTL

----------------------------------------------------------------------------
(* Who may go on                                                            *)

\* How far a request has come: an open one is asked something, a refused one
\* has no statement left to send, and what an upload or an update works on is
\* a row its request has locked, or the one it was asked for.
Locked == {"put", "head", "cleanup", "drop"}
Stage(r) ==
    /\ op[r] # Idle => tx[r] \in {"open", "rolledback"}
    /\ tx[r] = "rolledback" => \A i \in Index : item[r][i].step \notin {"upsert", "find", "rename"}
    /\ op[r].kind = "upload" /\ tx[r] = "open" =>
          \A i \in Index : item[r][i].step \in Locked => item[r][i].file \in DOMAIN pend[r]
    /\ op[r].kind = "update" =>
          /\ DOMAIN pend[r] \subseteq {op[r].file}
          /\ item[r][1].step # "none"
          /\ \A i \in Index \ {1} : item[r][i].step = "none"
          /\ item[r][1].step \in Locked \cup {"rename"} => item[r][1].file = op[r].file
StageOK == \A r \in Request : Stage(r)

\* The bucket takes what is still to be put, and a new row has a free id.
RoomOK == IsFiniteSet(Unsent) /\ puts + Cardinality(Unsent) <= MaxVersion
RowsOK == IsFiniteSet(FileId \ Free)

Going == StageOK /\ RoomOK /\ RowsOK

LEMMA UnsentRoom ==
    ASSUME IInv, Going, NEW r \in Request, NEW i \in Index, item[r][i].step = "put"
    PROVE  puts < MaxVersion
<1>1. <<r, i>> \in Unsent
    BY DEF Unsent
<1>2. Cardinality(Unsent) \in Nat /\ Cardinality(Unsent) # 0
    BY <1>1, FS_CardinalityType, FS_EmptySet DEF Going, RoomOK
<1>3. puts \in Nat /\ MaxVersion \in Nat
    BY Types, FilesAssumption DEF IInv
<1>4. QED
    BY <1>2, <1>3 DEF Going, RoomOK

\* The first of a request's upserts.
LEMMA FirstUpsert ==
    ASSUME NEW r \in Request, NEW i \in Index, item[r][i].step = "upsert"
    PROVE  \E j \in Index : NextUpsert(r, j)
<1> DEFINE T == {j \in Index : item[r][j].step = "upsert"}
<1>1. T \subseteq Nat /\ T # {}
    BY FilesAssumption DEF Index
<1>2. PICK j \in T : \A k \in T : ~(<<k, j>> \in OpToRel(<, Nat))
    BY <1>1, NatLessThanWellFounded, WFMin
<1>3. \A k \in T : ~(k < j)
    BY <1>1, <1>2 DEF OpToRel
<1>4. \A k \in 1..(j - 1) : k \in Index /\ k < j
    BY <1>1, FilesAssumption DEF Index
<1>5. QED
    BY <1>3, <1>4 DEF NextUpsert

\* An upsert finds a row: the name's, or a new one.
LEMMA SomeRow ==
    ASSUME Going, ~IsFiniteSet(FileId), NEW r \in Request, NEW n
    PROVE  \E f \in FileId : Conflict(r, n, f)
<1>1. CASE Named(r, n) # {}
    BY <1>1 DEF Conflict, Named
<1>2. CASE Named(r, n) = {}
    <2>1. Free # {}
        <3>1. SUFFICES ASSUME Free = {} PROVE FALSE
            OBVIOUS
        <3>2. FileId \ Free = FileId
            BY <3>1
        <3>3. QED
            BY <3>2 DEF Going, RowsOK
    <2>2. QED
        BY <1>2, <2>1 DEF Conflict, Free
<1>3. QED
    BY <1>1, <1>2

\* A request with an upload's row deletion to wait for.
DropWaits(r) ==
    \E i \in Index, q \in Request :
        /\ item[r][i].step = "drop" /\ file[item[r][i].file] # NoFile /\ Holds(q, item[r][i].file)

\* One upload's next step can be taken, or waits.
LEMMA UploadReady ==
    ASSUME IInv, Going, NEW r \in Request, NEW i \in Index, item[r][i].step \in Locked, ReadBack(r),
           tx[r] \in {"open", "rolledback"}
    PROVE  Ready(r) \/ (tx[r] = "open" /\ Waits(r)) \/ DropWaits(r)
<1>1. CASE item[r][i].step = "put"
    BY <1>1, UnsentRoom DEF Ready, MayPut
<1>2. CASE item[r][i].step = "head"
    BY <1>2 DEF Ready, MaySave, Unsavable, Readable, Unreadable, Live
<1>3. CASE item[r][i].step = "cleanup"
    BY <1>3 DEF Ready
<1>4. CASE item[r][i].step = "drop"
    BY <1>4 DEF Ready, MayDrop, DropWaits
<1>5. QED
    BY <1>1, <1>2, <1>3, <1>4 DEF Locked

\* A request that stands still waits for another's rows.
LEMMA StuckWaits ==
    ASSUME IInv, KindOK, Going, ~IsFiniteSet(FileId), NEW r \in Request, op[r] # Idle, ~Ready(r)
    PROVE  (tx[r] = "open" /\ Waits(r)) \/ DropWaits(r)
<1>0. /\ item[r] \in [Index -> Item] /\ 1 \in Index /\ Stage(r)
      /\ \A i \in Index : item[r][i].step \in Step
    BY Types, FilesAssumption DEF IInv, Index, Going, StageOK, Item
<1>1. tx[r] \in {"open", "rolledback"}
    BY <1>0 DEF Stage
<1>2. CASE tx[r] = "rolledback"
    <2>1. PICK i \in Index : item[r][i].step \notin {"none", "saved", "failed"}
        BY <1>2 DEF Ready, MayEnd
    <2>2. item[r][i].step \in Locked
        BY <1>0, <1>2, <2>1 DEF Stage, Step, Locked
    <2>3. ReadBack(r)
        BY <1>2 DEF ReadBack
    <2>4. QED
        BY <1>1, <2>2, <2>3, UploadReady
<1>3. CASE tx[r] = "open" /\ op[r].kind = "delete"
    BY <1>3 DEF Ready, MayDelete
<1>4. CASE tx[r] = "open" /\ op[r].kind = "upload"
    <2>1. CASE \E i \in Index : item[r][i].step = "upsert"
        <3>1. PICK i \in Index : NextUpsert(r, i)
            BY <2>1, FirstUpsert
        <3>2. PICK f \in FileId : Conflict(r, op[r].names[i], f)
            BY SomeRow
        <3>3. ~MayUpsert(r, i, f)
            BY DEF Ready
        <3>4. QED
            BY <1>4, <3>1, <3>2, <3>3 DEF MayUpsert
    <2>2. CASE \A i \in Index : item[r][i].step # "upsert"
        <3>1. ReadBack(r)
            BY <2>2 DEF ReadBack
        <3>2. CASE \E i \in Index : item[r][i].step \in Locked
            BY <1>1, <3>1, <3>2, UploadReady
        <3>3. CASE \A i \in Index : item[r][i].step \notin Locked
            <4>1. \A i \in Index : item[r][i].step # "failed"
                BY <1>4, <2>2 DEF Ready, MayRollback
            <4>2. \A i \in Index : item[r][i].step \notin {"find", "rename"}
                BY <1>4 DEF KindOK, KindOf
            <4>3. \A i \in Index : item[r][i].step \in {"none", "saved"}
                BY <1>0, <2>2, <3>3, <4>1, <4>2 DEF Step, Locked
            <4>4. MayCommit(r) \/ MayRollback(r)
                BY <1>4, <2>2, <4>3 DEF MayCommit, MayRollback, Readable, Unreadable, Live
            <4>5. QED
                BY <4>4 DEF Ready
        <3>4. QED
            BY <3>2, <3>3
    <2>3. QED
        BY <2>1, <2>2
<1>5. CASE tx[r] = "open" /\ op[r].kind = "update"
    <2>1. \A i \in Index : item[r][i].step # "upsert"
        BY <1>5 DEF KindOK, KindOf
    <2>2. ReadBack(r)
        BY <2>1 DEF ReadBack
    <2>3. item[r][1].step \notin {"find", "failed"}
        BY <1>0, <1>5, <2>1 DEF Ready, MayRollback
    <2>4. CASE item[r][1].step = "rename"
        BY <1>5, <2>4 DEF Ready, MayRename
    <2>5. CASE item[r][1].step \in Locked
        BY <1>0, <1>1, <2>2, <2>5, UploadReady
    <2>6. CASE item[r][1].step = "saved"
        <3>1. \A i \in Index : item[r][i].step \in {"none", "saved"}
            BY <1>0, <1>5, <2>6 DEF Stage
        <3>2. MayCommit(r) \/ MayRollback(r)
            BY <1>5, <2>1, <3>1 DEF MayCommit, MayRollback, Readable, Unreadable, Live
        <3>3. QED
            BY <3>2 DEF Ready
    <2>7. item[r][1].step # "none"
        BY <1>0, <1>5 DEF Stage
    <2>8. QED
        BY <1>0, <2>1, <2>3, <2>4, <2>5, <2>6, <2>7 DEF Step, Locked
<1>6. op[r] \in Operation
    BY DEF IInv, Typed, StoresOK
<1>7. QED
    BY <1>1, <1>2, <1>3, <1>4, <1>5, <1>6 DEF Operation

\* Every request of T waits for one of T.
Chained(T) == \A q \in T : \E p \in T : WaitsFor(q, p)

\* Where everyone waits for someone, some wait in a circle.
LEMMA SomeCircle ==
    ASSUME NEW H \in SUBSET Request, H # {}, Chained(H)
    PROVE  \E T \in SUBSET Request : T # {} /\ Circle(T)
<1> DEFINE C == {T \in SUBSET H : T # {} /\ Chained(T)}
<1>1. IsFiniteSet(H)
    BY FS_Subset, FilesAssumption
<1>2. C \subseteq FiniteSubsetsOf(H) /\ C # {}
    <2>1. FiniteSubsetsOf(H) = SUBSET H
        BY <1>1, FS_FiniteSubsetsOfFinite
    <2>2. QED
        BY <2>1
<1>3. PICK T \in C : \A U \in C : ~(<<U, T>> \in StrictSubsetOrdering(H))
    BY <1>2, FS_StrictSubsetOrderingWellFounded, WFMin
<1>4. ASSUME NEW p \in T, \A q \in T : ~WaitsFor(q, p) PROVE FALSE
    <2>1. Chained(T \ {p})
        BY <1>4 DEF Chained
    <2>2. PICK s \in T : WaitsFor(p, s)
        BY DEF Chained
    <2>3. s # p
        BY <2>2 DEF WaitsFor
    <2>4. T \ {p} \in C
        BY <2>1, <2>3
    <2>5. <<T \ {p}, T>> \in StrictSubsetOrdering(H)
        BY DEF StrictSubsetOrdering
    <2>6. QED
        BY <1>3, <2>4, <2>5
<1>5. Circle(T)
    BY <1>4 DEF Circle, Chained
<1>6. QED
    BY <1>5

LEMMA AwaitedHolds ==
    ASSUME NEW r \in Request, NEW q \in Request, WaitsFor(r, q)
    PROVE  DOMAIN pend[q] # {}
BY DEF WaitsFor, Holds, HoldsName

LEMMA NobodyStuck ==
    ASSUME IInv, KindOK, Going, ~IsFiniteSet(FileId)
    PROVE  OnlySelfLocksStall
<1> SUFFICES ASSUME NEW r0 \in Request, op[r0] # Idle,
                    \A r \in Request, i \in Index : ~LockedByItself(r, i),
                    \A r \in Request : ~Ready(r)
             PROVE  FALSE
    BY DEF OnlySelfLocksStall
<1> DEFINE H == {q \in Request : DOMAIN pend[q] # {}}
<1>1. \A r \in Request : op[r] # Idle => (tx[r] = "open" /\ Waits(r)) \/ DropWaits(r)
    BY StuckWaits
<1>2. H # {}
    <2>1. CASE Waits(r0)
        BY <2>1, AwaitedHolds DEF Waits
    <2>2. CASE DropWaits(r0)
        BY <2>2 DEF DropWaits, Holds
    <2>3. QED
        BY <1>1, <2>1, <2>2
<1>3. ASSUME NEW q \in H PROVE ~DropWaits(q)
    <2>1. SUFFICES ASSUME DropWaits(q) PROVE FALSE
        OBVIOUS
    <2>2. PICK i \in Index : item[q][i].step = "drop" /\ file[item[q][i].file] # NoFile
        BY <2>1 DEF DropWaits
    <2>3. item[q][i].file \notin DOMAIN pend[q]
        BY <2>2 DEF LockedByItself, Holds
    <2>4. tx[q] = "open" /\ op[q].kind # "delete" /\ op[q] # Idle
        BY DEF IInv, PendOK, OpOK
    <2>5. op[q].kind \in {"upload", "update"}
        <3>1. op[q] \in Operation
            BY DEF IInv, Typed, StoresOK
        <3>2. QED
            BY <2>4, <3>1 DEF Operation
    <2>6. CASE op[q].kind = "upload"
        BY <2>2, <2>3, <2>4, <2>6 DEF Going, StageOK, Stage, Locked
    <2>7. CASE op[q].kind = "update"
        <3>1. i = 1 /\ item[q][1].file = op[q].file
            BY <2>2, <2>7 DEF Going, StageOK, Stage, Locked
        <3>2. DOMAIN pend[q] \subseteq {op[q].file}
            BY <2>7 DEF Going, StageOK, Stage
        <3>3. QED
            BY <2>3, <3>1, <3>2
    <2>8. QED
        BY <2>5, <2>6, <2>7
<1>4. Chained(H)
    <2> SUFFICES ASSUME NEW q \in H PROVE \E p \in H : WaitsFor(q, p)
        BY DEF Chained
    <2>1. op[q] # Idle
        BY DEF IInv, PendOK, OpOK
    <2>2. PICK p \in Request : WaitsFor(q, p)
        BY <1>1, <1>3, <2>1 DEF Waits
    <2>3. p \in H
        BY <2>2, AwaitedHolds
    <2>4. QED
        BY <2>2, <2>3
<1> HIDE DEF H
<1>5. H \in SUBSET Request
    BY DEF H
<1>6. PICK T \in SUBSET Request : T # {} /\ Circle(T)
    BY <1>2, <1>4, <1>5, SomeCircle
<1>7. PICK r \in T : TRUE
    BY <1>6
<1>8. InCircle(r)
    BY <1>6, <1>7 DEF InCircle
<1>9. QED
    BY <1>7, <1>8 DEF Ready

----------------------------------------------------------------------------
(* What a request may still send, and what it may work on, at every step    *)

Sending == {"upsert", "find", "rename", "put"}

\* Requests that have nothing new to send take no room.
LEMMA RoomKept ==
    ASSUME Going, puts \in Nat, UNCHANGED puts,
           \A q \in Request, j \in Index : item'[q][j].step \in Sending => item[q][j].step \in Sending
    PROVE  RoomOK'
<1>1. Unsent' \subseteq Unsent
    BY DEF Unsent, Sending
<1>2. /\ IsFiniteSet(Unsent') /\ Cardinality(Unsent') <= Cardinality(Unsent)
      /\ Cardinality(Unsent) \in Nat /\ Cardinality(Unsent') \in Nat
    BY <1>1, FS_Subset, FS_CardinalityType DEF Going, RoomOK
<1>3. puts' + Cardinality(Unsent') <= MaxVersion
    BY <1>2, FilesAssumption DEF Going, RoomOK
<1>4. QED
    BY <1>2, <1>3 DEF RoomOK

\* A put takes the room that was kept for it.
LEMMA RoomTaken ==
    ASSUME Going, puts \in Nat, puts' = puts + 1, NEW r \in Request, NEW i \in Index,
           item[r][i].step \in Sending, item'[r][i].step \notin Sending,
           \A q \in Request, j \in Index : item'[q][j].step \in Sending => item[q][j].step \in Sending
    PROVE  RoomOK'
<1>1. Unsent' \subseteq Unsent \ {<<r, i>>} /\ <<r, i>> \in Unsent
    BY DEF Unsent, Sending
<1>2. IsFiniteSet(Unsent \ {<<r, i>>}) /\ Cardinality(Unsent \ {<<r, i>>}) = Cardinality(Unsent) - 1
    BY <1>1, FS_RemoveElement DEF Going, RoomOK
<1>3. IsFiniteSet(Unsent') /\ Cardinality(Unsent') <= Cardinality(Unsent) - 1
    BY <1>1, <1>2, FS_Subset
<1>4. Cardinality(Unsent) \in Nat /\ Cardinality(Unsent') \in Nat
    BY <1>3, FS_CardinalityType DEF Going, RoomOK
<1>5. QED
    BY <1>3, <1>4, FilesAssumption DEF Going, RoomOK

\* A request that begins has asked for the room of what it will send.
LEMMA RoomAsked ==
    ASSUME Going, puts \in Nat, UNCHANGED puts, NEW r \in Request, NEW room \in Nat, room <= MaxFiles,
           puts + Cardinality(Unsent) + room <= MaxVersion,
           \A q \in Request, j \in Index :
               item'[q][j].step \in Sending => item[q][j].step \in Sending \/ (q = r /\ j <= room)
    PROVE  RoomOK'
<1> DEFINE N == {r} \X (1..room)
<1>1. Unsent' \subseteq Unsent \cup N
    <2> SUFFICES ASSUME NEW p \in Unsent' PROVE p \in Unsent \cup N
        OBVIOUS
    <2>1. PICK q \in Request, j \in Index : p = <<q, j>> /\ item'[q][j].step \in Sending
        BY DEF Unsent, Sending
    <2>2. CASE item[q][j].step \in Sending
        BY <2>1, <2>2 DEF Unsent, Sending
    <2>3. CASE q = r /\ j <= room
        BY <2>1, <2>3, FilesAssumption DEF Index
    <2>4. QED
        BY <2>1, <2>2, <2>3
<1>2. IsFiniteSet(N) /\ Cardinality(N) = room
    <2>1. IsFiniteSet({r}) /\ Cardinality({r}) = 1
        BY FS_Singleton
    <2>2. IsFiniteSet(1..room) /\ Cardinality(1..room) = room
        BY FS_Interval
    <2>3. IsFiniteSet(N) /\ Cardinality(N) = Cardinality({r}) * Cardinality(1..room)
        BY <2>1, <2>2, FS_Product
    <2>4. QED
        BY <2>1, <2>2, <2>3
<1> HIDE DEF N
<1>3. IsFiniteSet(Unsent) /\ Cardinality(Unsent) \in Nat
    BY FS_CardinalityType DEF Going, RoomOK
<1>4. /\ IsFiniteSet(Unsent \cup N)
      /\ Cardinality(Unsent \cup N) = Cardinality(Unsent) + Cardinality(N) - Cardinality(Unsent \cap N)
    BY <1>2, <1>3, FS_Union
<1>5. Cardinality(Unsent \cap N) \in Nat
    BY <1>2, FS_Subset, FS_CardinalityType
<1>6. IsFiniteSet(Unsent') /\ Cardinality(Unsent') <= Cardinality(Unsent \cup N) /\ Cardinality(Unsent \cup N) \in Nat
    BY <1>1, <1>4, FS_Subset, FS_CardinalityType
<1>7. Cardinality(Unsent') \in Nat
    BY <1>6, FS_CardinalityType
<1>8. Cardinality(Unsent') <= Cardinality(Unsent) + room
    BY <1>2, <1>3, <1>4, <1>5, <1>6, <1>7
<1>9. QED
    BY <1>3, <1>6, <1>7, <1>8, FilesAssumption DEF RoomOK

\* At most one row is new in a step.
LEMMA RowsKept ==
    ASSUME Going, NEW g,
           \A f \in FileId \ {g} : f \in Free => f \in Free'
    PROVE  RowsOK'
<1>1. FileId \ Free' \subseteq (FileId \ Free) \cup {g}
    OBVIOUS
<1>2. IsFiniteSet((FileId \ Free) \cup {g})
    BY FS_AddElement DEF Going, RowsOK
<1>3. QED
    BY <1>1, <1>2, FS_Subset DEF RowsOK

\* What a request has locked, and how far it is, changes with its own steps only.
LEMMA StageKept ==
    ASSUME StageOK, NEW r \in Request, Stage(r)',
           \A q \in Request : q # r => /\ op'[q] = op[q] /\ tx'[q] = tx[q] /\ item'[q] = item[q]
                                       /\ DOMAIN pend'[q] = DOMAIN pend[q]
    PROVE  StageOK'
BY DEF StageOK, Stage

\* One upload's state replaced in a request that goes on.
Replaces(r, i, t) ==
    /\ item' = [item EXCEPT ![r][i] = t]
    /\ item[r][i].step # "none" /\ t.step # "none" /\ t.step # "upsert" /\ t.step # "find"
    /\ t.step = "rename" => tx[r] # "rolledback"
    /\ DOMAIN pend[r] \subseteq DOMAIN pend'[r]
    /\ op[r].kind = "upload" /\ tx[r] = "open" /\ t.step \in Locked => t.file \in DOMAIN pend'[r]
    /\ op[r].kind = "update" => /\ DOMAIN pend'[r] \subseteq {op[r].file}
                                /\ t.step \in Locked \cup {"rename"} => t.file = op[r].file

LEMMA ReplacedStage ==
    ASSUME IInv, StageOK, NEW r \in Request, NEW i \in Index, NEW t \in Item, Replaces(r, i, t),
           UNCHANGED <<op, tx>>, \A q \in Request : q # r => DOMAIN pend'[q] = DOMAIN pend[q]
    PROVE  StageOK'
<1>0. item \in [Request -> [Index -> Item]] /\ 1 \in Index
    BY Types, FilesAssumption DEF IInv, Index
<1>1. \A q \in Request, j \in Index : item'[q][j] = IF q = r /\ j = i THEN t ELSE item[q][j]
    BY <1>0, OneItem DEF Replaces
<1>2. \A q \in Request : q # r => item'[q] = item[q]
    BY <1>0 DEF Replaces
<1>3. op[r].kind = "update" => i = 1
    BY DEF StageOK, Stage, Replaces
<1>4. Stage(r)'
    <2>1. op'[r] # Idle => tx'[r] \in {"open", "rolledback"}
        BY DEF StageOK, Stage
    <2>2. tx'[r] = "rolledback" => \A j \in Index : item'[r][j].step \notin {"upsert", "find", "rename"}
        BY <1>1 DEF StageOK, Stage, Replaces
    <2>3. op'[r].kind = "upload" /\ tx'[r] = "open" =>
              \A j \in Index : item'[r][j].step \in Locked => item'[r][j].file \in DOMAIN pend'[r]
        BY <1>1 DEF StageOK, Stage, Replaces
    <2>4. ASSUME op[r].kind = "update"
          PROVE  /\ DOMAIN pend'[r] \subseteq {op[r].file}
                 /\ item'[r][1].step # "none"
                 /\ \A j \in Index \ {1} : item'[r][j].step = "none"
                 /\ item'[r][1].step \in Locked \cup {"rename"} => item'[r][1].file = op[r].file
        BY <1>0, <1>1, <1>3, <2>4 DEF StageOK, Stage, Replaces
    <2>5. QED
        BY <2>1, <2>2, <2>3, <2>4 DEF Stage
<1>5. QED
    BY <1>2, <1>4, StageKept

LEMMA ReplacedGoes ==
    ASSUME IInv, Going, NEW r \in Request, NEW i \in Index, NEW t \in Item, Replaces(r, i, t),
           UNCHANGED <<op, tx>>, \A q \in Request : q # r => DOMAIN pend'[q] = DOMAIN pend[q],
           NEW g, DOMAIN pend'[r] \subseteq DOMAIN pend[r] \cup {g},
           \A f \in FileId : file[f] = NoFile => file'[f] = NoFile,
           \/ UNCHANGED puts /\ (t.step \in Sending => item[r][i].step \in Sending)
           \/ puts' = puts + 1 /\ item[r][i].step \in Sending /\ t.step \notin Sending
    PROVE  Going'
<1>0. item \in [Request -> [Index -> Item]] /\ puts \in Nat
    BY Types DEF IInv
<1>1. \A q \in Request, j \in Index : item'[q][j] = IF q = r /\ j = i THEN t ELSE item[q][j]
    BY <1>0, OneItem DEF Replaces
<1>2. StageOK'
    BY ReplacedStage DEF Going
<1>3. RoomOK'
    <2>1. CASE UNCHANGED puts /\ (t.step \in Sending => item[r][i].step \in Sending)
        BY <1>0, <1>1, <2>1, RoomKept
    <2>2. CASE puts' = puts + 1 /\ item[r][i].step \in Sending /\ t.step \notin Sending
        <3>1. item'[r][i].step \notin Sending
            BY <1>1, <2>2
        <3>2. \A q \in Request, j \in Index : item'[q][j].step \in Sending => item[q][j].step \in Sending
            BY <1>1, <2>2
        <3>3. QED
            BY <1>0, <2>2, <3>1, <3>2, RoomTaken
    <2>3. QED
        BY <2>1, <2>2
<1>4. \A f \in FileId \ {g} : f \in Free => f \in Free'
    BY DEF Free, Holds
<1>5. RowsOK'
    BY <1>4, RowsKept
<1>6. QED
    BY <1>2, <1>3, <1>5 DEF Going

\* An upload's step that writes no row.
LEMMA MovedGoes ==
    ASSUME IInv, Going, NEW r \in Request, NEW i \in Index, NEW t \in Item, item' = [item EXCEPT ![r][i] = t],
           item[r][i].step # "none", t.step \notin {"none", "upsert", "find", "rename"}, t.file = item[r][i].file,
           t.step \in Locked => item[r][i].step \in Locked,
           UNCHANGED <<op, tx, pend>>,
           \A f \in FileId : file[f] = NoFile => file'[f] = NoFile,
           \/ UNCHANGED puts /\ t.step # "put"
           \/ puts' = puts + 1 /\ item[r][i].step = "put" /\ t.step # "put"
    PROVE  Going'
<1>1. op[r].kind = "update" => i = 1
    BY DEF Going, StageOK, Stage
<1>2. Replaces(r, i, t)
    BY <1>1 DEF Replaces, Going, StageOK, Stage
<1>3. QED
    BY <1>2, ReplacedGoes DEF Sending

\* And one that writes the row it works on.
LEMMA WrittenGoes ==
    ASSUME IInv, Going, NEW r \in Request, NEW i \in Index, NEW t \in Item, item' = [item EXCEPT ![r][i] = t],
           item[r][i].step # "none", t.step \notin {"none", "upsert", "find", "rename"},
           NEW f \in FileId, NEW row \in Row, Write(r, f, row),
           t.step \in Locked => t.file = f,
           op[r].kind = "update" => f = op[r].file,
           t.step = "put" => item[r][i].step \in Sending,
           UNCHANGED <<op, tx, file, puts>>
    PROVE  Going'
<1>0. pend \in [Request -> Pending]
    BY Types DEF IInv
<1>1. \A q \in Request : DOMAIN pend'[q] = IF q = r THEN DOMAIN pend[r] \cup {f} ELSE DOMAIN pend[q]
    <2>1. RowWritten(r, f, row)
        BY <1>0, OneRow
    <2>2. QED
        BY <2>1 DEF RowWritten
<1>2. Replaces(r, i, t)
    BY <1>1 DEF Replaces, Going, StageOK, Stage
<1>3. QED
    BY <1>1, <1>2, ReplacedGoes DEF Sending

LEMMA UpsertGoes ==
    ASSUME IInv, KindOK, Going, NEW r \in Request, NEW i \in Index, NEW f \in FileId, Upsert(r, i, f)
    PROVE  Going'
<1> DEFINE row == Upserted(r, op[r].names[i], f)
<1>1. item[r][i].step = "upsert" /\ op[r].kind = "upload"
    BY DEF Upsert, NextUpsert, MayUpsert, KindOK, KindOf
<1>2. row \in Row
    BY UpsertedRow
<1>3. PICK t \in Item : item' = [item EXCEPT ![r][i] = t] /\ t.file = f /\ t.step \in {"put", "failed"}
    BY UpsertedItem
<1>4. Write(r, f, row) /\ UNCHANGED <<op, tx, file, puts>>
    BY DEF Upsert, db, bucket
<1> HIDE DEF row
<1>5. QED
    BY <1>1, <1>2, <1>3, <1>4, WrittenGoes DEF Sending

LEMMA FindGoes == ASSUME IInv, CacheOK, KindOK, Going, NEW r \in Request, FindForUpdate(r) PROVE Going'
<1>0. Typed /\ 1 \in Index
    BY FilesAssumption DEF IInv, Index
<1>1. item[r][1].step = "find" /\ op[r].file \in FileId /\ UNCHANGED <<op, tx, pend, file, puts>> /\ tx[r] # "rolledback"
    BY <1>0 DEF FindForUpdate, IInv, OpOK, Going, StageOK, Stage, db, bucket
<1>2. op[r].kind = "update"
    BY <1>0, <1>1 DEF KindOK, KindOf
<1>3. PICK t \in Item : /\ item' = [item EXCEPT ![r][1] = t]
                        /\ t.step \in {"rename", "put", "saved", "failed"}
                        /\ t.step \in {"put", "rename"} => t.file = op[r].file
    BY FoundItem
<1>4. Replaces(r, 1, t)
    BY <1>1, <1>3, <1>2 DEF Replaces, Going, StageOK, Stage, Locked
<1>5. QED
    BY <1>0, <1>1, <1>3, <1>4, ReplacedGoes DEF Sending

LEMMA MoveGoes ==
    ASSUME IInv, Going, NEW r \in Request, NEW i \in Index, NEW s \in Step, Move(r, i, s),
           item[r][i].step # "none", s \notin {"none", "upsert", "find", "rename", "put"},
           s \in Locked => item[r][i].step \in Locked,
           UNCHANGED <<op, tx, pend>>,
           \A f \in FileId : file[f] = NoFile => file'[f] = NoFile,
           UNCHANGED puts \/ (puts' = puts + 1 /\ item[r][i].step = "put")
    PROVE  Going'
<1> DEFINE t == [item[r][i] EXCEPT !.step = s]
<1>1. item' = [item EXCEPT ![r][i] = t] /\ item[r][i] \in Item
    BY Types, Moved DEF IInv
<1>2. t \in Item /\ t.step = s /\ t.file = item[r][i].file
    BY <1>1, MovedItem
<1> HIDE DEF t
<1>3. QED
    BY <1>1, <1>2, MovedGoes

LEMMA RenameGoes == ASSUME IInv, KindOK, Going, NEW r \in Request, Rename(r) PROVE Going'
<1> DEFINE f == op[r].file
           n == op[r].name
<1>0. Typed /\ 1 \in Index
    BY FilesAssumption DEF IInv, Index
<1>1. item[r][1].step = "rename" /\ f \in FileId /\ n \in Name /\ item[r][1] \in Item
    BY <1>0, Types DEF Rename, IInv, OpOK, MayRename
<1>2. UNCHANGED <<op, tx, file, puts>>
    BY DEF Rename, db, bucket
<1>3. CASE file[f] # NoFile /\ Named(r, n) \subseteq {f}
    <2> DEFINE s == IF op[r].content THEN "put" ELSE "saved"
               t == [item[r][1] EXCEPT !.step = s]
               row == [file[f] EXCEPT !.name = n]
    <2>1. Write(r, f, row) /\ Move(r, 1, s)
        BY <1>3 DEF Rename
    <2>2. s \in Step /\ s \in {"put", "saved"}
        BY DEF Step
    <2>3. file[f] \in Row
        BY <1>0, <1>1, <1>3, Types
    <2>4. row \in Row
        BY <1>1, <2>3 DEF Row
    <2>5. item' = [item EXCEPT ![r][1] = t]
        BY <1>0, <2>1, <2>2, Types, Moved
    <2> HIDE DEF s
    <2>6. t \in Item /\ t.step = s /\ t.file = item[r][1].file
        BY <1>1, <2>2, MovedItem
    <2> HIDE DEF t, row
    <2>7. op[r].kind = "update" => t.file = f
        BY <1>1, <2>6 DEF Going, StageOK, Stage
    <2>8. op[r].kind = "update"
        BY <1>0, <1>1 DEF KindOK, KindOf
    <2>9. QED
        BY <1>0, <1>1, <1>2, <2>1, <2>2, <2>4, <2>5, <2>6, <2>7, <2>8, WrittenGoes DEF Sending
<1>4. CASE ~(file[f] # NoFile /\ Named(r, n) \subseteq {f})
    <2>1. Move(r, 1, "failed") /\ UNCHANGED pend
        BY <1>4 DEF Rename
    <2>2. QED
        BY <1>0, <1>1, <1>2, <2>1, MoveGoes DEF Step, Locked
<1>5. QED
    BY <1>3, <1>4

LEMMA PutGoes == ASSUME IInv, Going, NEW r \in Request, NEW i \in Index, Put(r, i) PROVE Going'
<1> DEFINE t == [item[r][i] EXCEPT !.step = "head", !.ver = puts + 1]
<1>1. /\ item[r][i].step = "put" /\ item' = [item EXCEPT ![r][i] = t] /\ puts' = puts + 1
      /\ UNCHANGED <<op, tx, pend, file>>
    BY DEF Put, MayPut, db
<1>2. puts + 1 \in 0..MaxVersion
    BY Types, FilesAssumption DEF IInv, Put, MayPut
<1>3. t \in Item /\ t.step = "head" /\ t.file = item[r][i].file
    <2>1. item[r][i] \in Item
        BY Types DEF IInv
    <2>2. QED
        BY <1>2, <2>1 DEF Item, Step
<1> HIDE DEF t
<1>4. QED
    BY <1>1, <1>3, MovedGoes DEF Locked

LEMMA PutFailsGoes == ASSUME IInv, Going, NEW r \in Request, NEW i \in Index, PutFails(r, i) PROVE Going'
<1>1. /\ item[r][i].step = "put" /\ Move(r, i, "failed") /\ puts' = puts + 1
      /\ UNCHANGED <<op, tx, pend, file>>
    BY DEF PutFails, MayPut, db
<1>2. QED
    BY <1>1, MoveGoes DEF Step, Locked

\* What a save writes is the row its request holds or was asked for.
LEMMA SavesOwn ==
    ASSUME Going, NEW r \in Request, NEW i \in Index, item[r][i].step = "head", op[r].kind = "update"
    PROVE  item[r][i].file = op[r].file
BY DEF Going, StageOK, Stage, Locked

LEMMA SaveGoes == ASSUME IInv, Going, NEW r \in Request, NEW i \in Index, Save(r, i) PROVE Going'
<1> DEFINE f == item[r][i].file
           t == [item[r][i] EXCEPT !.step = "saved"]
           row == [Seen(r, f) EXCEPT !.last = item[r][i].ver]
<1>1. /\ MaySave(r, i) /\ Write(r, f, row) /\ Move(r, i, "saved") /\ "saved" \in Step
      /\ UNCHANGED <<op, tx, file, puts>>
    BY DEF Save, Step, db, bucket
<1>2. item[r][i].step = "head" /\ item[r][i] \in Item
    BY <1>1, Types DEF MaySave, IInv
<1>3. f \in FileId /\ Seen(r, f) \in Row
    BY <1>1, SaveAlone
<1>4. row \in Row
    BY <1>2, <1>3 DEF Row, Item
<1>5. item' = [item EXCEPT ![r][i] = t]
    BY <1>1, Types, Moved DEF IInv
<1>6. t \in Item /\ t.step = "saved"
    BY <1>1, <1>2, MovedItem
<1>7. op[r].kind = "update" => f = op[r].file
    BY <1>2, SavesOwn
<1> HIDE DEF t, row
<1>8. QED
    BY <1>1, <1>2, <1>3, <1>4, <1>5, <1>6, <1>7, WrittenGoes DEF Locked

LEMMA SaveFailsGoes == ASSUME IInv, Going, NEW r \in Request, NEW i \in Index, SaveFails(r, i) PROVE Going'
<1> DEFINE f == item[r][i].file
           t == [item[r][i] EXCEPT !.step = "cleanup"]
<1>1. /\ item[r][i].step = "head" /\ item[r][i] \in Item /\ "cleanup" \in Step /\ Move(r, i, "cleanup")
      /\ UNCHANGED <<op, tx, file, puts>>
    BY Types DEF SaveFails, IInv, Step, db, bucket
<1>2. CASE UNCHANGED pend
    BY <1>1, <1>2, MoveGoes DEF Locked
<1>3. CASE MaySave(r, i) /\ Write(r, f, Seen(r, f))
    <2>1. f \in FileId /\ Seen(r, f) \in Row
        BY <1>3, SaveAlone
    <2>2. item' = [item EXCEPT ![r][i] = t]
        BY <1>1, Types, Moved DEF IInv
    <2>3. t \in Item /\ t.step = "cleanup" /\ t.file = f
        BY <1>1, MovedItem
    <2>4. op[r].kind = "update" => f = op[r].file
        BY <1>1, SavesOwn
    <2> HIDE DEF t
    <2>5. QED
        BY <1>1, <1>3, <2>1, <2>2, <2>3, <2>4, WrittenGoes
<1>4. QED
    BY <1>2, <1>3 DEF SaveFails

LEMMA CleanupGoes == ASSUME IInv, Going, NEW r \in Request, NEW i \in Index, Cleanup(r, i) PROVE Going'
<1>1. item[r][i].step = "cleanup" /\ Move(r, i, "drop") /\ UNCHANGED <<op, tx, pend, file, puts>>
    BY DEF Cleanup, db
<1>2. QED
    BY <1>1, MoveGoes DEF Step, Locked

LEMMA DropGoes == ASSUME IInv, Going, NEW r \in Request, NEW i \in Index, Drop(r, i) PROVE Going'
<1>1. item[r][i].step = "drop" /\ Move(r, i, "failed") /\ UNCHANGED <<op, tx, pend, puts>>
    BY DEF Drop, MayDrop, bucket
<1>2. file' = file
    BY <1>1, NothingDropped DEF Drop, IInv, ItemsOK, ItemOK
<1>3. QED
    BY <1>1, <1>2, MoveGoes DEF Step, Locked

LEMMA BeginGoes ==
    ASSUME IInv, Going, NEW r \in Request, NEW o \in Operation, NEW steps \in [Index -> {"none", "upsert", "find"}],
           NEW room \in Nat, room <= MaxFiles, Begin(r, o, steps, room),
           \A i \in Index : steps[i] # "none" => i <= room,
           o.kind = "update" => steps[1] = "find" /\ \A i \in Index \ {1} : steps[i] = "none"
    PROVE  Going'
<1> DEFINE its == [i \in Index |-> Fresh(steps[i])]
<1>0. Typed
    BY DEF IInv
<1>1. /\ op[r] = Idle /\ op' = [op EXCEPT ![r] = o] /\ tx' = [tx EXCEPT ![r] = "open"]
      /\ item' = [item EXCEPT ![r] = its] /\ UNCHANGED <<file, puts, pend>>
      /\ puts + Cardinality(Unsent) + room <= MaxVersion
    BY DEF Begin, db, bucket
<1>2. DOMAIN pend[r] = {}
    BY <1>1, IdleSlot
<1>3. steps \in [Index -> Step]
    BY DEF Step
<1>4. its \in [Index -> Item] /\ \A i \in Index : its[i].step = steps[i]
    BY <1>3, FreshItems
<1> HIDE DEF its
<1>5. \A q \in Request : item'[q] = IF q = r THEN its ELSE item[q]
    BY <1>0, <1>1, <1>4, Types, ItemsReplaced
<1>6. /\ op'[r] = o /\ tx'[r] = "open" /\ 1 \in Index
      /\ \A q \in Request : q # r => op'[q] = op[q] /\ tx'[q] = tx[q]
    BY <1>0, <1>1, Types, FilesAssumption DEF Typed, StoresOK, Index
<1>7. Stage(r)'
    <2>1. \A i \in Index : item'[r][i].step = steps[i] /\ item'[r][i].step \in {"none", "upsert", "find"}
        BY <1>4, <1>5
    <2>2. \A i \in Index : item'[r][i].step \notin Locked /\ item'[r][i].step # "rename"
        BY <2>1 DEF Locked
    <2>3. DOMAIN pend'[r] = {}
        BY <1>1, <1>2
    <2>4. o.kind = "update" => item'[r][1].step # "none" /\ \A i \in Index \ {1} : item'[r][i].step = "none"
        BY <1>6, <2>1
    <2>5. QED
        BY <1>6, <2>2, <2>3, <2>4 DEF Stage
<1>8. StageOK'
    <2>1. \A q \in Request : q # r => item'[q] = item[q] /\ DOMAIN pend'[q] = DOMAIN pend[q]
        BY <1>1, <1>5
    <2>2. QED
        BY <1>6, <1>7, <2>1, StageKept DEF Going
<1>9. RoomOK'
    <2>1. \A q \in Request, j \in Index :
             item'[q][j].step \in Sending => item[q][j].step \in Sending \/ (q = r /\ j <= room)
        BY <1>4, <1>5 DEF Sending
    <2>2. QED
        BY <1>0, <1>1, <2>1, Types, RoomAsked
<1>10. RowsOK'
    <2>1. \A f \in FileId : f \in Free => f \in Free'
        BY <1>1 DEF Free, Holds
    <2>2. QED
        BY <2>1, RowsKept
<1>11. QED
    BY <1>8, <1>9, <1>10 DEF Going

LEMMA CallGoes ==
    ASSUME IInv, Going, NEW r \in Request, Call(r)
    PROVE  Going'
<1>0. MaxFiles \in Nat /\ 1 <= MaxFiles
    BY FilesAssumption
<1>1. ASSUME NEW u \in User, NEW names \in Names, StartUpload(r, u, names) PROVE Going'
    <2> DEFINE o == [kind |-> "upload", user |-> u, names |-> names]
               steps == [i \in Index |-> IF i \in DOMAIN names THEN "upsert" ELSE "none"]
    <2>1. Begin(r, o, steps, Len(names))
        BY <1>1 DEF StartUpload
    <2>2. o \in Operation /\ o.kind # "update"
        BY DEF Operation
    <2>3. steps \in [Index -> {"none", "upsert", "find"}]
        OBVIOUS
    <2>4. PICK n \in Index : names \in [1..n -> Name]
        BY DEF Names
    <2>5. Len(names) = n /\ DOMAIN names = 1..n /\ n \in Nat /\ n <= MaxFiles
        BY <1>0, <2>4 DEF Index
    <2>6. \A i \in Index : steps[i] # "none" => i <= n
        BY <2>5
    <2> HIDE DEF o, steps
    <2>7. QED
        BY <2>1, <2>2, <2>3, <2>5, <2>6, BeginGoes
<1>2. ASSUME NEW u \in User, NEW f \in FileId, NEW n \in Name \cup {NoName}, NEW c \in BOOLEAN,
             StartUpdate(r, u, f, n, c)
      PROVE  Going'
    <2> DEFINE o == [kind |-> "update", file |-> f, name |-> n, content |-> c]
               steps == [i \in Index |-> IF i = 1 THEN "find" ELSE "none"]
    <2>1. Begin(r, o, steps, 1)
        BY <1>2 DEF StartUpdate
    <2>2. o \in Operation
        BY DEF Operation
    <2>3. /\ steps \in [Index -> {"none", "upsert", "find"}] /\ \A i \in Index : steps[i] # "none" => i <= 1
          /\ \A i \in Index \ {1} : steps[i] = "none"
        BY DEF Index
    <2>4. steps[1] = "find"
        BY <1>0 DEF Index
    <2> HIDE DEF o, steps
    <2>5. QED
        BY <1>0, <2>1, <2>2, <2>3, <2>4, BeginGoes
<1>3. ASSUME NEW u \in User, NEW f \in FileId, StartDelete(r, u, f) PROVE Going'
    <2> DEFINE o == [kind |-> "delete", file |-> f]
               steps == [i \in Index |-> "none"]
    <2>1. Begin(r, o, steps, 0)
        BY <1>3 DEF StartDelete
    <2>2. o \in Operation /\ o.kind # "update"
        BY DEF Operation
    <2>3. steps \in [Index -> {"none", "upsert", "find"}] /\ \A i \in Index : steps[i] = "none"
        OBVIOUS
    <2> HIDE DEF o, steps
    <2>4. QED
        BY <1>0, <2>1, <2>2, <2>3, BeginGoes
<1>4. QED
    BY <1>1, <1>2, <1>3 DEF Call

\* A request is over: it has nothing left to send and locks nothing.
LEMMA CloseGoes ==
    ASSUME IInv, Going, NEW r \in Request, Close(r), UNCHANGED puts, DOMAIN pend'[r] = {},
           \A q \in Request : q # r => DOMAIN pend'[q] = DOMAIN pend[q],
           \A f \in FileId : f \in Free => file'[f] = NoFile
    PROVE  Going'
<1> DEFINE its == [i \in Index |-> Fresh("none")]
<1>0. Typed
    BY DEF IInv
<1>1. op' = [op EXCEPT ![r] = Idle] /\ tx' = [tx EXCEPT ![r] = "none"] /\ item' = [item EXCEPT ![r] = its]
    BY DEF Close
<1>2. Fresh("none") \in Item /\ Fresh("none").step = "none"
    BY FreshItem DEF Step
<1>3. its \in [Index -> Item] /\ \A i \in Index : its[i].step = "none"
    BY <1>2
<1> HIDE DEF its
<1>4. \A q \in Request : item'[q] = IF q = r THEN its ELSE item[q]
    BY <1>0, <1>1, <1>3, Types, ItemsReplaced
<1>5. op'[r] = Idle /\ tx'[r] = "none" /\ \A q \in Request : q # r => op'[q] = op[q] /\ tx'[q] = tx[q]
    BY <1>0, <1>1, Types DEF Typed, StoresOK
<1>6. Stage(r)'
    BY <1>5 DEF Stage, Idle
<1>7. StageOK'
    BY <1>4, <1>5, <1>6, StageKept DEF Going
<1>8. RoomOK'
    BY <1>0, <1>3, <1>4, Types, RoomKept DEF Sending
<1>9. \A f \in FileId : f \in Free => f \in Free'
    BY DEF Free, Holds
<1>10. RowsOK'
    BY <1>9, RowsKept
<1>11. QED
    BY <1>7, <1>8, <1>10 DEF Going

LEMMA EndingGoes ==
    ASSUME IInv, Going, NEW r \in Request, DeleteRow(r) \/ End(r) \/ Commit(r)
    PROVE  Going'
<1>0. Typed
    BY DEF IInv
<1>1. CASE DeleteRow(r)
    <2>1. Close(r) /\ UNCHANGED <<puts, pend>> /\ DOMAIN pend[r] = {}
        BY <1>1 DEF DeleteRow, MayDelete, IInv, OpOK, bucket
    <2>2. \A f \in FileId : file[f] = NoFile => file'[f] = NoFile
        BY <1>0, <1>1, Types DEF DeleteRow
    <2>3. QED
        BY <2>1, <2>2, CloseGoes DEF Free
<1>2. CASE End(r)
    <2>1. Close(r) /\ UNCHANGED <<puts, pend, file>> /\ DOMAIN pend[r] = {}
        BY <1>2 DEF End, MayEnd, IInv, PendOK, db, bucket
    <2>2. QED
        BY <2>1, CloseGoes DEF Free
<1>3. CASE Commit(r)
    <2>1. Close(r) /\ UNCHANGED puts /\ file' = [f \in FileId |-> Seen(r, f)] /\ pend' = [pend EXCEPT ![r] = <<>>]
        BY <1>3 DEF Commit, bucket
    <2>2. DOMAIN pend'[r] = {} /\ \A q \in Request : q # r => pend'[q] = pend[q]
        BY <1>0, <2>1, NoRows, Types
    <2>3. \A f \in FileId : f \in Free => file'[f] = NoFile
        BY <2>1 DEF Free, Seen, Holds
    <2>4. QED
        BY <2>1, <2>2, <2>3, CloseGoes
<1>4. QED
    BY <1>1, <1>2, <1>3

\* A refused request keeps only uploads that are under way.
LEMMA UndoGoes ==
    ASSUME IInv, Going, NEW r \in Request, Undo(r), op[r] # Idle,
           NEW its \in [Index -> Item], item' = [item EXCEPT ![r] = its],
           \A i \in Index : its[i] = item[r][i] \/ (its[i] = Fresh("failed") /\ item[r][i].step # "none"),
           \A i \in Index : its[i].step \notin {"upsert", "find", "rename"}
    PROVE  Going'
<1>0. Typed /\ 1 \in Index
    BY FilesAssumption DEF IInv, Index
<1>1. pend' = [pend EXCEPT ![r] = <<>>] /\ tx' = [tx EXCEPT ![r] = "rolledback"] /\ UNCHANGED <<file, puts, op>>
    BY DEF Undo, db, bucket
<1>2. DOMAIN pend'[r] = {} /\ \A q \in Request : q # r => pend'[q] = pend[q]
    BY <1>0, <1>1, NoRows, Types
<1>3. \A q \in Request : item'[q] = IF q = r THEN its ELSE item[q]
    BY <1>0, Types, ItemsReplaced
<1>4. tx'[r] = "rolledback" /\ \A q \in Request : q # r => tx'[q] = tx[q]
    BY <1>0, <1>1, Types
<1>5. Fresh("failed").step = "failed"
    BY DEF Fresh
<1>6. Stage(r)'
    <2>1. Stage(r)
        BY DEF Going, StageOK
    <2>2. \A i \in Index : item[r][i].step = "none" => item'[r][i].step = "none"
        BY <1>3
    <2>3. item[r][1].step # "none" => item'[r][1].step # "none"
        BY <1>0, <1>3, <1>5
    <2>4. item'[r][1].step \in Locked \cup {"rename"} => item'[r][1] = item[r][1]
        BY <1>0, <1>3, <1>5 DEF Locked
    <2>5. \A i \in Index : item'[r][i].step \notin {"upsert", "find", "rename"}
        BY <1>3
    <2>6. QED
        BY <1>1, <1>2, <1>4, <2>1, <2>2, <2>3, <2>4, <2>5 DEF Stage
<1>7. StageOK'
    BY <1>1, <1>2, <1>3, <1>4, <1>6, StageKept DEF Going
<1>8. RoomOK'
    BY <1>0, <1>1, <1>3, <1>5, Types, RoomKept DEF Sending
<1>9. \A f \in FileId : f \in Free => f \in Free'
    BY <1>1, <1>2 DEF Free, Holds
<1>10. RowsOK'
    BY <1>9, RowsKept
<1>11. QED
    BY <1>7, <1>8, <1>10 DEF Going

LEMMA RollbackGoes == ASSUME IInv, KindOK, Going, NEW r \in Request, Rollback(r) PROVE Going'
<1>1. /\ tx[r] = "open" /\ Undo(r) /\ item' = item /\ \A i \in Index : item[r][i].step # "upsert"
      /\ \E i \in Index : item[r][i].step \in {"failed", "saved"}
    BY DEF Rollback, MayRollback
<1>2. op[r] # Idle
    BY <1>1 DEF IInv, OpOK
<1>3. item[r] \in [Index -> Item] /\ item' = [item EXCEPT ![r] = item[r]] /\ 1 \in Index
    BY <1>1, Types, FilesAssumption DEF IInv, Index
<1>4. ASSUME NEW i \in Index, item[r][i].step \in {"find", "rename"} PROVE FALSE
    <2>1. op[r].kind = "update"
        BY <1>4 DEF KindOK, KindOf
    <2>2. \A j \in Index : item[r][j].step # "none" => j = 1
        BY <2>1 DEF Going, StageOK, Stage
    <2>3. QED
        BY <1>1, <1>4, <2>2
<1>5. \A i \in Index : item[r][i].step \notin {"upsert", "find", "rename"}
    BY <1>1, <1>4
<1>6. QED
    BY <1>1, <1>2, <1>3, <1>5, UndoGoes

LEMMA BreakDeadlockGoes == ASSUME IInv, KindOK, Going, NEW r \in Request, BreakDeadlock(r) PROVE Going'
<1> DEFINE its == [i \in Index |->
                    IF item[r][i].step \in {"upsert", "rename"} \/ (item[r][i].step = "put" /\ ~ReadBack(r))
                    THEN Fresh("failed") ELSE item[r][i]]
<1>1. item \in [Request -> [Index -> Item]]
    BY Types DEF IInv
<1>2. Undo(r) /\ item' = [item EXCEPT ![r] = its]
    BY <1>1 DEF BreakDeadlock
<1>3. PICK p \in Request : WaitsFor(r, p)
    BY DEF BreakDeadlock, InCircle, Circle
<1>4. op[r] # Idle
    BY <1>3 DEF WaitsFor, IInv, OpOK
<1>5. Fresh("failed") \in Item /\ Fresh("failed").step = "failed"
    BY FreshItem DEF Step
<1>6. /\ its \in [Index -> Item]
      /\ \A i \in Index : its[i] = item[r][i] \/ (its[i] = Fresh("failed") /\ item[r][i].step # "none")
      /\ \A i \in Index : its[i].step \notin {"upsert", "rename"}
    BY <1>1, <1>5
<1>7. ASSUME NEW i \in Index, item[r][i].step = "find" PROVE FALSE
    <2>1. op[r].kind = "update"
        BY <1>7 DEF KindOK, KindOf
    <2>2. \A j \in Index : item[r][j].step \notin {"upsert", "rename", "head"}
        BY <1>7, <2>1 DEF Going, StageOK, Stage
    <2>3. QED
        BY <1>3, <2>1, <2>2 DEF WaitsFor, NextUpsert
<1>8. \A i \in Index : its[i].step # "find"
    BY <1>5, <1>7
<1> HIDE DEF its
<1>9. \A i \in Index : its[i].step \notin {"upsert", "find", "rename"}
    BY <1>6, <1>8
<1>10. QED
    BY <1>2, <1>4, <1>6, <1>9, UndoGoes

LEMMA CrashGoes == ASSUME IInv, Going, Crash PROVE Going'
<1>1. \A r \in Request : /\ op'[r] = Idle /\ tx'[r] = "none" /\ DOMAIN pend'[r] = {}
                         /\ \A i \in Index : item'[r][i] = Fresh("none")
    BY NoRows DEF Crash
<1>2. UNCHANGED <<file, puts>>
    BY DEF Crash, db, bucket
<1>3. StageOK'
    BY <1>1 DEF StageOK, Stage, Idle
<1>4. RoomOK'
    BY <1>1, <1>2, Types, RoomKept DEF IInv, Sending, Fresh
<1>5. \A f \in FileId : f \in Free => f \in Free'
    BY <1>1, <1>2 DEF Free, Holds
<1>6. RowsOK'
    BY <1>5, RowsKept
<1>7. QED
    BY <1>3, <1>4, <1>6 DEF Going

LEMMA InitGoes == Init => Going
<1> SUFFICES ASSUME Init PROVE Going
    OBVIOUS
<1>1. /\ \A r \in Request : op[r] = Idle /\ tx[r] = "none" /\ DOMAIN pend[r] = {}
      /\ \A r \in Request, i \in Index : item[r][i].step = "none"
      /\ puts = 0 /\ \A f \in FileId : file[f] = NoFile
    BY NoRows DEF Init, Fresh
<1>2. StageOK
    BY <1>1 DEF StageOK, Stage, Idle
<1>3. Unsent = {}
    BY <1>1 DEF Unsent
<1>4. IsFiniteSet(Unsent) /\ Cardinality(Unsent) = 0
    BY <1>3, FS_EmptySet
<1>5. RoomOK
    BY <1>1, <1>4, FilesAssumption DEF RoomOK
<1>6. FileId \ Free = {}
    BY <1>1 DEF Free, Holds
<1>7. IsFiniteSet(FileId \ Free)
    BY <1>6, FS_EmptySet
<1>8. QED
    BY <1>2, <1>5, <1>7 DEF Going, RowsOK

LEMMA GoingHolds == IInv /\ CacheOK /\ KindOK /\ Going /\ [Next]_vars => Going'
<1> SUFFICES ASSUME IInv, CacheOK, KindOK, Going, [Next]_vars PROVE Going'
    OBVIOUS
<1>1. ASSUME NEW r \in Request, NEW i \in Index, Upload(r, i) PROVE Going'
    BY <1>1, UpsertGoes, PutGoes, PutFailsGoes, SaveGoes, SaveFailsGoes, CleanupGoes, DropGoes DEF Upload
<1>2. ASSUME NEW r \in Request, Work(r) PROVE Going'
    BY <1>1, <1>2, FindGoes, RenameGoes, EndingGoes, RollbackGoes, BreakDeadlockGoes DEF Work
<1>3. ASSUME UNCHANGED <<file, puts, op, tx, pend, item>> PROVE Going'
    <2>1. StageOK'
        BY <1>3 DEF Going, StageOK, Stage
    <2>2. RoomOK'
        BY <1>3, Types, RoomKept DEF IInv
    <2>3. \A f \in FileId : f \in Free => f \in Free'
        BY <1>3 DEF Free, Holds
    <2>4. RowsOK'
        BY <2>3, RowsKept
    <2>5. QED
        BY <2>1, <2>2, <2>4 DEF Going
<1>4. ASSUME NEW f \in FileId, NEW k \in Key, Expire(f, k) PROVE Going'
    BY <1>3, <1>4 DEF Expire, db, bucket
<1>5. CASE UNCHANGED vars
    BY <1>3, <1>5 DEF vars
<1>6. QED
    BY <1>2, <1>4, <1>5, CallGoes, CrashGoes DEF Next

\* For any number of overlapping uploads, updates, deletions, failures and
\* crashes, when there is always an unused row id (they are uuids): some request
\* can take its next step, or Postgres finds the circle they wait in and fails
\* one of them; only an upload that deletes a row its own request has locked
\* makes everyone stand still.
THEOREM OthersGoOn == ASSUME ~IsFiniteSet(FileId) PROVE Spec => []OnlySelfLocksStall
<1>1. IInv /\ Serving /\ Going => OnlySelfLocksStall
    BY NobodyStuck DEF Serving
<1>2. IInv /\ CacheOK /\ Serving /\ Going /\ [Next]_vars => Going'
    BY GoingHolds DEF Serving
<1>3. QED
    BY <1>1, <1>2, InitGoes, AlwaysServing, Invariance, PTL DEF Spec

=============================================================================
