--------------------------- MODULE MCSearchQuery ---------------------------
(* SearchQuery over files: of FileEntity's columns one of each kind (name,    *)
(* userId, createdAt, type, and the hidden path), its eager relation          *)
(* lastVersion with its size and the hidden fileId, and a boolean column.     *)
EXTENDS SearchQuery
CONSTANTS doc, image

Column(type) == [type |-> type, isSelect |-> TRUE, enumName |-> None]
MCColumns ==
    [file |-> [name |-> Column("varchar"), path |-> Column("varchar"), userId |-> Column("uuid"),
               createdAt |-> Column("timestamptz"), open |-> Column("boolean"),
               type |-> [type |-> "enum", isSelect |-> TRUE, enumName |-> "FileType"]],
     version |-> [size |-> Column("int"), fileId |-> Column("uuid")]]
MCEager == [file |-> [lastVersion |-> "version"], version |-> <<>>]
MCExact == {"userId", "fileId"}
MCStrings == {"a"}
MCEnumLists == {{}, {doc}}
MCDateRanges == {<<1, None>>, <<None, 1>>, <<1, 2>>}
MCIntRanges == {<<None, None>>, <<1, None>>, <<0, 1>>}
MCContains(x, v) == v = "a" \/ x = v
Owned == "userId" :> [op |-> "equal", value |-> "a"]
MCBase == {{}, {Owned, "name" :> [op |-> "isNull"]}}
MCRow == [name : {None, "a", "ab"}, userId : {"a", "ab"}, createdAt : {1, 2}, open : BOOLEAN,
          type : {doc, image}, lastVersion : {None} \cup [size : 0..2]]
=============================================================================
