---------------------------- MODULE SearchQuery ----------------------------
(***************************************************************************)
(* What graphql-search-query makes of a search: the filter a client sends   *)
(* is an "and" part and an "or" part, each with at most one condition per   *)
(* field; what goes to TypeORM is a set of clauses, each with at most one   *)
(* operator per field.  A field may be a relation, and its condition again  *)
(* a filter.                                                                *)
(***************************************************************************)
EXTENDS Naturals, FiniteSets, TLC

CONSTANTS
    Entity,      \* the entity searched
    Columns,     \* of every entity: its own columns by name, each with its type
    Eager,       \* of every entity: its eager relations, each with the entity it leads to
    Strings, EnumLists, DateRanges, IntRanges, \* bounds: what a client asks of a column
    Exact,       \* fields named id or ...Id
    AndFields, OrFields, NestedFields, \* bounds: fields of an "and", an "or", a relation's part
    Base,        \* the restrictions a caller may pass in options.where
    Row,         \* the rows searched
    Contains(_, _), \* ILIKE
    None         \* an absent bound, part or value

ASSUME SearchAssumption ==
    /\ Entity \in DOMAIN Columns /\ DOMAIN Eager = DOMAIN Columns
    /\ \A e \in DOMAIN Eager : \A r \in DOMAIN Eager[e] : Eager[e][r] \in DOMAIN Columns
    /\ {AndFields, OrFields, NestedFields} \subseteq Nat

VARIABLES asked, base, where, phase
vars == <<asked, base, where, phase>>

(***************************************************************************)
(* The input types made of the entity's metadata                           *)
(***************************************************************************)
ColumnsDontShow ==
    {"password", "emailConfirmKey", "forgotConfirmKey", "deletedAt", "path", "role", "avatarId",
     "fileId"}
ColumnsInt ==
    {"fixed", "decimal", "float", "double", "int", "integer", "smallint", "bigint", "numeric"}

\* The input of a column, None for one that cannot be asked about.
InputType(name, column) ==
    CASE ~column.isSelect \/ name \in ColumnsDontShow -> None
      [] column.type = "enum" -> IF column.enumName = None THEN None ELSE "Enums"
      [] column.type = "boolean" -> "Boolean"
      [] column.type \in {"timestamp", "timestamptz"} -> "Date"
      [] column.type \in ColumnsInt -> "Int"
      [] OTHER -> "String"

OwnFields(e) == {f \in DOMAIN Columns[e] : InputType(f, Columns[e][f]) # None}
Relations(e) == DOMAIN Eager[e] \ ColumnsDontShow

\* The values a column of each input type may be asked for.  {} gives none of the keys.
Ranges(bounds) ==
    {[kind |-> "range", low |-> b[1], high |-> b[2]] : b \in bounds} \cup {[kind |-> "{}"]}
Values(type) ==
    CASE type = "Boolean" -> [kind : {"value"}, value : BOOLEAN]
      [] type = "Date" -> Ranges(DateRanges)
      [] type = "Int" -> Ranges(IntRanges)
      [] type = "Enums" -> [kind : {"enum"}, values : EnumLists]
      [] type = "String" -> [kind : {"text"}, value : Strings]

RECURSIVE Conditions(_, _), Parts(_, _)

\* Every field may also be null; undefined comes only from a caller in the code.
Conditions(e, f) ==
    [kind : {"null", "undefined"}] \cup
    IF f \in Relations(e)
    THEN LET part == Parts(Eager[e][f], NestedFields) \cup {None}
         IN  [kind : {"filter"}, and : part, or : part] \cup {[kind |-> "{}"]}
    ELSE Values(InputType(f, Columns[e][f]))

\* The "and" or "or" parts of at most n fields.
Parts(e, n) ==
    IF n = 0 THEN {<<>>}
    ELSE LET one == UNION {{f :> v : v \in Conditions(e, f)} : f \in OwnFields(e) \cup Relations(e)}
         IN  Parts(e, n - 1) \cup {p @@ q : p \in Parts(e, n - 1), q \in one}

(***************************************************************************)
(* The translation                                                         *)
(***************************************************************************)
\* JavaScript takes a bound of 0 for no bound (a Date is never 0); None is null.
Truthy(bound) == bound \notin {None, 0}

RangeOperator(low, high) ==
    CASE Truthy(low) /\ Truthy(high) -> [op |-> "between", low |-> low, high |-> high]
      [] Truthy(low) /\ ~Truthy(high) -> [op |-> "atLeast", low |-> low]
      [] ~Truthy(low) /\ Truthy(high) -> [op |-> "atMost", high |-> high]
      [] OTHER -> [op |-> "none"]

RECURSIVE Unsupported(_), WhereCondition(_, _), WhereOr(_, _), WhereAnd(_)

PartOf(p) == IF p = None THEN <<>> ELSE p

\* A condition that is none of the kinds known throws, wherever it stands.
Unsupported(v) ==
    \/ v.kind = "{}"
    \/ v.kind = "filter" /\ \E part \in {PartOf(v.and), PartOf(v.or)} :
           \E f \in DOMAIN part : Unsupported(part[f])

\* The clause of one condition: no field at all for a range or a filter that gives
\* nothing, a field TypeORM skips for undefined.
WhereCondition(f, v) ==
    LET operator ==
          CASE v.kind = "undefined" -> [op |-> "undefined"]
            [] v.kind = "null" -> [op |-> "isNull"]
            [] v.kind = "value" -> [op |-> "equal", value |-> v.value]
            [] v.kind = "text" -> [op |-> IF f \in Exact THEN "equal" ELSE "like", value |-> v.value]
            [] v.kind = "range" -> RangeOperator(v.low, v.high)
            [] v.kind = "enum" -> [op |-> "in", values |-> v.values]
            [] v.kind = "filter" ->
                 CASE v.or # None -> [op |-> "any", clauses |-> WhereOr(v.or, PartOf(v.and))]
                   [] v.or = None /\ v.and # None -> [op |-> "any", clauses |-> {WhereAnd(v.and)}]
                   [] OTHER -> [op |-> "none"]
    IN  IF operator.op = "none" THEN <<>> ELSE f :> operator

WhereAnd(and) ==
    LET given == {f \in DOMAIN and : WhereCondition(f, and[f]) # <<>>}
    IN  [f \in given |-> WhereCondition(f, and[f])[f]]

\* Mutant of WhereOr: the "and" part forgotten.
WhereOrAlone(or, and) == {WhereCondition(f, or[f]) : f \in DOMAIN or}

\* One clause per alternative: the "and" part, overlaid by the alternative.
WhereOr(or, and) == {WhereCondition(f, or[f]) @@ WhereAnd(and) : f \in DOMAIN or}

\* normalize: the caller's restriction is one more alternative.
Normalized(filter, restriction) ==
    restriction \cup
    CASE filter.or # <<>> -> WhereOr(filter.or, filter.and)
      [] filter.or = <<>> /\ filter.and # <<>> -> {WhereAnd(filter.and)}
      [] OTHER -> {}

(***************************************************************************)
(* TypeORM: an alternative in which nothing restricts is left out, and     *)
(* where no alternative is left every row will do.  A relation's clauses   *)
(* restrict if one of them does.                                           *)
(***************************************************************************)
\* A row without the relation has null in its place, and in its fields.
At(x, f) == IF x = None THEN None ELSE x[f]

RECURSIVE Restricting(_)
Restricting(clause) ==
    \E f \in DOMAIN clause :
        /\ clause[f].op # "undefined"
        /\ clause[f].op = "any" => \E c \in clause[f].clauses : Restricting(c)

RECURSIVE Meets(_, _)
Meets(x, o) ==
    CASE o.op = "undefined" -> TRUE
      [] o.op = "isNull" -> x = None
      [] o.op = "equal" -> x = o.value
      [] o.op = "like" -> x # None /\ Contains(x, o.value)
      [] o.op = "between" -> x # None /\ o.low <= x /\ x <= o.high
      [] o.op = "atLeast" -> x # None /\ o.low <= x
      [] o.op = "atMost" -> x # None /\ x <= o.high
      [] o.op = "in" -> x \in o.values
      [] o.op = "any" ->
           LET real == {c \in o.clauses : Restricting(c)}
           IN  real = {} \/ \E c \in real : \A f \in DOMAIN c : Meets(At(x, f), c[f])

Found(row) == Meets(row, [op |-> "any", clauses |-> where])

(***************************************************************************)
(* What the filter says                                                    *)
(***************************************************************************)
RECURSIVE Says(_, _, _)
Says(f, v, x) ==
    CASE v.kind = "undefined" -> TRUE
      [] v.kind = "null" -> x = None
      [] v.kind = "value" -> x = v.value
      [] v.kind = "text" -> x # None /\ (IF f \in Exact THEN x = v.value ELSE Contains(x, v.value))
      [] v.kind = "range" -> \/ v.low = None /\ v.high = None
                             \/ x # None /\ (v.low = None \/ v.low <= x) /\ (v.high = None \/ x <= v.high)
      [] v.kind = "enum" -> x \in v.values
      [] v.kind = "filter" ->
           LET and == PartOf(v.and)
               or == PartOf(v.or)
           IN  /\ \A g \in DOMAIN and : Says(g, and[g], At(x, g))
               /\ or = <<>> \/ \E g \in DOMAIN or : Says(g, or[g], At(x, g))

Filter == [kind |-> "filter", and |-> asked.and, or |-> asked.or]
Restricted(row) == Meets(row, [op |-> "any", clauses |-> base])

\* Where the two may part: a field in both parts, a bound of 0, beside an alternative
\* that restricts one that does not, a relation's empty "or" beside an "and".
RECURSIVE Pitfall(_)
Pitfall(v) ==
    CASE v.kind = "range" -> 0 \in {v.low, v.high}
      [] v.kind = "filter" ->
           LET and == PartOf(v.and)
               or == PartOf(v.or)
               real == {f \in DOMAIN or : Restricting(WhereCondition(f, or[f]))}
           IN  \/ DOMAIN and \cap DOMAIN or # {}
               \/ v.or = <<>> /\ and # <<>>
               \/ ~Restricting(WhereAnd(and)) /\ real \notin {{}, DOMAIN or}
               \/ \E f \in DOMAIN and : Pitfall(and[f])
               \/ \E f \in DOMAIN or : Pitfall(or[f])
      [] OTHER -> FALSE

(***************************************************************************)
(* One search                                                              *)
(***************************************************************************)
Init ==
    /\ asked \in [and : Parts(Entity, AndFields), or : Parts(Entity, OrFields)]
    /\ base \in Base
    /\ where = {} /\ phase = "asked"

Normalize ==
    /\ phase = "asked" /\ ~Unsupported(Filter) /\ phase' = "found"
    /\ where' = Normalized(asked, base)
    /\ UNCHANGED <<asked, base>>

Refuse ==
    /\ phase = "asked" /\ Unsupported(Filter) /\ phase' = "refused"
    /\ UNCHANGED <<asked, base, where>>

Next == Normalize \/ Refuse
Spec == Init /\ [][Next]_vars

(***************************************************************************)
(* Properties                                                              *)
(***************************************************************************)
\* A search that is not refused finds the rows the filter asks for, except in the
\* pitfalls above; a caller's restriction (options.where) is met or the filter is,
\* either will do, and it stands alone only beside a filter that restricts nothing.
FindsWhatIsAsked ==
    phase = "found" /\ ~Pitfall(Filter) =>
        LET some(clauses) == \E c \in clauses : Restricting(c)
            both == some(base) /\ some(Normalized(asked, {}))
        IN  \A row \in Row :
                Found(row) <=> IF both
                               THEN Says("", Filter, row) \/ Restricted(row)
                               ELSE Says("", Filter, row) /\ Restricted(row)
=============================================================================
