---------------------------- MODULE IntentShapes ----------------------------
(***************************************************************************)
(* The intent sources (src/src/intent/sources, and those of the Python,    *)
(* Rust and Java SDKs): the shape a function expects, read from the types, *)
(* schemas and tables of a project.  One abstract project is written in    *)
(* every source's language; each Extract operator is that source's reading *)
(* of it.                                                                  *)
(*                                                                         *)
(* decls maps a name to its fields, a field to its type, whether it may be *)
(* left out (opt) and whether it has a default (dflt).  "handler" is a     *)
(* function that takes the first declaration.  A language without a        *)
(* construct writes the nearest it has: a field that may be left out is    *)
(* Option, Optional or a nullable type, and a Both only its left type.     *)
(***************************************************************************)
EXTENDS Integers, Sequences, FiniteSets, FiniteSetsExt, Functions, TLC

CONSTANTS
  Names,        \* the names a type may refer to
  First,        \* the first declaration of a file, the parameter of handler
  MAX_SHAPE     \* the size a shape is cut to

\* Types.
String == [k |-> "string"]
Enum == [k |-> "enum"]
Ref(n) == [k |-> "ref", to |-> n]
List(t) == [k |-> "list", of |-> t]
OrNull(t) == [k |-> "null", of |-> t]
Both(m, n) == [k |-> "both", left |-> m, right |-> n]
EnumValues == {"a", "b"}

\* Shapes.  type and ref are "" when absent.
Shape(type) == [type |-> type, props |-> <<>>, required |-> {}, items |-> <<>>,
                enum |-> {}, ref |-> "", symbol |-> "", truncated |-> FALSE]
ObjectShape(symbol, props, required) ==
  [Shape("object") EXCEPT !.symbol = symbol, !.props = props, !.required = required]
ArrayShape(items) == [Shape("array") EXCEPT !.items = <<items>>]
EnumShape(type, values) == [Shape(type) EXCEPT !.enum = values]
RefShape(n) == [Shape("") EXCEPT !.ref = n, !.symbol = n]
NoShape == Shape("none")
Unknown == Shape("unknown")

TypeOrUnknown(shape) == IF shape.type = "" THEN "unknown" ELSE shape.type
Mandatory(fields) == {f \in DOMAIN fields : ~fields[f].opt}

\* mergeObjects and allOf: what is not an object, a $ref for one, adds nothing.
MergeObjects(l, r) ==
  LET of(s) == IF s.type = "object" THEN s.props ELSE <<>>
      req(s) == IF s.type = "object" THEN s.required ELSE {}
      both == [f \in DOMAIN of(l) \cup DOMAIN of(r) |->
                 IF f \in DOMAIN of(r) THEN of(r)[f] ELSE of(l)[f]]
  IN ObjectShape("", both, req(l) \cup req(r))

---------------------------------------------------------------------------
\* TypeScript.  seen holds the names being resolved, a copy per branch.
RECURSIVE TsType(_, _, _)

TsMembers(decls, n, seen) ==
  ObjectShape(n, [f \in DOMAIN decls[n] |-> TsType(decls, decls[n][f].type, seen)],
              Mandatory(decls[n]))

\* Mutation: the names of siblings count as being resolved.
TsRefSiblings(decls, n, seen) ==
  IF n \in seen \/ n \notin DOMAIN decls THEN RefShape(n)
  ELSE TsMembers(decls, n, DOMAIN decls)

TsRef(decls, n, seen) ==
  IF n \in seen \/ n \notin DOMAIN decls THEN RefShape(n)
  ELSE TsMembers(decls, n, seen \cup {n})

\* A union: a part of one literal is its value, any other the name of its type.
\* An enum is a union of literals; null is a literal that is not read.
Literals == {EnumShape("", {v}) : v \in EnumValues}
NullLiteral == Unknown
NarrowForEnum(part) ==
  IF Cardinality(part.enum) = 1 THEN CHOOSE v \in part.enum : TRUE ELSE TypeOrUnknown(part)
TsUnion(parts) == EnumShape("", {NarrowForEnum(part) : part \in parts})

TsType(decls, t, seen) ==
  CASE t.k = "string" -> Shape("string")
    [] t.k = "enum" -> TsUnion(Literals)
    [] t.k = "list" -> ArrayShape(TsType(decls, t.of, seen))
    [] t.k = "ref" -> TsRef(decls, t.to, seen)
    [] t.k = "null" -> TsUnion({NullLiteral} \cup IF t.of.k = "enum" THEN Literals
                                                  ELSE {TsType(decls, t.of, seen)})
    [] t.k = "both" -> MergeObjects(TsRef(decls, t.left, seen), TsRef(decls, t.right, seen))

\* A declaration asked for by its name is not in seen while it is read.
TsExtract(decls, symbol) ==
  CASE symbol = "handler" -> TsRef(decls, First, {})
    [] symbol \in DOMAIN decls -> TsMembers(decls, symbol, {})
    [] OTHER -> NoShape

---------------------------------------------------------------------------
\* Zod.  A modifier on an identifier is not looked through; nullable and
\* default leave the shape as it is; there is no case for an intersection.  Only
\* the schema asked for gets its name: one inlined below it has none.
RECURSIVE ZodType(_, _, _, _)

ZodObject(decls, n, seen) ==
  LET modified(f) == decls[n][f].opt \/ decls[n][f].dflt
  IN ObjectShape("", [f \in DOMAIN decls[n] |-> ZodType(decls, decls[n][f].type, modified(f), seen)],
                 Mandatory(decls[n]))

ZodType(decls, t, modified, seen) ==
  CASE t.k = "string" -> Shape("string")
    [] t.k = "enum" -> EnumShape("", EnumValues)
    [] t.k = "list" -> ArrayShape(ZodType(decls, t.of, FALSE, seen))
    [] t.k = "ref" -> IF modified THEN Unknown
                      ELSE IF t.to \in seen THEN RefShape(t.to)
                      ELSE ZodObject(decls, t.to, seen \cup {t.to})
    [] t.k = "null" -> ZodType(decls, t.of, TRUE, seen)
    [] t.k = "both" -> Unknown

ZodTarget(decls, symbol) == IF symbol \in DOMAIN decls THEN symbol ELSE First
ZodExtract(decls, symbol) ==
  LET n == ZodTarget(decls, symbol) IN [ZodObject(decls, n, {}) EXCEPT !.symbol = n]

---------------------------------------------------------------------------
\* OpenAPI: schemas are $refs, null a oneOf, Both an allOf.  A reference that is
\* left keeps the pointer, its name is the last part of it.
Pointer(n) == "#/components/schemas/" \o n
PointerShape(n) == [RefShape(n) EXCEPT !.ref = Pointer(n)]

RECURSIVE JsonSchemaToShape(_, _, _)

JsonSchemaObject(decls, n, seen) ==
  ObjectShape(n, [f \in DOMAIN decls[n] |-> JsonSchemaToShape(decls, decls[n][f].type, seen)],
              Mandatory(decls[n]))

JsonSchemaRef(decls, n, seen) ==
  IF n \in seen \/ n \notin DOMAIN decls THEN PointerShape(n)
  ELSE JsonSchemaObject(decls, n, seen \cup {n})

JsonSchemaToShape(decls, t, seen) ==
  CASE t.k = "string" -> Shape("string")
    [] t.k = "enum" -> EnumShape("", EnumValues)
    [] t.k = "list" -> ArrayShape(JsonSchemaToShape(decls, t.of, seen))
    [] t.k = "ref" -> JsonSchemaRef(decls, t.to, seen)
    [] t.k = "null" -> EnumShape("", {TypeOrUnknown(JsonSchemaToShape(decls, t.of, seen)), "null"})
    [] t.k = "both" -> MergeObjects(JsonSchemaRef(decls, t.left, seen), JsonSchemaRef(decls, t.right, seen))

\* The body of an operation is a $ref; the operation is found by its id, else
\* by the path its file stands for.  The body gets the operation's name.
Operation == "operation"
OperationToShape(decls) == [JsonSchemaRef(decls, First, {}) EXCEPT !.symbol = Operation]
OpenapiExtract(decls) == OperationToShape(decls)

---------------------------------------------------------------------------
\* Pydantic: the schema the library emits, whose root is a $ref only when the
\* model reaches itself; of T | None only T is kept.
RECURSIVE PySchemaToShape(_, _, _)

RECURSIVE NamesIn(_)
NamesIn(t) ==
  CASE t.k \in {"list", "null"} -> NamesIn(t.of)
    [] t.k = "ref" -> {t.to}
    [] t.k = "both" -> {t.left, t.right}
    [] OTHER -> {}
Uses(decls, n) == UNION {NamesIn(decls[n][f].type) : f \in DOMAIN decls[n]}
Reaches(decls, n) == n \in Uses(decls, n) \/ \E m \in Uses(decls, n) : n \in Uses(decls, m)

\* A field with a default is not in the emitted schema's required.
PySchemaObject(decls, n, seen) ==
  ObjectShape(n, [f \in DOMAIN decls[n] |-> PySchemaToShape(decls, decls[n][f].type, seen)],
              {f \in Mandatory(decls[n]) : ~decls[n][f].dflt})

PySchemaRef(decls, n, seen) ==
  IF n \in seen \/ n \notin DOMAIN decls THEN RefShape(n)
  ELSE PySchemaObject(decls, n, seen \cup {n})

PySchemaToShape(decls, t, seen) ==
  CASE t.k = "string" -> Shape("string")
    [] t.k = "enum" -> EnumShape("", EnumValues)
    [] t.k = "list" -> ArrayShape(PySchemaToShape(decls, t.of, seen))
    [] t.k = "ref" -> PySchemaRef(decls, t.to, seen)
    [] t.k = "null" -> PySchemaToShape(decls, t.of, seen)
    [] t.k = "both" -> MergeObjects(PySchemaRef(decls, t.left, seen), PySchemaRef(decls, t.right, seen))

ResolveClass(decls, symbol) == IF symbol \in DOMAIN decls THEN symbol ELSE First
PyExtract(decls, symbol) ==
  LET n == ResolveClass(decls, symbol) IN
  PySchemaObject(decls, n, IF Reaches(decls, n) THEN {n} ELSE {})

---------------------------------------------------------------------------
\* The sources that do not follow references: what a source makes of a name,
\* of an enum, and whether a null inside a type is an object of its own.
Reading(name(_), enum, option) ==
  [name |-> [n \in Names |-> name(n)], enum |-> enum, option |-> option]
NamedObject(n) == ObjectShape(n, <<>>, {})

RECURSIVE Flat(_, _)
Flat(t, reading) ==
  CASE t.k = "string" -> Shape("string")
    [] t.k = "enum" -> reading.enum
    [] t.k = "list" -> ArrayShape(Flat(t.of, reading))
    [] t.k = "ref" -> reading.name[t.to]
    [] t.k = "null" -> IF reading.option THEN NamedObject("Option") ELSE Flat(t.of, reading)
    [] t.k = "both" -> reading.name[t.left]

Nullable(field) == field.opt \/ field.type.k = "null"
Bare(t) == IF t.k = "null" THEN t.of ELSE t
FlatObject(n, fields, shape(_), required(_)) ==
  ObjectShape(n, [f \in DOMAIN fields |-> shape(fields[f])], {f \in DOMAIN fields : required(fields[f])})

\* GraphQL: NonNull is required; the null of a list's items is not kept.
GqlField(field) == Flat(field.type, Reading(RefShape, EnumShape("string", EnumValues), FALSE))
GqlRequired(field) == ~Nullable(field)
GqlType(decls, n) == FlatObject(n, decls[n], GqlField, GqlRequired)
GqlExtract(decls, symbol) ==
  CASE symbol = "handler" -> ObjectShape("", ("input" :> RefShape(First)), {"input"})
    [] symbol \in DOMAIN decls -> GqlType(decls, symbol)
    [] OTHER -> GqlType(decls, First)

\* Prisma: a relation is never required, nor a field with a default.
PrismaField(field) == Flat(field.type, Reading(RefShape, EnumShape("string", EnumValues), FALSE))
PrismaRelation(field) == NamesIn(field.type) # {}
PrismaRequired(field) == ~Nullable(field) /\ ~field.dflt /\ ~PrismaRelation(field)
PrismaModel(decls, n) == FlatObject(n, decls[n], PrismaField, PrismaRequired)
ResolveModelName(decls, symbol) == IF symbol \in DOMAIN decls THEN symbol ELSE First
PrismaExtract(decls, symbol) == PrismaModel(decls, ResolveModelName(decls, symbol))

\* Drizzle: a reference is a column of numbers, an enum's factory is unknown.
ColumnOf(n) == Shape("number")
DrizzleField(field) == Flat(field.type, Reading(ColumnOf, Unknown, FALSE))
DrizzleRequired(field) == ~Nullable(field) /\ ~field.dflt
WalkTable(decls, n) == FlatObject(n, decls[n], DrizzleField, DrizzleRequired)
TableTarget(decls, symbol) == IF symbol \in DOMAIN decls THEN symbol ELSE First
DrizzleExtract(decls, symbol) == WalkTable(decls, TableTarget(decls, symbol))

\* serde: the outermost Option is taken off, an inner one is a name as any.
MapType(t) == Flat(t, Reading(NamedObject, NamedObject("Enum"), TRUE))
UnwrapOption(field) == IF field.opt THEN field.type ELSE Bare(field.type)
RustField(field) == MapType(UnwrapOption(field))
RustRequired(field) == ~field.dflt /\ ~Nullable(field)
StructToShape(decls, n) == FlatObject(n, decls[n], RustField, RustRequired)
RustResolve(decls, symbol) == IF symbol \in DOMAIN decls THEN symbol ELSE First
RustExtract(decls, symbol) == StructToShape(decls, RustResolve(decls, symbol))

\* Java records: Optional where a field may be left out.  mapType takes one
\* Optional off at every level; a nullable component has no notation.
JavaField(field) == Flat(field.type, Reading(NamedObject, NamedObject("Enum"), FALSE))
JavaRequired(field) == ~field.opt
JavaPick(decls, symbol) == IF symbol \in DOMAIN decls THEN symbol ELSE First
JavaExtract(decls, symbol) ==
  LET n == JavaPick(decls, symbol) IN FlatObject(n, decls[n], JavaField, JavaRequired)

---------------------------------------------------------------------------
\* capShapeSize, and its three ports.  The size of a shape is its nodes and
\* values; a node that is cut still has its type, its symbol and a mark.
RECURSIVE Size(_)
Size(s) == 1 + Cardinality(s.enum) + Cardinality(s.required)
             + (IF s.truncated THEN 1 ELSE 0)
             + MapThenSumSet(LAMBDA f : Size(s.props[f]), DOMAIN s.props)
             + (IF s.items = <<>> THEN 0 ELSE Size(s.items[1]))

RECURSIVE TruncateAtDepth(_, _)
TruncateAtDepth(s, depth) ==
  IF depth = 0 THEN [Shape(s.type) EXCEPT !.symbol = s.symbol, !.truncated = TRUE]
  ELSE [s EXCEPT !.props = [f \in DOMAIN s.props |-> TruncateAtDepth(s.props[f], depth - 1)],
                 !.items = IF s.items = <<>> THEN <<>> ELSE <<TruncateAtDepth(s.items[1], depth - 1)>>]

Stub(s) == [Shape(IF s.type = "" THEN "object" ELSE s.type)
              EXCEPT !.symbol = s.symbol, !.truncated = TRUE]

\* The cuts are tried from the deepest.
RECURSIVE CutFrom(_, _)
CutFrom(s, depth) ==
  IF depth = 0 THEN Stub(s)
  ELSE LET cut == TruncateAtDepth(s, depth) IN
       IF Size(cut) <= MAX_SHAPE THEN cut ELSE CutFrom(s, depth - 1)

CapShapeSize(s) == IF Size(s) <= MAX_SHAPE THEN s ELSE CutFrom(s, 4)

=============================================================================
