------------------------------ MODULE GenClient ------------------------------
(***************************************************************************)
(* gebweb generate client (src/cmd/gebweb/genclient.go): a client in       *)
(* Geblang from an OpenAPI document.  The emitter writes a class for each  *)
(* schema and then a method for each operation, and names things as it     *)
(* goes; what it writes must fit together when all is written.             *)
(*                                                                         *)
(* Names are taken to be identifiers with a class name of their own; of a  *)
(* type the model keeps which component it refers to.                      *)
(***************************************************************************)
EXTENDS Naturals, Sequences, FiniteSets, SequencesExt

CONSTANTS
  Schemas,      \* names under components/schemas
  NoSchema,     \* a type that refers to none
  Documents,    \* OpenAPI documents
  NameOf(_, _), \* a base name and a number
  Preferred     \* the response codes that are looked at first, in this order

(* A document has                                                          *)
(*   shape  : Schemas -> {"object", "untyped", "scalar", "absent"}         *)
(*   fields : Schemas -> the schemas its properties refer to               *)
(*   ops    : a sequence of operations, in the order of paths and verbs    *)
(* and an operation                                                        *)
(*   name   : operationId or what is derived from verb and path            *)
(*   vars   : the names in braces in its path                              *)
(*   shared, own : parameters of the path and of the operation             *)
(*   body   : {"none", "required", "optional", "raw"}   use : its schema   *)
(*   answers: code of success or "default" -> the schema of its JSON       *)
(* A parameter is [name, in, required, schema].                            *)

\* A parameter is known by its place and its name.
Key(p) == <<p.in, p.name>>
Keys(s) == {Key(s[i]) : i \in DOMAIN s}

(* OpenAPI lists a parameter once at a place, and has four kinds.          *)
Listed(s) ==
  /\ s \in Seq(ToSet(s))
  /\ \A i, j \in DOMAIN s : Key(s[i]) = Key(s[j]) => i = j
  /\ \A i \in DOMAIN s : s[i].in \in {"path", "query", "header", "cookie"}

(* Base names and numbers may meet, as get and 12 do with get1 and 2, but  *)
(* only if one base is the other with a number.                            *)
ASSUME ClientAssumption ==
  \A d \in Documents :
    /\ d.ops \in Seq(ToSet(d.ops))
    /\ \A i \in DOMAIN d.ops : Listed(d.ops[i].shared) /\ Listed(d.ops[i].own)
    /\ \A i, j, m, n \in DOMAIN d.ops :
         LET a == d.ops[i].name
             b == d.ops[j].name
         IN  NameOf(a, m) = NameOf(b, n)
             => \/ a = b /\ m = n
                \/ \E k \in DOMAIN d.ops : a = NameOf(b, k) \/ b = NameOf(a, k)

VARIABLES
  doc,
  unwritten,    \* schemas that writeDTOs has not come to
  classes,      \* dtoNames
  used,         \* usedNames: how often a base name has come up
  methods,      \* the methods written
  file          \* is there a client file: absent, old or new?

clientVars == <<doc, unwritten, classes, used, methods, file>>

-----------------------------------------------------------------------------
(* Types and parameters.                                                   *)

\* isObjectSchema: of type object, or without a type but with properties.
IsObject(s) == doc.shape[s] \in {"object", "untyped"}

\* geblangBase: a $ref becomes the name of a class, whatever it refers to.
Refers(s) == IF s = NoSchema THEN {} ELSE {s}

\* The loops that keep what they select: the elements of s that are in T.
Sift(s, T) ==
  LET kept[i \in 0 .. Len(s)] == IF i = 0 THEN <<>>
                                 ELSE IF s[i] \in T THEN Append(kept[i - 1], s[i])
                                 ELSE kept[i - 1]
  IN  kept[Len(s)]

\* Bug: an operation with parameters of its own loses those of its path.
MergeOwnOnly(shared, own) == IF own = <<>> THEN shared ELSE own

\* mergeParams: the operation's parameters, then what they do not replace.
Merge(shared, own) == own \o Sift(shared, {p \in ToSet(shared) : Key(p) \notin Keys(own)})

Merged(op) == Merge(op.shared, op.own)

\* buildPlan sorts them by kind; cookies are left out.
Of(op, kind) == Sift(Merged(op), {p \in ToSet(Merged(op)) : p.in = kind})

Argument(p) == [name |-> p.name, optional |-> p.in # "path" /\ ~p.required]

Body(op) ==
  IF op.body = "none" THEN <<>>
  ELSE <<[name |-> "body", optional |-> op.body = "optional"]>>

\* Geblang wants arguments with a default last.
Ordered(all) ==
  LET defaulted == {a \in ToSet(all) : a.optional}
  IN  Sift(all, ToSet(all) \ defaulted) \o Sift(all, defaulted)

\* buildParamList
Signature(op) ==
  LET written == Of(op, "path") \o Of(op, "query") \o Of(op, "header")
      args    == [i \in DOMAIN written |-> Argument(written[i])]
  IN  Ordered(args \o Body(op))

\* pathExpr: without path parameters the path is written as it is.
PathVariables(op) == IF Of(op, "path") = <<>> THEN {} ELSE op.vars

\* deriveReturnType: a preferred code, or any other of success in the order of a
\* Go map, which is random.
Return(op) ==
  LET found == Sift(Preferred, DOMAIN op.answers)
  IN  CASE found # <<>>           -> {op.answers[Head(found)]}
        [] DOMAIN op.answers # {} -> {op.answers[c] : c \in DOMAIN op.answers}
        [] OTHER                  -> {NoSchema}

-----------------------------------------------------------------------------
ClientInit ==
  /\ doc \in Documents
  /\ unwritten = {s \in Schemas : doc.shape[s] # "absent"}
  /\ classes = {} /\ used = <<>> /\ methods = <<>>
  /\ file \in {"absent", "old"}

\* writeDTOs: classes for objects only.
WriteDTO(s) ==
  /\ s \in unwritten
  /\ unwritten' = unwritten \ {s}
  /\ classes' = IF IsObject(s) THEN classes \cup {s} ELSE classes
  /\ UNCHANGED <<doc, used, methods, file>>

\* How often a base name came up before.
Count(base) == Cardinality({i \in DOMAIN used : used[i] = base})

\* Bug: the first name that comes up again is not numbered.
UniqueMethodNameLate(base) == IF Count(base) <= 1 THEN base ELSE NameOf(base, Count(base))

UniqueMethodName(base) == IF Count(base) = 0 THEN base ELSE NameOf(base, Count(base) + 1)

\* writeMethods, buildPlan and writeMethod for the next operation.
WriteMethod ==
  /\ unwritten = {} /\ Len(methods) < Len(doc.ops)
  /\ LET op == doc.ops[Len(methods) + 1]
     IN  /\ used' = Append(used, op.name)
         /\ \E returned \in Return(op) :
              methods' = Append(methods,
                [name      |-> UniqueMethodName(op.name),
                 signature |-> Signature(op),
                 path      |-> PathVariables(op),
                 types     |-> Refers(returned) \cup (IF op.body \in {"none", "raw"} THEN {}
                                                      ELSE Refers(op.use))
                               \cup UNION {Refers(p.schema) : p \in ToSet(Merged(op))}])
  /\ UNCHANGED <<doc, unwritten, classes, file>>

Complete == unwritten = {} /\ Len(methods) = Len(doc.ops)

\* runGenerateClient: a file that exists stays.
WriteFile ==
  /\ Complete /\ file = "absent"
  /\ file' = "new"
  /\ UNCHANGED <<doc, unwritten, classes, used, methods>>

ClientNext == (\E s \in Schemas : WriteDTO(s)) \/ WriteMethod \/ WriteFile

ClientSpec == ClientInit /\ [][ClientNext]_clientVars

-----------------------------------------------------------------------------
(* Properties.                                                             *)

\* No two methods of the client have one name, unless an operation is called
\* like another with a number.
DistinctMethods ==
  (\A i, j, n \in DOMAIN doc.ops : doc.ops[i].name # NameOf(doc.ops[j].name, n))
  => \A i, j \in DOMAIN methods : methods[i].name = methods[j].name => i = j

\* The parameter that holds for an operation: its own, or else that of its path.
Effective(op, k) ==
  LET from == IF k \in Keys(op.own) THEN op.own ELSE op.shared
  IN  CHOOSE p \in ToSet(from) : Key(p) = k

\* The signature of every method has each parameter of path, query and header
\* once, optional iff the definition that holds says so, none without a default
\* after one with a default, and all names the path is put together from.
SignatureFaithful ==
  \A i \in DOMAIN methods :
    LET op  == doc.ops[i]
        sig == methods[i].signature
        sent == {k \in Keys(op.shared) \cup Keys(op.own) : k[1] # "cookie"}
    IN  /\ Len(sig) = Cardinality(sent) + Len(Body(op))
        /\ \A k \in sent : Argument(Effective(op, k)) \in ToSet(sig)
        /\ \A m, n \in DOMAIN sig : m < n /\ sig[m].optional => sig[n].optional
        /\ op.vars \subseteq {k[2] : k \in {l \in sent : l[1] = "path"}}
           => methods[i].path \subseteq {sig[n].name : n \in DOMAIN sig}

\* "Only emit a class for object-shaped schemas; everything else flows through as
\* primitives / containers at the use site" (genclient.go:317-318): a finished
\* client refers to no class that it does not define, if every component that it
\* refers to is there.  It does not hold: a $ref to a component that is not an
\* object becomes the name of a class all the same.
NoDanglingClass ==
  LET named == UNION ({doc.fields[s] : s \in classes} \cup {methods[i].types : i \in DOMAIN methods})
  IN  Complete /\ (\A s \in named : doc.shape[s] # "absent") => named \subseteq classes
=============================================================================
