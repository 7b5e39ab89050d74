---------------------------- MODULE MCGenClient ----------------------------
(* Documents of two schemas and two operations, drawn from all shapes, names, *)
(* kinds of body and responses, and from parameters at both places.           *)
EXTENDS GenClient, TLC

CONSTANTS Pet, Kind

MCSchemas == {Pet, Kind}
MCPreferred == <<"200", "201", "202", "default">>
MCNameOf(base, n) == base \o ToString(n)

P(n, k, r, s) == [name |-> n, in |-> k, required |-> r, schema |-> s]

MCShared == {<<>>, <<P("id", "path", TRUE, NoSchema), P("page", "query", TRUE, Kind)>>}
MCOwn == {<<>>, <<P("page", "query", FALSE, NoSchema)>>,
          <<P("trace", "header", FALSE, NoSchema), P("sid", "cookie", TRUE, NoSchema)>>}
MCAnswers == {<<>>, [c \in {"200"} |-> Pet], [c \in {"203", "206"} |-> IF c = "203" THEN Pet ELSE Kind]}

MCOps == [name : {"get", "get2", "list"}, vars : {{"id"}}, shared : MCShared, own : MCOwn,
          body : {"none", "required", "optional", "raw"}, use : {Pet}, answers : MCAnswers]

Plain == [name |-> "get", vars |-> {}, shared |-> <<>>, own |-> <<>>, body |-> "none",
          use |-> NoSchema, answers |-> <<>>]

MCDocuments ==
  [shape : [MCSchemas -> {"object", "untyped", "scalar"}], fields : [MCSchemas -> {{}, {Kind}}],
   ops : {<<Plain, Plain, Plain>>} \cup {<<Plain, o>> : o \in MCOps}]
=============================================================================
