-------------------------------- MODULE Build --------------------------------
(***************************************************************************)
(* gebweb build and gebweb docker (main.go, runBuild; assets.go,           *)
(* swaggerui.go, docker.go) and the compilation gebweb dev starts with:    *)
(* processes that share the output directory of the assets, the directory  *)
(* of staged templates, the user's cache of swagger-ui and the generated   *)
(* Docker files, while the sources are edited and processes die.           *)
(*                                                                         *)
(* A file is known by the number of the change that made it; 0: there is   *)
(* none.                                                                   *)
(***************************************************************************)
EXTENDS Naturals

CONSTANTS
  Procs,
  Commands,     \* command lines: of build, of docker, and the start of dev
  Entries,      \* entry points that geblang.yaml may list
  Rank,         \* their order in it
  Output,       \* the name of the file each is compiled to
  Sass,         \* the ones in SASS
  Templates,    \* files of the templates directory
  Html,         \* the ones that are minified
  MaxChanges    \* bound on the edits of the sources

Options == [cmd : {"build", "docker", "dev"}, minify : BOOLEAN, noSass : BOOLEAN,
            swagger : BOOLEAN, docker : BOOLEAN, force : BOOLEAN]

ASSUME BuildAssumption ==
  /\ Commands \subseteq Options /\ Commands # {}
  /\ Rank \in [Entries -> Nat]
  /\ \A d, e \in Entries : Rank[d] = Rank[e] => d = e
  /\ DOMAIN Output = Entries
  /\ Sass \subseteq Entries /\ Html \subseteq Templates
  /\ MaxChanges \in Nat

Outputs      == {Output[e] : e \in Entries}
SwaggerFiles == {"swagger-ui.css", "swagger-ui-bundle.js"}
DockerFiles  == {"Dockerfile", "compose.yaml"}
Content      == [version : 0 .. MaxChanges + 1, minified : BOOLEAN]
NoFile       == [version |-> 0, minified |-> FALSE]

VARIABLES
  entry, template,  \* the sources
  changes,
  hasSass,      \* is dart-sass on the PATH?
  out,          \* compiled assets
  stage,        \* build/.gebweb/templates
  cache,        \* swagger-ui in the user's cache: absent or whole
  docker,       \* Dockerfile and compose.yaml: absent, torn or whole
  pc, opt,      \* of a process
  todo,         \* what is left of the step it is at
  alone,        \* has nothing else run or changed since it started?
  torn          \* has a process died while it wrote a Docker file?

sources == <<entry, template, changes, hasSass>>
disk    == <<out, stage, cache, docker>>
proc    == <<pc, opt, todo>>
vars    == <<sources, disk, proc, alone, torn>>

Idle == CHOOSE o \in Commands : TRUE
Present(files) == {f \in DOMAIN files : files[f] # 0}

\* The order of the files swaggerui.go and docker.go go through.
FileRank == [f \in SwaggerFiles \cup DockerFiles |->
               IF f \in {"swagger-ui.css", "Dockerfile"} THEN 1 ELSE 2]

Init ==
  /\ entry = [e \in Entries |-> 1] /\ template = [t \in Templates |-> 1]
  /\ changes = 0
  /\ hasSass \in BOOLEAN
  /\ out = [o \in Outputs |-> NoFile] /\ stage = [t \in Templates |-> NoFile]
  /\ cache = [f \in SwaggerFiles |-> "absent"]
  /\ docker = [f \in DockerFiles |-> "absent"]
  /\ pc = [p \in Procs |-> "off"] /\ opt = [p \in Procs |-> Idle]
  /\ todo = [p \in Procs |-> {}]
  /\ alone = [p \in Procs |-> FALSE]
  /\ torn = FALSE

-----------------------------------------------------------------------------
(* Steps of a process.                                                     *)

Goto(p, from, to, with) ==
  /\ pc[p] = from
  /\ pc'   = [pc EXCEPT ![p] = to]
  /\ todo' = [todo EXCEPT ![p] = with]
  /\ UNCHANGED opt

IsNext(p, f) == f \in todo[p] /\ \A g \in todo[p] : FileRank[f] <= FileRank[g]

\* One file of the step is through.
Done(p, at, f) == Goto(p, at, at, todo[p] \ {f})

Exit(p) ==
  /\ pc'   = [pc EXCEPT ![p] = "off"]
  /\ todo' = [todo EXCEPT ![p] = {}]
  /\ opt'  = [opt EXCEPT ![p] = Idle]
  /\ alone' = [alone EXCEPT ![p] = FALSE]

Active == {p \in Procs : pc[p] # "off"}

Change ==
  /\ changes < MaxChanges
  /\ changes' = changes + 1
  /\ \/ \E e \in Entries : \E v \in {0, changes + 2} :
          entry' = [entry EXCEPT ![e] = v] /\ UNCHANGED template
     \/ \E t \in Templates : \E v \in {0, changes + 2} :
          template' = [template EXCEPT ![t] = v] /\ UNCHANGED entry
  /\ alone' = [p \in Procs |-> FALSE]
  /\ UNCHANGED <<hasSass, disk, proc, torn>>

Run(p, o) ==
  /\ pc[p] = "off"
  /\ pc'   = [pc EXCEPT ![p] = IF o.cmd = "docker" THEN "docker" ELSE "compile"]
  /\ opt'  = [opt EXCEPT ![p] = o]
  /\ todo' = [todo EXCEPT ![p] = IF o.cmd = "docker" THEN DockerFiles
                                                     ELSE Present(entry)]
  /\ alone' = [q \in Procs |-> q = p /\ Active = {}]
  /\ UNCHANGED <<sources, disk, torn>>

\* No project, no disk space, a syntax error, no network, a failing geblang.
Fails(p) ==
  /\ pc[p] \in {"compile", "clear", "stage", "swagger", "download", "docker"}
  /\ Exit(p)
  /\ UNCHANGED <<sources, disk, torn>>

-----------------------------------------------------------------------------
(* assets.go                                                               *)

Made(v, minified) == [version |-> v, minified |-> minified]

Skipped(p, e) == e \in Sass /\ ~hasSass /\ opt[p].noSass

\* compileEntryPoints goes through the entries in the order of the list.
CompileEntry(p, e) ==
  /\ e \in todo[p] /\ entry[e] # 0
  /\ \A d \in todo[p] : Rank[e] <= Rank[d]
  /\ Skipped(p, e) \/ e \notin Sass \/ hasSass
  /\ Done(p, "compile", e)
  /\ out' = IF Skipped(p, e) THEN out
            ELSE [out EXCEPT ![Output[e]] = Made(entry[e], opt[p].minify)]
  /\ UNCHANGED <<sources, stage, cache, docker, alone, torn>>

\* dev goes on in the Supervisor module.
Compiled(p) ==
  /\ todo[p] = {}
  /\ IF opt[p].cmd = "dev"
     THEN pc[p] = "compile" /\ Exit(p)
     ELSE Goto(p, "compile", "clear", {}) /\ UNCHANGED alone
  /\ UNCHANGED <<sources, disk, torn>>

\* Bug: what an earlier build staged stays.
ClearedNot == stage

Cleared == [t \in Templates |-> NoFile]

\* stageTemplates starts with RemoveAll, and walks the directory of templates,
\* taken to exist.
ClearStage(p) ==
  /\ Goto(p, "clear", "stage", Present(template))
  /\ stage' = Cleared
  /\ UNCHANGED <<sources, out, cache, docker, alone, torn>>

StageTemplate(p, t) ==
  /\ t \in todo[p] /\ template[t] # 0
  /\ Done(p, "stage", t)
  /\ stage' = [stage EXCEPT ![t] = Made(template[t], opt[p].minify /\ t \in Html)]
  /\ UNCHANGED <<sources, out, cache, docker, alone, torn>>

Staged(p) ==
  /\ todo[p] = {}
  /\ Goto(p, "stage", "swagger", IF opt[p].swagger THEN SwaggerFiles ELSE {})
  /\ UNCHANGED <<sources, disk, alone, torn>>

-----------------------------------------------------------------------------
(* swaggerui.go                                                            *)

Cached(p, f) ==
  /\ IsNext(p, f) /\ cache[f] # "absent"
  /\ Done(p, "swagger", f)
  /\ UNCHANGED <<sources, disk, alone, torn>>

\* Bug: the body is copied straight to its place.
CopyingInPlace(f) == [cache EXCEPT ![f] = "partial"]

\* httpDownload copies to a temporary file, ...
Copying(f) == cache

Fetch(p, f) ==
  /\ IsNext(p, f) /\ cache[f] = "absent"
  /\ Goto(p, "swagger", "download", todo[p])
  /\ cache' = Copying(f)
  /\ UNCHANGED <<sources, out, stage, docker, alone, torn>>

\* ... and renames it when all has come.
Rename(p, f) ==
  /\ IsNext(p, f)
  /\ Goto(p, "download", "swagger", todo[p] \ {f})
  /\ cache' = [cache EXCEPT ![f] = "whole"]
  /\ UNCHANGED <<sources, out, stage, docker, alone, torn>>

-----------------------------------------------------------------------------
(* geblang build embeds what it finds in the directories it is given.      *)

Bundle(p) ==
  /\ todo[p] = {}
  /\ Goto(p, "swagger", "docker", IF opt[p].docker THEN DockerFiles ELSE {})
  /\ UNCHANGED <<sources, disk, alone, torn>>

-----------------------------------------------------------------------------
(* docker.go: writeGenerated for each file, by os.WriteFile.               *)

\* Bug: a file that is there ends the command.
LeftAfterKeepNone(p, f) == {}

LeftAfterKeep(p, f) == todo[p] \ {f}

Keep(p, f) ==
  /\ IsNext(p, f) /\ docker[f] # "absent" /\ ~opt[p].force
  /\ Goto(p, "docker", "docker", LeftAfterKeep(p, f))
  /\ UNCHANGED <<sources, disk, alone, torn>>

Truncate(p, f) ==
  /\ IsNext(p, f)
  /\ docker[f] = "absent" \/ opt[p].force
  /\ Goto(p, "docker", "write", todo[p])
  /\ docker' = [docker EXCEPT ![f] = "torn"]
  /\ UNCHANGED <<sources, out, stage, cache, alone, torn>>

Write(p, f) ==
  /\ IsNext(p, f)
  /\ Goto(p, "write", "docker", todo[p] \ {f})
  /\ docker' = [docker EXCEPT ![f] = "whole"]
  /\ UNCHANGED <<sources, out, stage, cache, alone, torn>>

Finish(p) ==
  /\ pc[p] = "docker" /\ todo[p] = {}
  /\ Exit(p)
  /\ UNCHANGED <<sources, disk, torn>>

-----------------------------------------------------------------------------
Crash(p) ==
  /\ pc[p] # "off"
  /\ torn' = (torn \/ pc[p] = "write")
  /\ Exit(p)
  /\ UNCHANGED <<sources, disk>>

Next ==
  \/ Change
  \/ \E p \in Procs :
       \/ \E o \in Commands : Run(p, o)
       \/ Fails(p)
       \/ \E e \in Entries : CompileEntry(p, e)
       \/ Compiled(p) \/ ClearStage(p) \/ Staged(p)
       \/ \E t \in Templates : StageTemplate(p, t)
       \/ \E f \in SwaggerFiles : Cached(p, f) \/ Fetch(p, f) \/ Rename(p, f)
       \/ Bundle(p)
       \/ \E f \in DockerFiles : Keep(p, f) \/ Truncate(p, f) \/ Write(p, f)
       \/ Finish(p) \/ Crash(p)

Spec == Init /\ [][Next]_vars
-----------------------------------------------------------------------------
(* Properties.                                                             *)

Parts == Entries \cup Templates \cup SwaggerFiles \cup DockerFiles

TypeOK ==
  /\ entry \in [Entries -> 0 .. MaxChanges + 1]
  /\ template \in [Templates -> 0 .. MaxChanges + 1]
  /\ changes \in 0 .. MaxChanges /\ hasSass \in BOOLEAN
  /\ out \in [Outputs -> Content] /\ stage \in [Templates -> Content]
  /\ cache \in [SwaggerFiles -> {"absent", "whole"}]
  /\ docker \in [DockerFiles -> {"absent", "torn", "whole"}]
  /\ pc \in [Procs -> {"off", "compile", "clear", "stage", "swagger", "download",
                       "docker", "write"}]
  /\ opt \in [Procs -> Commands]
  /\ todo \in [Procs -> SUBSET Parts]
  /\ alone \in [Procs -> BOOLEAN] /\ torn \in BOOLEAN

\* An entry whose output no other entry overwrites.
Sole(e) == \A d \in Present(entry) : Output[d] = Output[e] => d = e

\* What a build that had the project for itself embeds is what the sources say:
\* each template at its last change and none that was removed, each compiled
\* asset, minified as asked, whatever builds that failed, died or were
\* unminified left in the directories, and the start of dev with them.
BundleFaithful ==
  [][\A p \in Procs :
       Bundle(p) /\ alone[p]
       => /\ \A t \in Templates :
               stage[t] = IF template[t] = 0 THEN NoFile
                          ELSE Made(template[t], opt[p].minify /\ t \in Html)
          /\ \A e \in Present(entry) :
               Sole(e) /\ ~Skipped(p, e)
               => out[Output[e]] = Made(entry[e], opt[p].minify)]_vars

\* No binary holds a part of swagger-ui, although builds of several projects
\* fill one cache at once, lose the network and die.
SwaggerWhole ==
  [][\A p \in Procs :
       Bundle(p) /\ opt[p].swagger => \A f \in SwaggerFiles : cache[f] = "whole"]_vars

\* After a build or a docker command that ended well there are both Docker
\* files, also when an earlier one died between them, unless one died within a
\* write or is in it.
DockerComplete ==
  [][\A p \in Procs :
       /\ Finish(p) /\ opt[p].docker
       /\ ~torn /\ \A q \in Procs : pc[q] # "write"
       => \A f \in DockerFiles : docker[f] = "whole"]_vars
=============================================================================
