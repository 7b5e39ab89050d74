----------------------------- MODULE Build_proofs -----------------------------
(***************************************************************************)
(* Proofs about Build, for any number of processes, sources and changes,   *)
(* and about GenClient, for any document: what gebweb makes from sources.  *)
(***************************************************************************)
EXTENDS Build, GenClient, FiniteSetTheorems, WellFoundedInduction, TLAPS

\* The files of swagger-ui a process has been through are in the cache.
Fetched(p) ==
  pc[p] \in {"swagger", "download"} /\ opt[p].swagger
  => \A f \in SwaggerFiles : f \in todo[p] \/ cache[f] = "whole"

\* The Docker files it has been through exist.
Kept(p) ==
  pc[p] \in {"docker", "write"}
  => /\ todo[p] \subseteq DockerFiles
     /\ opt[p].docker => \A f \in DockerFiles : f \in todo[p] \/ docker[f] # "absent"

\* A torn file is being written, or a process died while it wrote one.
TornOK ==
  \A f \in DockerFiles :
    docker[f] = "torn" => torn \/ \E q \in Procs : pc[q] = "write" /\ IsNext(q, f)

AloneOK(p) == alone[p] => pc[p] # "off" /\ \A q \in Procs \ {p} : pc[q] = "off"

Expected(p, t) ==
  IF template[t] = 0 THEN NoFile ELSE Made(template[t], opt[p].minify /\ t \in Html)

\* What a process that is alone has compiled and staged.
MadeOK(p) ==
  alone[p]
  => /\ pc[p] \in {"compile", "clear", "stage", "swagger", "download"}
        => \A e \in Present(entry) :
             Sole(e) /\ ~Skipped(p, e) /\ (pc[p] = "compile" => e \notin todo[p])
             => out[Output[e]] = Made(entry[e], opt[p].minify)
     /\ pc[p] \in {"stage", "swagger", "download"}
        => \A t \in Templates :
             (pc[p] = "stage" => t \notin todo[p]) => stage[t] = Expected(p, t)

Own(p) == Fetched(p) /\ Kept(p) /\ AloneOK(p) /\ MadeOK(p)

Inv == TypeOK /\ TornOK /\ \A p \in Procs : Own(p)

-----------------------------------------------------------------------------
(* Types and the initial state.                                            *)

LEMMA IdleType == Idle \in Commands
BY BuildAssumption DEF Idle

LEMMA OptionType ==
  ASSUME TypeOK, NEW p \in Procs
  PROVE  opt[p].cmd \in {"build", "docker", "dev"} /\ opt[p].minify \in BOOLEAN
         /\ opt[p].swagger \in BOOLEAN /\ opt[p].docker \in BOOLEAN
         /\ opt[p].force \in BOOLEAN /\ opt[p].noSass \in BOOLEAN
<1>1. opt[p] \in Options BY BuildAssumption DEF TypeOK
<1> QED BY <1>1 DEF Options

LEMMA MadeType ==
  ASSUME NEW v \in 0 .. MaxChanges + 1, NEW b \in BOOLEAN
  PROVE  Made(v, b) \in Content
BY DEF Made, Content

LEMMA NoFileType == NoFile \in Content
BY BuildAssumption DEF NoFile, Content

LEMMA InitInv == ASSUME Init PROVE Inv
<1>1. TypeOK
  <2>1. 0 \in 0 .. MaxChanges /\ 0 \in 0 .. MaxChanges + 1 /\ 1 \in 0 .. MaxChanges + 1
    BY BuildAssumption
  <2>2. hasSass \in BOOLEAN /\ torn \in BOOLEAN BY DEF Init
  <2> QED BY <2>1, <2>2, IdleType, NoFileType DEF Init, TypeOK
<1>2. TornOK BY DEF Init, TornOK
<1>3. \A p \in Procs : Own(p) BY DEF Init, Own, Fetched, Kept, AloneOK, MadeOK
<1> QED BY <1>1, <1>2, <1>3 DEF Inv

LEMMA ExitType ==
  ASSUME TypeOK, NEW p \in Procs, Exit(p)
  PROVE  /\ pc' \in [Procs -> {"off", "compile", "clear", "stage", "swagger", "download",
                                "docker", "write"}]
         /\ opt' \in [Procs -> Commands] /\ todo' \in [Procs -> SUBSET Parts]
         /\ alone' \in [Procs -> BOOLEAN]
BY IdleType DEF TypeOK, Exit

LEMMA GotoType ==
  ASSUME TypeOK, NEW p \in Procs, NEW from,
         NEW to \in {"compile", "clear", "stage", "swagger", "download", "docker", "write"},
         NEW with \in SUBSET Parts, Goto(p, from, to, with)
  PROVE  /\ pc' \in [Procs -> {"off", "compile", "clear", "stage", "swagger", "download",
                                "docker", "write"}]
         /\ opt' \in [Procs -> Commands] /\ todo' \in [Procs -> SUBSET Parts]
BY DEF TypeOK, Goto

LEMMA TypeStep == ASSUME TypeOK, [Next]_vars PROVE TypeOK'
<1> USE DEF sources, disk, proc
<1>1. CASE Change
  <2>1. changes' \in 0 .. MaxChanges /\ changes + 2 \in 0 .. MaxChanges + 1
        /\ 0 \in 0 .. MaxChanges + 1
    BY <1>1, BuildAssumption DEF Change, TypeOK
  <2>2. entry' \in [Entries -> 0 .. MaxChanges + 1]
    BY <1>1, <2>1 DEF Change, TypeOK
  <2>3. template' \in [Templates -> 0 .. MaxChanges + 1]
    BY <1>1, <2>1 DEF Change, TypeOK
  <2> QED BY <1>1, <2>1, <2>2, <2>3 DEF Change, TypeOK
<1>2. ASSUME NEW p \in Procs, NEW o \in Commands, Run(p, o) PROVE TypeOK'
  <2>1. DockerFiles \in SUBSET Parts /\ Present(entry) \in SUBSET Parts
    BY DEF Parts, Present, TypeOK
  <2>2. alone' \in [Procs -> BOOLEAN] BY <1>2 DEF Run
  <2>3. todo' \in [Procs -> SUBSET Parts] BY <1>2, <2>1 DEF Run, TypeOK
  <2> QED BY <1>2, <2>2, <2>3 DEF Run, TypeOK
<1>3. ASSUME NEW p \in Procs, Fails(p) \/ Finish(p) PROVE TypeOK'
  <2>1. Exit(p) BY <1>3 DEF Fails, Finish
  <2> QED BY <1>3, <2>1, ExitType DEF Fails, Finish, TypeOK
<1>4. ASSUME NEW p \in Procs, Crash(p) PROVE TypeOK'
  <2>1. Exit(p) BY <1>4 DEF Crash
  <2>2. torn' \in BOOLEAN BY <1>4, Zenon DEF Crash
  <2> QED BY <1>4, <2>1, <2>2, ExitType DEF Crash, TypeOK
<1>5. ASSUME NEW p \in Procs, NEW e \in Entries, CompileEntry(p, e) PROVE TypeOK'
  <2>1. todo[p] \ {e} \in SUBSET Parts BY DEF TypeOK
  <2>2. Goto(p, "compile", "compile", todo[p] \ {e}) BY <1>5 DEF CompileEntry, Done
  <2>3. Made(entry[e], opt[p].minify) \in Content BY MadeType, OptionType DEF TypeOK
  <2>4. out' \in [Outputs -> Content] BY <1>5, <2>3 DEF CompileEntry, TypeOK
  <2>5. UNCHANGED <<entry, template, changes, hasSass, stage, cache, docker, alone, torn>>
    BY <1>5 DEF CompileEntry
  <2>6. /\ pc' \in [Procs -> {"off", "compile", "clear", "stage", "swagger", "download",
                              "docker", "write"}]
        /\ opt' \in [Procs -> Commands] /\ todo' \in [Procs -> SUBSET Parts]
    BY <2>1, <2>2, GotoType
  <2> QED BY <2>4, <2>5, <2>6 DEF TypeOK
<1>6. ASSUME NEW p \in Procs, Compiled(p) PROVE TypeOK'
  <2>1. CASE opt[p].cmd = "dev" BY <1>6, <2>1, ExitType DEF Compiled, TypeOK
  <2>2. CASE opt[p].cmd # "dev"
    <3>1. Goto(p, "compile", "clear", {}) BY <1>6, <2>2 DEF Compiled
    <3> QED BY <1>6, <2>2, <3>1, GotoType DEF Compiled, TypeOK
  <2> QED BY <2>1, <2>2
<1>7. ASSUME NEW p \in Procs, ClearStage(p) PROVE TypeOK'
  <2>1. Present(template) \in SUBSET Parts BY DEF Parts, Present, TypeOK
  <2>2. stage' \in [Templates -> Content] BY <1>7, NoFileType DEF ClearStage, Cleared
  <2> QED BY <1>7, <2>1, <2>2, GotoType DEF ClearStage, TypeOK
<1>8. ASSUME NEW p \in Procs, NEW t \in Templates, StageTemplate(p, t) PROVE TypeOK'
  <2>1. todo[p] \ {t} \in SUBSET Parts BY DEF TypeOK
  <2>2. Goto(p, "stage", "stage", todo[p] \ {t}) BY <1>8 DEF StageTemplate, Done
  <2>3. (opt[p].minify /\ t \in Html) \in BOOLEAN BY Zenon
  <2>4. Made(template[t], opt[p].minify /\ t \in Html) \in Content
    BY <2>3, MadeType DEF TypeOK
  <2>5. stage' \in [Templates -> Content] BY <1>8, <2>4 DEF StageTemplate, TypeOK
  <2>6. UNCHANGED <<entry, template, changes, hasSass, out, cache, docker, alone, torn>>
    BY <1>8 DEF StageTemplate
  <2>7. /\ pc' \in [Procs -> {"off", "compile", "clear", "stage", "swagger", "download",
                              "docker", "write"}]
        /\ opt' \in [Procs -> Commands] /\ todo' \in [Procs -> SUBSET Parts]
    BY <2>1, <2>2, GotoType
  <2> QED BY <2>5, <2>6, <2>7 DEF TypeOK
<1>9. ASSUME NEW p \in Procs, Staged(p) \/ Bundle(p) PROVE TypeOK'
  <2>1. SwaggerFiles \in SUBSET Parts /\ DockerFiles \in SUBSET Parts BY DEF Parts
  <2>2. PICK to \in {"swagger", "docker"}, with \in SUBSET Parts :
          Goto(p, IF to = "swagger" THEN "stage" ELSE "swagger", to, with)
    BY <1>9, <2>1 DEF Staged, Bundle
  <2>3. UNCHANGED <<sources, disk, alone, torn>> BY <1>9 DEF Staged, Bundle
  <2>4. /\ pc' \in [Procs -> {"off", "compile", "clear", "stage", "swagger", "download",
                              "docker", "write"}]
        /\ opt' \in [Procs -> Commands] /\ todo' \in [Procs -> SUBSET Parts]
    BY <2>2, GotoType
  <2> QED BY <2>3, <2>4 DEF TypeOK
<1>10. ASSUME NEW p \in Procs, NEW f \in SwaggerFiles, Cached(p, f) \/ Fetch(p, f) \/ Rename(p, f)
       PROVE  TypeOK'
  <2>1. todo[p] \in SUBSET Parts /\ todo[p] \ {f} \in SUBSET Parts BY DEF TypeOK
  <2>2. cache' \in [SwaggerFiles -> {"absent", "whole"}]
    BY <1>10 DEF Cached, Fetch, Rename, Copying, TypeOK
  <2>3. \/ Goto(p, "swagger", "swagger", todo[p] \ {f})
        \/ Goto(p, "swagger", "download", todo[p])
        \/ Goto(p, "download", "swagger", todo[p] \ {f})
    BY <1>10 DEF Cached, Done, Fetch, Rename
  <2>4. UNCHANGED <<entry, template, changes, hasSass, out, stage, docker, alone, torn>>
    BY <1>10 DEF Cached, Fetch, Rename
  <2>5. /\ pc' \in [Procs -> {"off", "compile", "clear", "stage", "swagger", "download",
                              "docker", "write"}]
        /\ opt' \in [Procs -> Commands] /\ todo' \in [Procs -> SUBSET Parts]
    BY <2>1, <2>3, GotoType
  <2> QED BY <2>2, <2>4, <2>5 DEF TypeOK
<1>11. ASSUME NEW p \in Procs, NEW f \in DockerFiles, Keep(p, f) \/ Truncate(p, f) \/ Write(p, f)
       PROVE  TypeOK'
  <2>1. todo[p] \in SUBSET Parts /\ todo[p] \ {f} \in SUBSET Parts BY DEF TypeOK
  <2>2. docker' \in [DockerFiles -> {"absent", "torn", "whole"}]
    BY <1>11 DEF Keep, Truncate, Write, TypeOK
  <2>3. \/ Goto(p, "docker", "docker", todo[p] \ {f})
        \/ Goto(p, "docker", "write", todo[p])
        \/ Goto(p, "write", "docker", todo[p] \ {f})
    BY <1>11 DEF Keep, LeftAfterKeep, Truncate, Write
  <2>4. UNCHANGED <<entry, template, changes, hasSass, out, stage, cache, alone, torn>>
    BY <1>11 DEF Keep, Truncate, Write
  <2>5. /\ pc' \in [Procs -> {"off", "compile", "clear", "stage", "swagger", "download",
                              "docker", "write"}]
        /\ opt' \in [Procs -> Commands] /\ todo' \in [Procs -> SUBSET Parts]
    BY <2>1, <2>3, GotoType
  <2> QED BY <2>2, <2>4, <2>5 DEF TypeOK
<1>12. CASE UNCHANGED vars BY <1>12 DEF TypeOK, vars
<1> QED BY <1>1, <1>2, <1>3, <1>4, <1>5, <1>6, <1>7, <1>8, <1>9, <1>10, <1>11, <1>12
        DEF Next

-----------------------------------------------------------------------------
(* A step of the process p.                                                *)

Step(p) ==
  /\ pc[p] # "off"
  /\ UNCHANGED sources
  /\ \A q \in Procs \ {p} : /\ pc'[q] = pc[q] /\ opt'[q] = opt[q] /\ todo'[q] = todo[q]
                            /\ alone'[q] => alone[q]
  /\ \A f \in SwaggerFiles : cache[f] = "whole" => cache'[f] = "whole"
  /\ \A f \in DockerFiles : docker[f] # "absent" => docker'[f] # "absent"

LEMMA OthersInv ==
  ASSUME Inv, NEW p \in Procs, Step(p) PROVE \A q \in Procs \ {p} : Own(q)'
<1> SUFFICES ASSUME NEW q \in Procs \ {p} PROVE Own(q)'
  OBVIOUS
<1>1. Own(q) BY DEF Inv
<1>2. ~alone'[q] BY <1>1 DEF Own, AloneOK, Step
<1>3. Fetched(q)' BY <1>1 DEF Own, Fetched, Step
<1>4. Kept(q)' BY <1>1 DEF Own, Kept, Step
<1> QED BY <1>2, <1>3, <1>4 DEF Own, AloneOK, MadeOK

\* What is left to show of it; most steps leave the Docker files alone.
LEMMA StepInv ==
  ASSUME Inv, TypeOK', NEW p \in Procs, Step(p), Own(p)', TornOK' PROVE Inv'
BY OthersInv DEF Inv

LEMMA TornKept ==
  ASSUME Inv, NEW p \in Procs, Step(p), docker' = docker, torn => torn',
         pc[p] # "write" \/ torn'
  PROVE  TornOK'
BY DEF Inv, TornOK, Step, IsNext

LEMMA ExitInv ==
  ASSUME Inv, TypeOK', NEW p \in Procs, Exit(p), pc[p] # "off", UNCHANGED <<sources, disk>>,
         torn => torn', pc[p] # "write" \/ torn'
  PROVE  Inv'
<1>0. TypeOK BY DEF Inv
<1>1. pc'[p] = "off" /\ alone'[p] = FALSE BY <1>0 DEF Exit, TypeOK
<1>2. Step(p) BY <1>0 DEF Step, Exit, TypeOK, disk
<1>3. Own(p)' BY <1>1 DEF Own, Fetched, Kept, AloneOK, MadeOK
<1> QED BY <1>2, <1>3, TornKept, StepInv DEF disk

LEMMA GotoStep ==
  ASSUME TypeOK, NEW p \in Procs, NEW from, NEW to, NEW with,
         Goto(p, from, to, with), from # "off", UNCHANGED <<sources, alone>>,
         \A f \in SwaggerFiles : cache[f] = "whole" => cache'[f] = "whole",
         \A f \in DockerFiles : docker[f] # "absent" => docker'[f] # "absent"
  PROVE  /\ Step(p)
         /\ pc[p] = from /\ pc'[p] = to /\ todo'[p] = with /\ opt' = opt
BY DEF TypeOK, Goto, Step

\* A step that stays alone if it was.
LEMMA AloneKept ==
  ASSUME Inv, NEW p \in Procs, Step(p), alone'[p] => alone[p], pc'[p] # "off"
  PROVE  AloneOK(p)'
BY DEF Inv, Own, AloneOK, Step

LEMMA SameSole ==
  ASSUME UNCHANGED sources
  PROVE  /\ Present(entry)' = Present(entry) /\ Present(template)' = Present(template)
         /\ \A e : Sole(e)' = Sole(e)
<1>1. Present(entry)' = Present(entry) /\ Present(template)' = Present(template)
  BY DEF sources, Present
<1> QED BY <1>1 DEF Sole

LEMMA ChangeInv == ASSUME Inv, TypeOK', Change PROVE Inv'
<1>1. \A p \in Procs : ~alone'[p] BY DEF Change
<1>2. UNCHANGED <<disk, proc, torn>> BY DEF Change
<1>3. TornOK' BY <1>2 DEF Inv, TornOK, disk, proc, IsNext
<1>4. \A p \in Procs : Own(p)'
  BY <1>1, <1>2 DEF Inv, Own, Fetched, Kept, AloneOK, MadeOK, disk, proc
<1> QED BY <1>3, <1>4 DEF Inv

LEMMA RunInv ==
  ASSUME Inv, TypeOK', NEW p \in Procs, NEW o \in Commands, Run(p, o) PROVE Inv'
<1>0. TypeOK BY DEF Inv
<1>1. /\ pc[p] = "off" /\ UNCHANGED <<sources, disk, torn>>
      /\ pc'[p] = IF o.cmd = "docker" THEN "docker" ELSE "compile"
      /\ todo'[p] = IF o.cmd = "docker" THEN DockerFiles ELSE Present(entry)
      /\ \A q \in Procs \ {p} : pc'[q] = pc[q] /\ opt'[q] = opt[q] /\ todo'[q] = todo[q]
      /\ alone' = [q \in Procs |-> q = p /\ Active = {}]
  BY <1>0 DEF Run, TypeOK
<1>2. TornOK' BY <1>1 DEF Inv, TornOK, IsNext, disk
<1>3. ASSUME NEW q \in Procs \ {p} PROVE Own(q)'
  <2>1. Own(q) /\ ~alone'[q] BY <1>1 DEF Inv
  <2> QED BY <2>1, <1>1 DEF Own, Fetched, Kept, AloneOK, MadeOK, disk
<1>4. alone'[p] => \A q \in Procs : pc[q] = "off" BY <1>1 DEF Active
<1>5. AloneOK(p)' BY <1>1, <1>4 DEF AloneOK
<1>6. Fetched(p)' /\ Kept(p)' BY <1>1 DEF Fetched, Kept
<1>7. MadeOK(p)' BY <1>1, SameSole DEF MadeOK
<1> QED BY <1>2, <1>3, <1>5, <1>6, <1>7 DEF Inv, Own

-----------------------------------------------------------------------------
(* The steps of a build.                                                   *)

LEMMA CompileInv ==
  ASSUME Inv, TypeOK', NEW p \in Procs, NEW e \in Entries, CompileEntry(p, e) PROVE Inv'
<1>0. TypeOK BY DEF Inv
<1>1. UNCHANGED <<sources, stage, cache, docker, alone, torn>> BY DEF CompileEntry
<1>2. Goto(p, "compile", "compile", todo[p] \ {e}) BY DEF CompileEntry, Done
<1>3. /\ Step(p) /\ pc[p] = "compile" /\ pc'[p] = "compile" /\ todo'[p] = todo[p] \ {e}
      /\ opt' = opt
  BY <1>0, <1>1, <1>2, GotoStep
<1>4. Own(p) BY DEF Inv
<1>5. MadeOK(p)'
  <2>1. SUFFICES ASSUME alone[p], NEW d \in Present(entry), Sole(d), ~Skipped(p, d),
                        d \notin todo[p] \ {e}
                 PROVE  out'[Output[d]] = Made(entry[d], opt[p].minify)
    BY <1>1, <1>3, SameSole DEF MadeOK, Skipped, sources
  <2>2. d \in Entries /\ Output[d] \in Outputs /\ e \in Present(entry)
    BY <1>0 DEF Present, TypeOK, Outputs, CompileEntry
  <2>3. CASE d = e
    <3>1. out' = [out EXCEPT ![Output[e]] = Made(entry[e], opt[p].minify)]
      BY <2>1, <2>3 DEF CompileEntry
    <3> QED BY <3>1, <2>2, <2>3, <1>0 DEF TypeOK
  <2>4. CASE d # e
    <3>1. out[Output[d]] = Made(entry[d], opt[p].minify)
      BY <2>1, <2>4, <1>3, <1>4 DEF Own, MadeOK
    <3>2. Output[e] # Output[d] BY <2>1, <2>2, <2>4 DEF Sole
    <3>3. out' = out \/ out' = [out EXCEPT ![Output[e]] = Made(entry[e], opt[p].minify)]
      BY DEF CompileEntry
    <3> QED BY <3>1, <3>2, <3>3, <2>2, <1>0 DEF TypeOK
  <2> QED BY <2>3, <2>4
<1>6. AloneOK(p)' BY <1>1, <1>3, AloneKept
<1>7. Fetched(p)' /\ Kept(p)' BY <1>3 DEF Fetched, Kept
<1> QED BY <1>1, <1>3, <1>5, <1>6, <1>7, TornKept, StepInv DEF Own

LEMMA CompiledInv == ASSUME Inv, TypeOK', NEW p \in Procs, Compiled(p) PROVE Inv'
<1>0. TypeOK /\ Own(p) BY DEF Inv
<1>1. UNCHANGED <<sources, disk, torn>> BY DEF Compiled
<1>2. CASE opt[p].cmd = "dev" BY <1>1, <1>2, ExitInv DEF Compiled
<1>3. CASE opt[p].cmd # "dev"
  <2>1. Goto(p, "compile", "clear", {}) /\ UNCHANGED alone /\ todo[p] = {}
    BY <1>3 DEF Compiled
  <2>2. /\ Step(p) /\ pc[p] = "compile" /\ pc'[p] = "clear" /\ todo'[p] = {} /\ opt' = opt
    BY <1>0, <1>1, <2>1, GotoStep DEF disk
  <2>3. MadeOK(p)'
    BY <1>0, <1>1, <2>1, <2>2, SameSole DEF Own, MadeOK, Skipped, sources, disk
  <2>4. AloneOK(p)' BY <2>1, <2>2, AloneKept
  <2>5. Fetched(p)' /\ Kept(p)' BY <2>2 DEF Fetched, Kept
  <2> QED BY <1>1, <2>2, <2>3, <2>4, <2>5, TornKept, StepInv DEF Own, disk
<1> QED BY <1>2, <1>3

LEMMA StageInv ==
  ASSUME Inv, TypeOK', NEW p \in Procs,
         ClearStage(p) \/ \E t \in Templates : StageTemplate(p, t)
  PROVE  Inv'
<1>0. TypeOK /\ Own(p) BY DEF Inv
<1>1. UNCHANGED <<sources, out, cache, docker, alone, torn>> BY DEF ClearStage, StageTemplate
<1>2. /\ Step(p) /\ pc[p] \in {"clear", "stage"} /\ pc'[p] = "stage" /\ opt' = opt
  <2>1. CASE ClearStage(p)
    <3>1. Goto(p, "clear", "stage", Present(template)) BY <2>1 DEF ClearStage
    <3> QED BY <1>0, <1>1, <3>1, GotoStep
  <2>2. ASSUME NEW t \in Templates, StageTemplate(p, t) 
        PROVE  Step(p) /\ pc[p] \in {"clear", "stage"} /\ pc'[p] = "stage" /\ opt' = opt
    <3>1. Goto(p, "stage", "stage", todo[p] \ {t}) BY <2>2 DEF StageTemplate, Done
    <3> QED BY <1>0, <1>1, <3>1, GotoStep
  <2> QED BY <2>1, <2>2
<1>3. ASSUME NEW t \in Templates PROVE Expected(p, t)' = Expected(p, t)
  BY <1>1, <1>2 DEF Expected, sources
<1>4. ASSUME alone[p], NEW t \in Templates, t \notin todo'[p]
      PROVE  stage'[t] = Expected(p, t)
  <2>1. CASE ClearStage(p)
    <3>1. todo'[p] = Present(template) BY <1>0, <2>1 DEF ClearStage, Goto, TypeOK
    <3>2. template[t] = 0 BY <3>1, <1>0, <1>4 DEF Present, TypeOK
    <3>3. stage'[t] = NoFile BY <2>1, <1>4 DEF ClearStage, Cleared
    <3> QED BY <3>2, <3>3 DEF Expected
  <2>2. ASSUME NEW s \in Templates, StageTemplate(p, s) PROVE stage'[t] = Expected(p, t)
    <3>1. todo'[p] = todo[p] \ {s} /\ pc[p] = "stage" /\ template[s] # 0
      BY <1>0, <2>2 DEF StageTemplate, Done, Goto, TypeOK
    <3>2. stage' = [stage EXCEPT ![s] = Made(template[s], opt[p].minify /\ s \in Html)]
      BY <2>2 DEF StageTemplate
    <3>3. CASE t = s BY <3>1, <3>2, <3>3, <1>0 DEF Expected, TypeOK
    <3>4. CASE t # s
      <4>1. stage[t] = Expected(p, t) BY <3>1, <3>4, <1>0, <1>4 DEF Own, MadeOK
      <4> QED BY <4>1, <3>2, <3>4, <1>0 DEF TypeOK
    <3> QED BY <3>3, <3>4
  <2> QED BY <2>1, <2>2
<1>5. MadeOK(p)'
  BY <1>0, <1>1, <1>2, <1>3, <1>4, SameSole DEF Own, MadeOK, Skipped, sources
<1>6. AloneOK(p)' BY <1>1, <1>2, AloneKept
<1>7. Fetched(p)' /\ Kept(p)' BY <1>2 DEF Fetched, Kept
<1> QED BY <1>1, <1>2, <1>5, <1>6, <1>7, TornKept, StepInv DEF Own

LEMMA StagedInv == ASSUME Inv, TypeOK', NEW p \in Procs, Staged(p) PROVE Inv'
<1>0. TypeOK /\ Own(p) BY DEF Inv
<1>1. UNCHANGED <<sources, disk, alone, torn>> /\ todo[p] = {} BY DEF Staged
<1>2. /\ Step(p) /\ pc[p] = "stage" /\ pc'[p] = "swagger" /\ opt' = opt
      /\ todo'[p] = IF opt[p].swagger THEN SwaggerFiles ELSE {}
  BY <1>0, <1>1, GotoStep DEF Staged, disk
<1>3. MadeOK(p)'
  BY <1>0, <1>1, <1>2, SameSole DEF Own, MadeOK, Expected, Skipped, sources, disk
<1>4. AloneOK(p)' BY <1>1, <1>2, AloneKept
<1>5. Fetched(p)' /\ Kept(p)' BY <1>2 DEF Fetched, Kept
<1> QED BY <1>1, <1>2, <1>3, <1>4, <1>5, TornKept, StepInv DEF Own, disk

LEMMA SwaggerInv ==
  ASSUME Inv, TypeOK', NEW p \in Procs, NEW f \in SwaggerFiles,
         Cached(p, f) \/ Fetch(p, f) \/ Rename(p, f)
  PROVE  Inv'
<1>0. TypeOK /\ Own(p) BY DEF Inv
<1>1. UNCHANGED <<sources, out, stage, docker, alone, torn>>
  BY DEF Cached, Fetch, Rename, disk
<1>2. \A g \in SwaggerFiles : cache[g] \in {"absent", "whole"} BY <1>0 DEF TypeOK
<1>3. \A g \in SwaggerFiles : cache[g] = "whole" => cache'[g] = "whole"
  BY <1>0 DEF Cached, Fetch, Copying, Rename, disk, TypeOK
<1>4. \/ Goto(p, "swagger", "swagger", todo[p] \ {f}) /\ cache'[f] = "whole"
      \/ Goto(p, "swagger", "download", todo[p])
      \/ Goto(p, "download", "swagger", todo[p] \ {f}) /\ cache'[f] = "whole"
  BY <1>0, <1>2 DEF Cached, Done, Fetch, Rename, disk, TypeOK
<1>5. /\ Step(p) /\ pc[p] \in {"swagger", "download"} /\ pc'[p] \in {"swagger", "download"}
      /\ opt' = opt
      /\ todo'[p] = todo[p] \/ (todo'[p] = todo[p] \ {f} /\ cache'[f] = "whole")
  <2> USE <1>0, <1>1, <1>3, GotoStep
  <2>1. CASE Goto(p, "swagger", "swagger", todo[p] \ {f}) /\ cache'[f] = "whole" BY <2>1
  <2>2. CASE Goto(p, "swagger", "download", todo[p]) BY <2>2
  <2>3. CASE Goto(p, "download", "swagger", todo[p] \ {f}) /\ cache'[f] = "whole" BY <2>3
  <2> QED BY <1>4, <2>1, <2>2, <2>3
<1>6. MadeOK(p)'
  BY <1>0, <1>1, <1>5, SameSole DEF Own, MadeOK, Expected, Skipped, sources
<1>7. AloneOK(p)' BY <1>1, <1>5, AloneKept
<1>8. Fetched(p)' BY <1>0, <1>3, <1>5 DEF Own, Fetched
<1>9. Kept(p)' BY <1>5 DEF Kept
<1> QED BY <1>1, <1>5, <1>6, <1>7, <1>8, <1>9, TornKept, StepInv DEF Own

LEMMA BundleInv == ASSUME Inv, TypeOK', NEW p \in Procs, Bundle(p) PROVE Inv'
<1>0. TypeOK /\ Own(p) BY DEF Inv
<1>1. UNCHANGED <<sources, disk, alone, torn>> BY DEF Bundle
<1>2. /\ Step(p) /\ pc[p] = "swagger" /\ pc'[p] = "docker" /\ opt' = opt
      /\ todo'[p] = IF opt[p].docker THEN DockerFiles ELSE {}
  BY <1>0, <1>1, GotoStep DEF Bundle, disk
<1>3. MadeOK(p)' /\ Fetched(p)' BY <1>2 DEF MadeOK, Fetched
<1>4. AloneOK(p)' BY <1>1, <1>2, AloneKept
<1>5. Kept(p)' BY <1>2 DEF Kept
<1> QED BY <1>1, <1>2, <1>3, <1>4, <1>5, TornKept, StepInv DEF Own, disk

\* Only one file is next.
LEMMA NextIsOne ==
  ASSUME NEW p \in Procs, todo[p] \subseteq DockerFiles, NEW f \in DockerFiles,
         NEW g \in DockerFiles, IsNext(p, f), IsNext(p, g)
  PROVE  f = g
<1>1. FileRank["Dockerfile"] = 1 /\ FileRank["compose.yaml"] = 2
  BY DEF FileRank, DockerFiles, SwaggerFiles
<1>2. FileRank[f] <= FileRank[g] /\ FileRank[g] <= FileRank[f] BY DEF IsNext
<1> QED BY <1>1, <1>2 DEF DockerFiles

LEMMA DockerInv ==
  ASSUME Inv, TypeOK', NEW p \in Procs, NEW f \in DockerFiles,
         Keep(p, f) \/ Truncate(p, f) \/ Write(p, f)
  PROVE  Inv'
<1>0. TypeOK /\ Own(p) /\ TornOK BY DEF Inv
<1>1. UNCHANGED <<sources, out, stage, cache, alone, torn>>
  BY DEF Keep, Truncate, Write, disk
<1>2. \A g \in DockerFiles : docker[g] # "absent" => docker'[g] # "absent"
  BY <1>0 DEF Keep, Truncate, Write, disk, TypeOK
<1>3. \/ Goto(p, "docker", "docker", todo[p] \ {f}) /\ Keep(p, f)
      \/ Goto(p, "docker", "write", todo[p]) /\ Truncate(p, f)
      \/ Goto(p, "write", "docker", todo[p] \ {f}) /\ Write(p, f)
  BY DEF Keep, LeftAfterKeep, Truncate, Write
<1>4. /\ Step(p) /\ pc[p] \in {"docker", "write"} /\ pc'[p] \in {"docker", "write"}
      /\ opt' = opt
      /\ todo'[p] = todo[p] \/ todo'[p] = todo[p] \ {f}
  BY <1>0, <1>1, <1>2, <1>3, GotoStep
<1>5. docker'[f] # "absent" BY <1>0 DEF Keep, Truncate, Write, disk, TypeOK
<1>6. Kept(p)' BY <1>0, <1>2, <1>4, <1>5 DEF Own, Kept
<1>7. MadeOK(p)' /\ Fetched(p)' BY <1>4 DEF MadeOK, Fetched
<1>8. AloneOK(p)' BY <1>1, <1>4, AloneKept
<1>9. TornOK'
  <2>1. ASSUME NEW q \in Procs \ {p}, NEW g \in DockerFiles
        PROVE  pc'[q] = pc[q] /\ IsNext(q, g)' = IsNext(q, g)
    BY <1>4 DEF Step, IsNext
  <2>2. CASE Keep(p, f) /\ pc[p] = "docker"
    <3>1. docker' = docker BY <2>2 DEF Keep, disk
    <3> QED BY <3>1, <2>1, <2>2, <1>0, <1>1 DEF TornOK
  <2>3. CASE Truncate(p, f) /\ pc[p] = "docker"
    <3>1. docker' = [docker EXCEPT ![f] = "torn"] BY <2>3 DEF Truncate
    <3>2. pc'[p] = "write" /\ IsNext(p, f)'
      BY <2>3, <1>0 DEF Truncate, Goto, TypeOK, IsNext
    <3> QED BY <3>1, <3>2, <2>1, <2>3, <1>0, <1>1 DEF TornOK, TypeOK
  <2>4. CASE Write(p, f) /\ pc[p] = "write"
    <3>1. docker' = [docker EXCEPT ![f] = "whole"] /\ IsNext(p, f) BY <2>4 DEF Write
    <3>2. \A g \in DockerFiles \ {f} : ~IsNext(p, g)
      BY <3>1, <2>4, <1>0, NextIsOne DEF Own, Kept
    <3> QED BY <3>1, <3>2, <2>1, <1>0, <1>1 DEF TornOK, TypeOK
  <2> QED BY <2>2, <2>3, <2>4, <1>3 DEF Goto
<1> QED BY <1>4, <1>6, <1>7, <1>8, <1>9, StepInv DEF Own

-----------------------------------------------------------------------------
(* Every step, and the theorems.                                           *)

LEMMA InvStep == ASSUME Inv, [Next]_vars PROVE Inv'
<1>0. TypeOK' BY TypeStep DEF Inv
<1>1. CASE Change BY <1>0, <1>1, ChangeInv
<1>2. ASSUME NEW p \in Procs, NEW o \in Commands, Run(p, o) PROVE Inv'
  BY <1>0, <1>2, RunInv
<1>3. ASSUME NEW p \in Procs, Fails(p) \/ Finish(p) \/ Crash(p) PROVE Inv'
  <2>1. Exit(p) /\ pc[p] # "off" /\ UNCHANGED <<sources, disk>>
    BY <1>3 DEF Fails, Finish, Crash
  <2>2. (torn => torn') /\ (pc[p] # "write" \/ torn')
    <3>1. CASE Fails(p) \/ Finish(p) BY <3>1 DEF Fails, Finish
    <3>2. CASE Crash(p) BY <3>2, Zenon DEF Crash
    <3> QED BY <1>3, <3>1, <3>2
  <2> QED BY <1>0, <2>1, <2>2, ExitInv
<1>4. ASSUME NEW p \in Procs, Compiled(p) \/ Staged(p) \/ Bundle(p) PROVE Inv'
  BY <1>0, <1>4, CompiledInv, StagedInv, BundleInv
<1>5. ASSUME NEW p \in Procs, NEW e \in Entries, CompileEntry(p, e) PROVE Inv'
  BY <1>0, <1>5, CompileInv
<1>6. ASSUME NEW p \in Procs, ClearStage(p) \/ \E t \in Templates : StageTemplate(p, t)
      PROVE  Inv'
  BY <1>0, <1>6, StageInv
<1>7. ASSUME NEW p \in Procs, NEW f \in SwaggerFiles,
             Cached(p, f) \/ Fetch(p, f) \/ Rename(p, f)
      PROVE  Inv'
  BY <1>0, <1>7, SwaggerInv
<1>8. ASSUME NEW p \in Procs, NEW f \in DockerFiles,
             Keep(p, f) \/ Truncate(p, f) \/ Write(p, f)
      PROVE  Inv'
  BY <1>0, <1>8, DockerInv
<1>9. CASE UNCHANGED vars
  <2>1. UNCHANGED <<sources, disk, proc, alone, torn>> BY <1>9 DEF vars
  <2>2. TornOK' BY <2>1 DEF Inv, TornOK, IsNext, disk, proc
  <2>3. ASSUME NEW p \in Procs PROVE Own(p)'
    <3>1. Own(p) BY DEF Inv
    <3>2. MadeOK(p)'
      BY <3>1, <2>1, SameSole DEF Own, MadeOK, Expected, Skipped, sources, disk, proc
    <3> QED BY <3>1, <3>2, <2>1 DEF Own, Fetched, Kept, AloneOK, disk, proc
  <2> QED BY <1>0, <2>2, <2>3 DEF Inv
<1> QED BY <1>1, <1>2, <1>3, <1>4, <1>5, <1>6, <1>7, <1>8, <1>9 DEF Next

LEMMA Invariance == Spec => []Inv
BY InitInv, InvStep, PTL DEF Spec

\* The types of the state; a file in the cache of swagger-ui is absent or whole.
THEOREM TypeCorrect == Spec => []TypeOK
BY Invariance, PTL DEF Inv

\* A build that is alone embeds what the sources say, for any sources and options.
THEOREM EmbedsTheSources == Spec => BundleFaithful
<1> DEFINE Claim(p) ==
      Bundle(p) /\ alone[p]
      => /\ \A t \in Templates :
              stage[t] = IF template[t] = 0 THEN NoFile
                         ELSE Made(template[t], opt[p].minify /\ t \in Html)
         /\ \A e \in Present(entry) :
              Sole(e) /\ ~Skipped(p, e)
              => out[Output[e]] = Made(entry[e], opt[p].minify)
<1>1. ASSUME Inv, NEW p \in Procs PROVE Claim(p)
  <2>1. Bundle(p) => pc[p] = "swagger" BY DEF Bundle, Goto
  <2> QED BY <1>1, <2>1 DEF Inv, Own, MadeOK, Expected
<1>2. ASSUME Inv, [Next]_vars PROVE \A p \in Procs : Claim(p) BY <1>1, <1>2
<1> QED BY <1>2, Invariance, PTL DEF BundleFaithful, Spec

\* No build embeds a part of a file of swagger-ui, however many run at once.
THEOREM EmbedsWholeFiles == Spec => SwaggerWhole
<1>1. ASSUME Inv, NEW p \in Procs, Bundle(p), opt[p].swagger, NEW f \in SwaggerFiles
      PROVE  cache[f] = "whole"
  <2>1. pc[p] = "swagger" /\ todo[p] = {} BY <1>1 DEF Bundle, Goto
  <2> QED BY <1>1, <2>1 DEF Inv, Own, Fetched
<1>2. ASSUME Inv, [Next]_vars
      PROVE  \A p \in Procs :
               Bundle(p) /\ opt[p].swagger => \A f \in SwaggerFiles : cache[f] = "whole"
  BY <1>1, <1>2
<1> QED BY <1>2, Invariance, PTL DEF SwaggerWhole, Spec

\* A command that ends well leaves both Docker files, unless a write was cut off.
THEOREM BothDockerFiles == Spec => DockerComplete
<1>1. ASSUME Inv, NEW p \in Procs, Finish(p), opt[p].docker, ~torn,
             \A q \in Procs : pc[q] # "write", NEW f \in DockerFiles
      PROVE  docker[f] = "whole"
  <2>1. docker[f] # "absent" BY <1>1 DEF Inv, Own, Kept, Finish
  <2>2. docker[f] # "torn" BY <1>1 DEF Inv, TornOK
  <2> QED BY <1>1, <2>1, <2>2 DEF Inv, TypeOK
<1>2. ASSUME Inv, [Next]_vars
      PROVE  \A p \in Procs :
               /\ Finish(p) /\ opt[p].docker
               /\ ~torn /\ \A q \in Procs : pc[q] # "write"
               => \A f \in DockerFiles : docker[f] = "whole"
  BY <1>1, <1>2
<1> QED BY <1>2, Invariance, PTL DEF DockerComplete, Spec

-----------------------------------------------------------------------------
(* Induction over the turns of a loop, without an operator as a parameter: *)
(* the natural numbers are well-founded, so what fails fails first         *)
(* somewhere.  With it, what the loop of Sift selects.                     *)

LEMMA Least ==
  ASSUME NEW T \in SUBSET Nat, T # {}
  PROVE  \E x \in T : \A y \in T : x <= y
<1> DEFINE R == OpToRel(<, Nat)
<1>1. \A x, y \in Nat : x < y => <<x, y>> \in R
  BY DEF OpToRel
<1>2. IsWellFoundedOn(R, Nat)
  BY NatLessThanWellFounded
<1> HIDE DEF R
<1>3. PICK x \in T : \A y \in T : ~(<<y, x>> \in R)
  BY <1>2, WFMin
<1>4. \A y \in T : ~(y < x)
  BY <1>1, <1>3
<1>5. \A y \in T : x <= y
  <2> TAKE y \in T
  <2>1. y \in Nat /\ x \in Nat /\ ~(y < x)
    BY <1>4
  <2> QED BY <2>1
<1> QED BY <1>5

\* What holds for 0 and passes from each number below n to the next.
LEMMA Induction ==
  ASSUME NEW n \in Nat, NEW T, 0 \in T, \A i \in 0 .. n - 1 : i \in T => i + 1 \in T
  PROVE  \A i \in 0 .. n : i \in T
<1> SUFFICES ASSUME {i \in 0 .. n : i \notin T} # {} PROVE FALSE
  OBVIOUS
<1>1. PICK x \in 0 .. n : x \notin T /\ \A y \in 0 .. n : y \notin T => x <= y
  <2> DEFINE W == {i \in 0 .. n : i \notin T}
  <2>1. W \in SUBSET Nat /\ W # {}
    OBVIOUS
  <2>2. PICK x \in W : \A y \in W : x <= y
    <3> HIDE DEF W
    <3> QED BY <2>1, Least
  <2> QED BY <2>2
<1>2. x # 0 /\ x - 1 \in 0 .. n /\ x - 1 \in T
  BY <1>1
<1> QED BY <1>1, <1>2

Turn(s, T, k, i) ==
  IF i = 0 THEN <<>> ELSE IF s[i] \in T THEN Append(k[i - 1], s[i]) ELSE k[i - 1]

\* k is the loop of Sift up to its n-th turn.
Loop(s, T, k, n) == k = [i \in 0 .. n |-> Turn(s, T, k, i)]

LEMMA LoopExists ==
  ASSUME NEW s, Len(s) \in Nat, NEW T
  PROVE  \E k : Loop(s, T, k, Len(s))
<1> DEFINE Runs == {n \in Nat : \E k : Loop(s, T, k, n)}
<1>1. 0 \in Runs
  <2> DEFINE k == [i \in 0 .. 0 |-> <<>>]
  <2>1. k = [i \in 0 .. 0 |-> Turn(s, T, k, i)]
    BY DEF Turn
  <2> QED BY <2>1 DEF Loop
<1>2. ASSUME NEW n \in 0 .. Len(s) - 1, n \in Runs PROVE n + 1 \in Runs
  <2>1. PICK k : Loop(s, T, k, n)
    BY <1>2
  <2> DEFINE m == [i \in 0 .. n + 1 |-> IF i = n + 1 THEN Turn(s, T, k, i) ELSE k[i]]
  <2>2. ASSUME NEW i \in 0 .. n + 1 PROVE m[i] = Turn(s, T, m, i)
    <3>1. CASE i = n + 1
      BY <3>1 DEF Turn
    <3>2. CASE i # n + 1
      <4>1. i \in 0 .. n BY <3>2
      <4>2. m[i] = Turn(s, T, k, i) BY <2>1, <4>1, <3>2 DEF Loop
      <4>3. i # 0 => i - 1 \in 0 .. n /\ m[i - 1] = k[i - 1] BY <4>1
      <4> HIDE DEF m
      <4> QED BY <4>2, <4>3 DEF Turn
    <3> QED BY <3>1, <3>2
  <2>3. Loop(s, T, m, n + 1)
    BY <2>2 DEF Loop
  <2> QED BY <2>3
<1> HIDE DEF Runs
<1>3. Len(s) \in Runs
  <2>1. Len(s) \in 0 .. Len(s) OBVIOUS
  <2> QED BY <1>1, <1>2, <2>1, Induction
<1> QED BY <1>3 DEF Runs

\* Sift is what the loop has at its end.
LEMMA SiftLoop ==
  ASSUME NEW s, Len(s) \in Nat, NEW T
  PROVE  \E k : Loop(s, T, k, Len(s)) /\ Sift(s, T) = k[Len(s)]
<1> DEFINE k == CHOOSE k : k = [i \in 0 .. Len(s) |-> Turn(s, T, k, i)]
<1>1. Loop(s, T, k, Len(s))
  BY LoopExists DEF Loop
<1>2. Sift(s, T) = k[Len(s)]
  BY DEF Sift, Turn
<1> QED BY <1>1, <1>2

\* q has each of the first n elements of s that are in T from one place, g.
Picks(s, T, n, q, g) ==
  /\ g \in [1 .. Len(q) -> 1 .. n]
  /\ \A a, b \in 1 .. Len(q) : g[a] = g[b] => a = b
  /\ \A a \in 1 .. Len(q) : q[a] = s[g[a]] /\ q[a] \in T
  /\ \A i \in 1 .. n : s[i] \in T => \E a \in 1 .. Len(q) : g[a] = i

LEMMA SiftPicks ==
  ASSUME NEW S, NEW s \in Seq(S), NEW T
  PROVE  /\ Sift(s, T) \in Seq(S)
         /\ \E g : Picks(s, T, Len(s), Sift(s, T), g)
<1>1. PICK k : Loop(s, T, k, Len(s)) /\ Sift(s, T) = k[Len(s)]
  BY SiftLoop
<1> DEFINE Fine == {n \in 0 .. Len(s) : k[n] \in Seq(S) /\ \E g : Picks(s, T, n, k[n], g)}
<1>2. 0 \in Fine
  <2>1. k[0] = <<>> BY <1>1 DEF Loop, Turn
  <2>2. Len(k[0]) = 0 BY <2>1
  <2>3. Picks(s, T, 0, k[0], [a \in 1 .. 0 |-> 0]) BY <2>2 DEF Picks
  <2>4. k[0] \in Seq(S) /\ 0 \in 0 .. Len(s) BY <2>1
  <2> QED BY <2>3, <2>4
<1>3. ASSUME NEW n \in 0 .. Len(s) - 1, n \in Fine PROVE n + 1 \in Fine
  <2> DEFINE i == n + 1
  <2>1. PICK g : Picks(s, T, n, k[n], g) BY <1>3
  <2>2. k[n] \in Seq(S) /\ s[i] \in S /\ i \in 1 .. Len(s) BY <1>3
  <2>3. k[i] = IF s[i] \in T THEN Append(k[n], s[i]) ELSE k[n]
    <3>1. i \in 0 .. Len(s) /\ i # 0 /\ i - 1 = n OBVIOUS
    <3> QED BY <1>1, <3>1 DEF Loop, Turn
  <2>4. CASE s[i] \in T
    <3> DEFINE q == Append(k[n], s[i])
               h == [a \in 1 .. Len(q) |-> IF a = Len(q) THEN i ELSE g[a]]
    <3>1. q \in Seq(S) /\ Len(q) = Len(k[n]) + 1 /\ q[Len(q)] = s[i]
          /\ \A a \in 1 .. Len(k[n]) : q[a] = k[n][a]
      BY <2>2
    <3>2. Len(k[n]) \in Nat BY <2>2
    <3> HIDE DEF q
    <3>3. /\ h \in [1 .. Len(q) -> 1 .. i] /\ h[Len(q)] = i
          /\ \A a \in 1 .. Len(k[n]) : h[a] = g[a] /\ g[a] \in 1 .. n
      <4>1. g \in [1 .. Len(k[n]) -> 1 .. n] BY <2>1 DEF Picks
      <4>2. \A a \in 1 .. Len(q) : a = Len(q) \/ a \in 1 .. Len(k[n]) BY <3>1, <3>2
      <4>3. \A a \in 1 .. Len(k[n]) : a # Len(q) /\ a \in 1 .. Len(q) BY <3>1, <3>2
      <4>4. Len(q) \in 1 .. Len(q) BY <3>1, <3>2
      <4>5. i \in 1 .. i /\ \A j \in 1 .. n : j \in 1 .. i OBVIOUS
      <4> HIDE DEF i
      <4> QED BY <4>1, <4>2, <4>3, <4>4, <4>5
    <3>4. \A a \in 1 .. Len(q) : a = Len(q) \/ a \in 1 .. Len(k[n])
      BY <3>1, <3>2
    <3>5. Len(q) \in 1 .. Len(q) /\ \A a \in 1 .. Len(k[n]) : a \in 1 .. Len(q)
      BY <3>1, <3>2
    <3> HIDE DEF h
    <3>6. \A a, b \in 1 .. Len(q) : h[a] = h[b] => a = b
      <4>1. \A a, b \in 1 .. Len(k[n]) : g[a] = g[b] => a = b BY <2>1 DEF Picks
      <4>2. \A j \in 1 .. n : j # i OBVIOUS
      <4> HIDE DEF i
      <4>3. \A a \in 1 .. Len(k[n]) : h[a] # h[Len(q)] BY <3>3, <4>2
      <4>4. \A a, b \in 1 .. Len(k[n]) : h[a] = h[b] => a = b BY <3>3, <4>1
      <4> QED BY <3>4, <4>3, <4>4
    <3>7. \A a \in 1 .. Len(q) : q[a] = s[h[a]] /\ q[a] \in T
      BY <2>1, <2>4, <3>1, <3>3, <3>4 DEF Picks
    <3>8. \A j \in 1 .. i : s[j] \in T => \E a \in 1 .. Len(q) : h[a] = j
      <4>1. \A j \in 1 .. i : j = i \/ j \in 1 .. n OBVIOUS
      <4> QED BY <2>1, <3>3, <3>5, <4>1 DEF Picks
    <3>9. Picks(s, T, i, q, h) BY <3>3, <3>6, <3>7, <3>8 DEF Picks
    <3>10. k[i] = q BY <2>3, <2>4 DEF q
    <3>11. i \in 0 .. Len(s) OBVIOUS
    <3> HIDE DEF i
    <3>12. i \in Fine BY <3>1, <3>9, <3>10, <3>11
    <3> QED BY <3>12 DEF i
  <2>5. CASE s[i] \notin T
    <3>1. Picks(s, T, i, k[n], g)
      <4>1. \A j \in 1 .. i : j = i \/ j \in 1 .. n OBVIOUS
      <4>2. 1 .. n \subseteq 1 .. i OBVIOUS
      <4> HIDE DEF i
      <4> QED BY <2>1, <2>5, <4>1, <4>2 DEF Picks
    <3> QED BY <2>2, <2>3, <2>5, <3>1
  <2> QED BY <2>4, <2>5
<1>4. Len(s) \in Fine
  <2> HIDE DEF Fine
  <2>1. Len(s) \in Nat /\ Len(s) \in 0 .. Len(s) OBVIOUS
  <2> QED BY <1>2, <1>3, <2>1, Induction
<1> QED BY <1>1, <1>4

Distinct(s) == \A i, j \in DOMAIN s : Key(s[i]) = Key(s[j]) => i = j

LEMMA Counted ==
  ASSUME NEW n \in Nat, NEW T, NEW g \in [1 .. n -> T],
         \A a, b \in 1 .. n : g[a] = g[b] => a = b,
         \A t \in T : \E a \in 1 .. n : g[a] = t
  PROVE  Cardinality(T) = n
<1>1. g \in Injection(1 .. n, T) BY DEF Injection, IsInjective
<1>2. g \in Surjection(1 .. n, T) BY DEF Surjection
<1>3. ExistsBijection(1 .. n, T) BY <1>1, <1>2 DEF ExistsBijection, Bijection
<1> QED BY <1>3, FS_CountingElements

\* What Sift keeps is what is in T, and of the same order of magnitude.
LEMMA Sifted ==
  ASSUME NEW S, NEW s \in Seq(S), NEW T
  PROVE  /\ Sift(s, T) \in Seq(S)
         /\ ToSet(Sift(s, T)) = ToSet(s) \cap T
         /\ Distinct(s) => Distinct(Sift(s, T))
         /\ Cardinality({i \in DOMAIN s : s[i] \in T}) = Len(Sift(s, T))
<1> DEFINE q == Sift(s, T)
           I == {i \in DOMAIN s : s[i] \in T}
<1>1. q \in Seq(S) BY SiftPicks
<1>2. PICK g : Picks(s, T, Len(s), q, g) BY SiftPicks
<1>3. DOMAIN q = 1 .. Len(q) /\ DOMAIN s = 1 .. Len(s) /\ Len(q) \in Nat BY <1>1
<1> HIDE DEF q
<1>4. ToSet(q) = ToSet(s) \cap T
  <2>1. \A x : x \in ToSet(q) <=> \E a \in 1 .. Len(q) : x = q[a] BY <1>3 DEF ToSet
  <2>2. \A x : x \in ToSet(s) <=> \E i \in 1 .. Len(s) : x = s[i] BY <1>3 DEF ToSet
  <2>3. ASSUME NEW x \in ToSet(q) PROVE x \in ToSet(s) \cap T
    <3>1. PICK a \in 1 .. Len(q) : x = q[a] BY <2>1, <2>3
    <3>2. x = s[g[a]] /\ x \in T /\ g[a] \in 1 .. Len(s) BY <1>2, <3>1 DEF Picks
    <3> QED BY <2>2, <3>2
  <2>4. ASSUME NEW x \in ToSet(s), x \in T PROVE x \in ToSet(q)
    <3>1. PICK i \in 1 .. Len(s) : x = s[i] BY <2>2, <2>4
    <3>2. PICK a \in 1 .. Len(q) : g[a] = i BY <1>2, <2>4, <3>1 DEF Picks
    <3>3. q[a] = x BY <1>2, <3>1, <3>2 DEF Picks
    <3> QED BY <2>1, <3>3
  <2> QED BY <2>3, <2>4
<1>5. Distinct(s) => Distinct(q)
  BY <1>2, <1>3 DEF Picks, Distinct
<1>6. Cardinality(I) = Len(q)
  <2>1. g \in [1 .. Len(q) -> I] BY <1>2, <1>3 DEF Picks
  <2>2. \A a, b \in 1 .. Len(q) : g[a] = g[b] => a = b BY <1>2 DEF Picks
  <2>3. \A i \in I : \E a \in 1 .. Len(q) : g[a] = i BY <1>2, <1>3 DEF Picks
  <2> HIDE DEF I
  <2> QED BY <1>3, <2>1, <2>2, <2>3, Counted
<1> QED BY <1>1, <1>4, <1>5, <1>6 DEF q

LEMMA Joined ==
  ASSUME NEW S, NEW s \in Seq(S), NEW t \in Seq(S)
  PROVE  /\ s \o t \in Seq(S)
         /\ ToSet(s \o t) = ToSet(s) \cup ToSet(t)
         /\ Distinct(s) /\ Distinct(t) /\ Keys(s) \cap Keys(t) = {} => Distinct(s \o t)
<1> DEFINE q == s \o t
<1>1. /\ q \in Seq(S) /\ Len(q) = Len(s) + Len(t)
      /\ \A i \in 1 .. Len(s) : q[i] = s[i]
      /\ \A i \in 1 .. Len(t) : q[Len(s) + i] = t[i]
  OBVIOUS
<1>2. /\ DOMAIN q = 1 .. Len(q) /\ DOMAIN s = 1 .. Len(s) /\ DOMAIN t = 1 .. Len(t)
      /\ Len(s) \in Nat /\ Len(t) \in Nat
  BY <1>1
<1> HIDE DEF q
<1>3. \A i \in DOMAIN q :
        \/ i \in DOMAIN s /\ q[i] = s[i]
        \/ \E j \in DOMAIN t : i = Len(s) + j /\ q[i] = t[j]
  <2> TAKE i \in DOMAIN q
  <2>1. CASE i <= Len(s)
    <3>1. i \in 1 .. Len(s) BY <1>1, <1>2, <2>1
    <3> QED BY <1>1, <1>2, <3>1
  <2>2. CASE ~(i <= Len(s))
    <3>1. i - Len(s) \in 1 .. Len(t) /\ i = Len(s) + (i - Len(s)) BY <1>1, <1>2, <2>2
    <3> QED BY <1>1, <1>2, <3>1
  <2> QED BY <2>1, <2>2
<1>4. /\ \A i \in DOMAIN s : i \in DOMAIN q /\ q[i] = s[i]
      /\ \A j \in DOMAIN t : Len(s) + j \in DOMAIN q /\ q[Len(s) + j] = t[j]
  BY <1>1, <1>2
<1>5. ToSet(q) = ToSet(s) \cup ToSet(t)
  BY <1>3, <1>4 DEF ToSet
<1>6. ASSUME Distinct(s), Distinct(t), Keys(s) \cap Keys(t) = {} PROVE Distinct(q)
  <2>1. \A i \in DOMAIN s, j \in DOMAIN t : Key(s[i]) # Key(t[j]) BY <1>6 DEF Keys
  <2> SUFFICES ASSUME NEW i \in DOMAIN q, NEW j \in DOMAIN q, Key(q[i]) = Key(q[j])
               PROVE  i = j
    BY DEF Distinct
  <2>2. CASE i \in DOMAIN s /\ q[i] = s[i]
    <3>1. j \in DOMAIN s /\ q[j] = s[j] BY <1>3, <2>1, <2>2
    <3> QED BY <1>6, <2>2, <3>1 DEF Distinct
  <2>3. CASE \E a \in DOMAIN t : i = Len(s) + a /\ q[i] = t[a]
    <3>1. PICK a \in DOMAIN t : i = Len(s) + a /\ q[i] = t[a] BY <2>3
    <3>2. PICK b \in DOMAIN t : j = Len(s) + b /\ q[j] = t[b] BY <1>3, <2>1, <3>1
    <3>3. a = b BY <1>6, <3>1, <3>2 DEF Distinct
    <3> QED BY <3>1, <3>2, <3>3
  <2> QED BY <1>3, <2>2, <2>3
<1> QED BY <1>1, <1>5, <1>6 DEF q

\* A sequence without a double is as long as its keys are many.
LEMMA KeyCount ==
  ASSUME NEW S, NEW s \in Seq(S), Distinct(s)
  PROVE  Cardinality(Keys(s)) = Len(s)
<1> DEFINE g == [i \in 1 .. Len(s) |-> Key(s[i])]
<1>1. DOMAIN s = 1 .. Len(s) /\ Len(s) \in Nat OBVIOUS
<1>2. g \in [1 .. Len(s) -> Keys(s)] BY <1>1 DEF Keys
<1>3. \A a, b \in 1 .. Len(s) : g[a] = g[b] => a = b BY <1>1 DEF Distinct
<1>4. \A k \in Keys(s) : \E a \in 1 .. Len(s) : g[a] = k BY <1>1 DEF Keys
<1> HIDE DEF g
<1> QED BY <1>1, <1>2, <1>3, <1>4, Counted

LEMMA KeysToSet == \A s : Keys(s) = {Key(p) : p \in ToSet(s)}
BY DEF Keys, ToSet

\* Ordered has what it is given, the optional ones at the end.
LEMMA OrderedArguments ==
  ASSUME NEW S, NEW all \in Seq(S)
  PROVE  LET sig == Ordered(all)
         IN  /\ Len(sig) = Len(all)
             /\ ToSet(sig) = ToSet(all)
             /\ DOMAIN sig = 1 .. Len(sig)
             /\ \A m, n \in DOMAIN sig : m < n /\ sig[m].optional => sig[n].optional
<1> DEFINE yes == {a \in ToSet(all) : a.optional}
           no  == ToSet(all) \ yes
           s   == Sift(all, no)
           t   == Sift(all, yes)
           I   == {i \in DOMAIN all : all[i] \in no}
           J   == {i \in DOMAIN all : all[i] \in yes}
<1>0. Ordered(all) = s \o t BY DEF Ordered
<1>1. /\ s \in Seq(S) /\ ToSet(s) = ToSet(all) \cap no /\ Cardinality(I) = Len(s)
      /\ t \in Seq(S) /\ ToSet(t) = ToSet(all) \cap yes /\ Cardinality(J) = Len(t)
  <2> HIDE DEF yes, no
  <2> QED BY Sifted
<1>2. I \cup J = DOMAIN all /\ I \cap J = {}
  BY DEF ToSet
<1>3. yes \cup no = ToSet(all) /\ yes \subseteq ToSet(all) /\ no \subseteq ToSet(all)
      /\ (\A a \in yes : a.optional) /\ (\A a \in no : ~a.optional)
  OBVIOUS
<1>4. DOMAIN all = 1 .. Len(all) /\ Len(all) \in Nat OBVIOUS
<1> HIDE DEF yes, no, s, t, I, J
<1>5. Len(s) + Len(t) = Len(all)
  <2>1. IsFiniteSet(1 .. Len(all)) /\ Cardinality(1 .. Len(all)) = Len(all)
    BY <1>4, FS_Interval, SMTT(30)
  <2>2. IsFiniteSet(I) /\ IsFiniteSet(J) BY <1>2, <1>4, <2>1, FS_Subset
  <2>3. Cardinality(I \cup J) = Cardinality(I) + Cardinality(J)
    <3>1. Cardinality(I \cup J) = Cardinality(I) + Cardinality(J) - Cardinality(I \cap J)
      BY <2>2, FS_Union
    <3>2. Cardinality(I \cap J) = 0 BY <1>2, FS_EmptySet
    <3> QED BY <1>1, <3>1, <3>2
  <2> QED BY <1>1, <1>2, <1>4, <2>1, <2>3
<1> DEFINE q == s \o t
<1>6. /\ q \in Seq(S) /\ Len(q) = Len(s) + Len(t)
      /\ \A i \in 1 .. Len(s) : q[i] = s[i]
      /\ \A i \in 1 .. Len(q) : ~(i <= Len(s)) => q[i] = t[i - Len(s)] /\ i - Len(s) \in 1 .. Len(t)
  BY <1>1
<1>7. ToSet(q) = ToSet(all)
  <2>1. ToSet(q) = ToSet(s) \cup ToSet(t) BY <1>1, Joined
  <2> QED BY <1>1, <1>3, <2>1
<1>8. DOMAIN q = 1 .. Len(q) /\ Len(s) \in Nat /\ Len(t) \in Nat
      /\ DOMAIN s = 1 .. Len(s) /\ DOMAIN t = 1 .. Len(t)
  BY <1>1, <1>6
<1> HIDE DEF q
<1>9. ASSUME NEW m \in DOMAIN q, NEW n \in DOMAIN q, m < n, q[m].optional
      PROVE  q[n].optional
  <2>1. ~(m <= Len(s))
    <3> SUFFICES ASSUME m <= Len(s) PROVE FALSE OBVIOUS
    <3>1. m \in 1 .. Len(s) BY <1>8
    <3>2. q[m] \in no BY <1>1, <1>6, <1>8, <3>1 DEF ToSet
    <3> QED BY <1>3, <1>9, <3>2
  <2>2. ~(n <= Len(s)) BY <1>8, <1>9, <2>1
  <2>3. q[n] \in yes BY <1>1, <1>6, <1>8, <2>2 DEF ToSet
  <2> QED BY <1>3, <2>3
<1> QED BY <1>0, <1>5, <1>6, <1>7, <1>8, <1>9 DEF q

\* An operation whose parameters are listed as OpenAPI has it.
Sent(op) == {k \in Keys(op.shared) \cup Keys(op.own) : k[1] # "cookie"}

LEMMA MergedParameters ==
  ASSUME NEW op, Listed(op.shared), Listed(op.own)
  PROVE  LET M == Merged(op)
             P == ToSet(op.shared) \cup ToSet(op.own)
         IN  /\ M \in Seq(P) /\ Distinct(M)
             /\ \A p \in ToSet(M) : Key(p) \in Keys(op.shared) \cup Keys(op.own)
             /\ \A p \in ToSet(M) : p.in \in {"path", "query", "header", "cookie"}
             /\ \A k \in Keys(op.shared) \cup Keys(op.own) :
                  Key(Effective(op, k)) = k /\ Effective(op, k) \in ToSet(M)
<1> DEFINE M == Merged(op)
           P == ToSet(op.shared) \cup ToSet(op.own)
           T == {p \in ToSet(op.shared) : Key(p) \notin Keys(op.own)}
           t == Sift(op.shared, T)
<1>1. op.shared \in Seq(P) /\ op.own \in Seq(P) /\ Distinct(op.shared) /\ Distinct(op.own)
  <2>1. op.shared \in Seq(ToSet(op.shared)) /\ op.own \in Seq(ToSet(op.own)) BY DEF Listed
  <2>2. ToSet(op.shared) \subseteq P /\ ToSet(op.own) \subseteq P OBVIOUS
  <2> HIDE DEF P
  <2> QED BY <2>1, <2>2 DEF Listed, Distinct
<1>2. M = op.own \o t BY DEF Merged, Merge
<1> HIDE DEF P
<1>3. t \in Seq(P) /\ ToSet(t) = ToSet(op.shared) \cap T /\ Distinct(t)
  <2> HIDE DEF T
  <2> QED BY <1>1, Sifted
<1>4. Keys(op.own) \cap Keys(t) = {}
  BY <1>3, KeysToSet
<1>5. ToSet(t) = T BY <1>3
<1> HIDE DEF t, M
<1>6. M \in Seq(P) /\ Distinct(M) /\ ToSet(M) = ToSet(op.own) \cup T
  BY <1>1, <1>2, <1>3, <1>4, <1>5, Joined
<1>7. \A p \in ToSet(M) : Key(p) \in Keys(op.shared) \cup Keys(op.own)
  BY <1>6, KeysToSet
<1>8. \A p \in ToSet(M) : p.in \in {"path", "query", "header", "cookie"}
  <2>1. ToSet(M) \subseteq ToSet(op.own) \cup ToSet(op.shared) BY <1>6
  <2>2. \A p \in ToSet(op.own) : p.in \in {"path", "query", "header", "cookie"}
    BY DEF ToSet, Listed
  <2>3. \A p \in ToSet(op.shared) : p.in \in {"path", "query", "header", "cookie"}
    BY DEF ToSet, Listed
  <2> QED BY <2>1, <2>2, <2>3
<1>9. ASSUME NEW k \in Keys(op.shared) \cup Keys(op.own)
      PROVE  Key(Effective(op, k)) = k /\ Effective(op, k) \in ToSet(M)
  <2>1. CASE k \in Keys(op.own)
    <3>1. \E p \in ToSet(op.own) : Key(p) = k BY <2>1, KeysToSet
    <3>2. Effective(op, k) = CHOOSE p \in ToSet(op.own) : Key(p) = k BY <2>1 DEF Effective
    <3>3. Effective(op, k) \in ToSet(op.own) /\ Key(Effective(op, k)) = k BY <3>1, <3>2
    <3> QED BY <1>6, <3>3
  <2>2. CASE k \notin Keys(op.own)
    <3>1. \E p \in ToSet(op.shared) : Key(p) = k BY <2>2, <1>9, KeysToSet
    <3>2. Effective(op, k) = CHOOSE p \in ToSet(op.shared) : Key(p) = k BY <2>2 DEF Effective
    <3>3. Effective(op, k) \in ToSet(op.shared) /\ Key(Effective(op, k)) = k BY <3>1, <3>2
    <3> QED BY <1>6, <2>2, <3>3
  <2> QED BY <2>1, <2>2
<1> QED BY <1>6, <1>7, <1>8, <1>9 DEF M, P

\* The arguments of a method, before the optional ones are put at the end.
Written(op) == Of(op, "path") \o Of(op, "query") \o Of(op, "header")

LEMMA WrittenParameters ==
  ASSUME NEW op, Listed(op.shared), Listed(op.own)
  PROVE  /\ Written(op) \in Seq(ToSet(op.shared) \cup ToSet(op.own))
         /\ Distinct(Written(op)) /\ Keys(Written(op)) = Sent(op)
         /\ \A k \in Sent(op) : Effective(op, k) \in ToSet(Written(op))
<1> DEFINE M == Merged(op)
           P == ToSet(op.shared) \cup ToSet(op.own)
           F(kind) == {p \in ToSet(M) : p.in = kind}
           a == Of(op, "path")
           b == Of(op, "query")
           c == Of(op, "header")
<1>1. M \in Seq(P) /\ Distinct(M) BY MergedParameters
<1>2. ASSUME NEW kind PROVE /\ Of(op, kind) \in Seq(P) /\ Distinct(Of(op, kind))
                            /\ ToSet(Of(op, kind)) = F(kind)
  <2> DEFINE T == F(kind)
  <2>1. Of(op, kind) = Sift(M, T) BY DEF Of
  <2>2. ToSet(M) \cap T = T OBVIOUS
  <2> HIDE DEF M, P, T
  <2>3. LET q == Sift(M, T) IN q \in Seq(P) /\ Distinct(q) /\ ToSet(q) = ToSet(M) \cap T
    BY <1>1, Sifted
  <2>4. T = F(kind) BY DEF T
  <2> QED BY <2>1, <2>2, <2>3, <2>4
<1>3. \A kind : Keys(Of(op, kind)) = {Key(p) : p \in F(kind)}
  BY <1>2, KeysToSet
<1>4. \A k, l : k # l => Keys(Of(op, k)) \cap Keys(Of(op, l)) = {}
  BY <1>3 DEF Key
<1> DEFINE ab == a \o b
<1> HIDE DEF M, P, F
<1>5. a \in Seq(P) /\ b \in Seq(P) /\ c \in Seq(P) /\ Distinct(a) /\ Distinct(b) /\ Distinct(c)
      /\ ToSet(a) = F("path") /\ ToSet(b) = F("query") /\ ToSet(c) = F("header")
      /\ Keys(a) \cap Keys(b) = {} /\ Keys(a) \cap Keys(c) = {} /\ Keys(b) \cap Keys(c) = {}
  BY <1>2, <1>4
<1> HIDE DEF a, b, c
<1>6. ab \in Seq(P) /\ ToSet(ab) = F("path") \cup F("query") /\ Distinct(ab)
  BY <1>5, Joined
<1>7. Keys(ab) = Keys(a) \cup Keys(b)
  BY <1>5, <1>6, KeysToSet
<1> HIDE DEF ab
<1>8. LET w == ab \o c IN
      w \in Seq(P) /\ ToSet(w) = F("path") \cup F("query") \cup F("header") /\ Distinct(w)
  BY <1>5, <1>6, <1>7, Joined
<1>9. Written(op) = ab \o c BY DEF Written, ab, a, b, c
<1>10. F("path") \cup F("query") \cup F("header") = {p \in ToSet(M) : p.in # "cookie"}
  BY MergedParameters DEF F, M
<1>11. ToSet(Written(op)) = {p \in ToSet(M) : p.in # "cookie"} BY <1>8, <1>9, <1>10
<1>12. \A k \in Sent(op) : Effective(op, k) \in ToSet(Written(op)) /\ Key(Effective(op, k)) = k
  <2> TAKE k \in Sent(op)
  <2>1. Key(Effective(op, k)) = k /\ Effective(op, k) \in ToSet(M) /\ k[1] # "cookie"
    BY MergedParameters DEF M, Sent
  <2> QED BY <1>11, <2>1 DEF Key
<1>13. Keys(Written(op)) = Sent(op)
  <2>1. \A p \in ToSet(Written(op)) : Key(p) \in Sent(op)
    BY <1>11, MergedParameters DEF M, Sent, Key
  <2> QED BY <1>12, <2>1, KeysToSet
<1> QED BY <1>8, <1>9, <1>12, <1>13 DEF P

\* The signature and the path of a method are what SignatureFaithful says.
LEMMA FaithfulMethod ==
  ASSUME NEW op, Listed(op.shared), Listed(op.own)
  PROVE  LET sig == Signature(op)
         IN  /\ Len(sig) = Cardinality(Sent(op)) + Len(Body(op))
             /\ \A k \in Sent(op) : Argument(Effective(op, k)) \in ToSet(sig)
             /\ \A m, n \in DOMAIN sig : m < n /\ sig[m].optional => sig[n].optional
             /\ op.vars \subseteq {k[2] : k \in {l \in Sent(op) : l[1] = "path"}}
                => PathVariables(op) \subseteq {sig[n].name : n \in DOMAIN sig}
<1> DEFINE P == ToSet(op.shared) \cup ToSet(op.own)
           w == Written(op)
           args == [i \in DOMAIN w |-> Argument(w[i])]
           all == args \o Body(op)
           A == {Argument(p) : p \in P} \cup ToSet(Body(op))
           sig == Signature(op)
<1>1. w \in Seq(P) /\ Distinct(w) /\ Keys(w) = Sent(op)
      /\ \A k \in Sent(op) : Effective(op, k) \in ToSet(w)
  BY WrittenParameters
<1>2. DOMAIN w = 1 .. Len(w) /\ Len(w) \in Nat /\ \A i \in DOMAIN w : w[i] \in P BY <1>1
<1>3. sig = Ordered(all) BY DEF Signature, Written
<1> HIDE DEF w, P
<1>4. args \in Seq(A) /\ Len(args) = Len(w) /\ DOMAIN args = DOMAIN w
  <2>1. \A i \in 1 .. Len(w) : Argument(w[i]) \in A BY <1>2
  <2> HIDE DEF A
  <2> QED BY <1>2, <2>1
<1>5. Body(op) \in Seq(A) /\ Len(Body(op)) \in Nat
  <2>1. CASE op.body = "none" BY <2>1 DEF Body
  <2>2. CASE op.body # "none"
    <3> DEFINE e == [name |-> "body", optional |-> op.body = "optional"]
    <3>1. Body(op) = <<e>> BY <2>2 DEF Body
    <3>2. e \in A BY <3>1 DEF ToSet
    <3> HIDE DEF e, A
    <3> QED BY <3>1, <3>2
  <2> QED BY <2>1, <2>2
<1>6. ToSet(args) = {Argument(p) : p \in ToSet(w)} BY <1>4 DEF ToSet
<1> HIDE DEF A, args
<1>7. all \in Seq(A) /\ Len(all) = Len(w) + Len(Body(op))
      /\ ToSet(all) = ToSet(args) \cup ToSet(Body(op))
  BY <1>4, <1>5, Joined
<1> HIDE DEF all, sig
<1>8. /\ Len(sig) = Len(all) /\ ToSet(sig) = ToSet(all) /\ DOMAIN sig = 1 .. Len(sig)
      /\ \A m, n \in DOMAIN sig : m < n /\ sig[m].optional => sig[n].optional
  BY <1>3, <1>7, OrderedArguments
<1>9. Len(sig) = Cardinality(Sent(op)) + Len(Body(op))
  <2>1. Cardinality(Keys(w)) = Len(w) BY <1>1, KeyCount
  <2> QED BY <1>1, <1>7, <1>8, <2>1
<1>10. \A k \in Sent(op) : Argument(Effective(op, k)) \in ToSet(sig)
  BY <1>1, <1>6, <1>7, <1>8
<1>11. ASSUME op.vars \subseteq {k[2] : k \in {l \in Sent(op) : l[1] = "path"}}
       PROVE  PathVariables(op) \subseteq {sig[n].name : n \in DOMAIN sig}
  <2> SUFFICES ASSUME NEW v \in op.vars PROVE v \in {sig[n].name : n \in DOMAIN sig}
    BY DEF PathVariables
  <2>1. PICK k \in Sent(op) : v = k[2] BY <1>11
  <2>2. Key(Effective(op, k)) = k BY MergedParameters DEF Sent
  <2>3. Effective(op, k).name = v BY <2>1, <2>2 DEF Key
  <2>4. Argument(Effective(op, k)).name = v BY <2>3 DEF Argument
  <2> QED BY <1>10, <2>1, <2>4 DEF ToSet
<1> QED BY <1>8, <1>9, <1>10, <1>11 DEF sig

-----------------------------------------------------------------------------
(* The client generator.                                                   *)

\* The operations before the i-th that are called like it.
Before(i) == {h \in 1 .. i - 1 : doc.ops[h].name = doc.ops[i].name}

\* The methods written are those of the first operations, each with the name
\* that its place among the operations of its name gives it.
MethodsOK ==
  /\ doc \in Documents
  /\ \E S : used \in Seq(S)
  /\ \E S : methods \in Seq(S)
  /\ Len(used) = Len(methods) /\ Len(methods) <= Len(doc.ops)
  /\ \A i \in 1 .. Len(methods) :
       /\ used[i] = doc.ops[i].name
       /\ methods[i].name = IF Before(i) = {} THEN doc.ops[i].name
                            ELSE NameOf(doc.ops[i].name, Cardinality(Before(i)) + 1)
       /\ methods[i].signature = Signature(doc.ops[i])
       /\ methods[i].path = PathVariables(doc.ops[i])

\* Earlier operations of one name are fewer, and fewer than the operations.
LEMMA BeforeCount ==
  ASSUME NEW i \in Nat \ {0}
  PROVE  /\ IsFiniteSet(Before(i))
         /\ Cardinality(Before(i)) \in 0 .. i - 1
         /\ Before(i) = {} <=> Cardinality(Before(i)) = 0
         /\ \A h \in Before(i) : Cardinality(Before(h)) < Cardinality(Before(i))
<1>1. IsFiniteSet(1 .. i - 1) /\ Cardinality(1 .. i - 1) = i - 1
  BY FS_Interval
<1>2. Before(i) \subseteq 1 .. i - 1 BY DEF Before
<1>3. /\ IsFiniteSet(Before(i)) /\ Cardinality(Before(i)) <= i - 1
  BY <1>1, <1>2, FS_Subset
<1>4. Cardinality(Before(i)) \in Nat BY <1>3, FS_CardinalityType
<1>5. Before(i) = {} <=> Cardinality(Before(i)) = 0 BY <1>3, FS_EmptySet
<1>6. ASSUME NEW h \in Before(i) PROVE Cardinality(Before(h)) < Cardinality(Before(i))
  <2>1. h \in 1 .. i - 1 BY <1>2
  <2>2. Before(h) \subseteq Before(i) /\ h \notin Before(h) BY <2>1 DEF Before
  <2>3. Before(h) # Before(i) BY <2>2
  <2> QED BY <1>3, <2>2, <2>3, FS_Subset, FS_CardinalityType
<1> QED BY <1>3, <1>4, <1>5, <1>6

LEMMA ClientInitInv == ASSUME ClientInit PROVE MethodsOK
<1>1. Len(used) = 0 /\ Len(methods) = 0 /\ used \in Seq({}) /\ methods \in Seq({})
  BY DEF ClientInit
<1>2. doc \in Documents BY DEF ClientInit
<1>3. Len(doc.ops) \in Nat
  <2>1. doc.ops \in Seq(ToSet(doc.ops)) BY <1>2, ClientAssumption
  <2> QED BY <2>1
<1> QED BY <1>1, <1>2, <1>3 DEF MethodsOK

LEMMA ClientStep == ASSUME MethodsOK, [ClientNext]_clientVars PROVE MethodsOK'
<1>1. ASSUME NEW s \in Schemas, WriteDTO(s) PROVE MethodsOK'
  <2>1. doc' = doc /\ used' = used /\ methods' = methods BY <1>1 DEF WriteDTO
  <2> QED BY <2>1 DEF MethodsOK, Before
<1>2. ASSUME WriteMethod PROVE MethodsOK'
  <2> DEFINE k    == Len(methods) + 1
             base == doc.ops[k].name
  <2>1. doc' = doc /\ used' = Append(used, base) /\ Len(methods) < Len(doc.ops)
    BY <1>2 DEF WriteMethod
  <2>2. PICK m : /\ methods' = Append(methods, m) /\ m.name = UniqueMethodName(base)
                 /\ m.signature = Signature(doc.ops[k]) /\ m.path = PathVariables(doc.ops[k])
    BY <1>2 DEF WriteMethod
  <2>3. PICK S : used \in Seq(S) BY DEF MethodsOK
  <2>4. PICK T : methods \in Seq(T) BY DEF MethodsOK
  <2>5. Len(used) = Len(methods) /\ Len(methods) \in Nat /\ Len(doc.ops) \in Nat
    <3>1. doc.ops \in Seq(ToSet(doc.ops)) BY ClientAssumption DEF MethodsOK
    <3> QED BY <3>1, <2>4 DEF MethodsOK
  <2>6. /\ used' \in Seq(S \cup {base}) /\ Len(used') = k /\ used'[k] = base
        /\ \A i \in 1 .. Len(used) : used'[i] = used[i]
    <3>1. used \in Seq(S \cup {base}) BY <2>3
    <3> QED BY <3>1, <2>1, <2>5
  <2>7. /\ methods' \in Seq(T \cup {m}) /\ Len(methods') = k /\ methods'[k] = m
        /\ \A i \in 1 .. Len(methods) : methods'[i] = methods[i]
    <3>1. methods \in Seq(T \cup {m}) BY <2>4
    <3> QED BY <3>1, <2>2, <2>5
  <2>8. {i \in DOMAIN used : used[i] = base} = Before(k)
    <3>1. DOMAIN used = 1 .. k - 1 BY <2>3, <2>5
    <3>2. \A i \in 1 .. k - 1 : used[i] = doc.ops[i].name BY <2>5 DEF MethodsOK
    <3> QED BY <3>1, <3>2 DEF Before
  <2>9. m.name = IF Before(k) = {} THEN base ELSE NameOf(base, Cardinality(Before(k)) + 1)
    <3>1. Count(base) = Cardinality(Before(k)) BY <2>8 DEF Count
    <3>2. Before(k) = {} <=> Cardinality(Before(k)) = 0 BY <2>5, BeforeCount
    <3> QED BY <2>2, <3>1, <3>2 DEF UniqueMethodName
  <2>10. \A i : Before(i)' = Before(i) BY <2>1 DEF Before
  <2>11. ASSUME NEW i \in 1 .. Len(methods')
         PROVE  /\ used'[i] = doc.ops[i].name
                /\ methods'[i].name = IF Before(i) = {} THEN doc.ops[i].name
                                      ELSE NameOf(doc.ops[i].name, Cardinality(Before(i)) + 1)
                /\ methods'[i].signature = Signature(doc.ops[i])
                /\ methods'[i].path = PathVariables(doc.ops[i])
    <3>1. CASE i = k BY <3>1, <2>2, <2>6, <2>7, <2>9
    <3>2. CASE i # k
      <4>1. i \in 1 .. Len(methods) BY <3>2, <2>5, <2>7
      <4>2. used'[i] = used[i] /\ methods'[i] = methods[i] BY <4>1, <2>5, <2>6, <2>7
      <4> QED BY <4>1, <4>2 DEF MethodsOK
    <3> QED BY <3>1, <3>2
  <2>12. (\E U : used \in Seq(U))' /\ (\E U : methods \in Seq(U))' BY <2>6, <2>7
  <2>13. doc' \in Documents BY <2>1 DEF MethodsOK
  <2>14. Len(used') = Len(methods') /\ Len(methods') <= Len(doc'.ops)
    BY <2>1, <2>5, <2>6, <2>7
  <2> QED BY <2>12, <2>13, <2>14, <2>1, <2>10, <2>11 DEF MethodsOK
<1>3. ASSUME WriteFile \/ UNCHANGED clientVars PROVE MethodsOK'
  <2>1. UNCHANGED <<doc, unwritten, classes, used, methods>>
    BY <1>3 DEF WriteFile, clientVars
  <2> QED BY <2>1 DEF MethodsOK, Before
<1> QED BY <1>1, <1>2, <1>3 DEF ClientNext

LEMMA ClientInvariance == ClientSpec => []MethodsOK
BY ClientInitInv, ClientStep, PTL DEF ClientSpec

\* Whatever operations a document has, and however often it repeats a name, no
\* method of the client takes the place of another.
THEOREM MethodsDiffer == ClientSpec => []DistinctMethods
<1>1. ASSUME MethodsOK PROVE DistinctMethods
  <2>1. SUFFICES ASSUME \A i, j, n \in DOMAIN doc.ops :
                          doc.ops[i].name # NameOf(doc.ops[j].name, n)
                 PROVE  \A i, j \in DOMAIN methods : methods[i].name = methods[j].name => i = j
    BY DEF DistinctMethods
  <2> DEFINE D == DOMAIN methods
             N(i) == Cardinality(Before(i)) + 1
             base(i) == doc.ops[i].name
  <2>2. /\ D \subseteq Nat \ {0} /\ D \subseteq DOMAIN doc.ops
        /\ DOMAIN doc.ops = 1 .. Len(doc.ops) /\ Len(doc.ops) \in Nat
    <3>1. doc.ops \in Seq(ToSet(doc.ops)) BY <1>1, ClientAssumption DEF MethodsOK
    <3>2. D = 1 .. Len(methods) /\ Len(methods) \in Nat
      BY <1>1 DEF MethodsOK
    <3>3. Len(methods) <= Len(doc.ops) BY <1>1 DEF MethodsOK
    <3> QED BY <3>1, <3>2, <3>3
  <2>3. \A i \in D : methods[i].name = IF Before(i) = {} THEN base(i) ELSE NameOf(base(i), N(i))
    <3>1. D = 1 .. Len(methods) BY <1>1 DEF MethodsOK
    <3> QED BY <1>1, <3>1 DEF MethodsOK
  <2>4. \A i \in D : N(i) \in 1 .. i BY <2>2, BeforeCount
  <2>5. \A i \in D : N(i) \in DOMAIN doc.ops BY <2>2, <2>4
  <2>6. \A i, j, m, n \in DOMAIN doc.ops :
          NameOf(base(i), m) = NameOf(base(j), n)
          => \/ base(i) = base(j) /\ m = n
             \/ \E k \in DOMAIN doc.ops : base(i) = NameOf(base(j), k) \/ base(j) = NameOf(base(i), k)
    BY <1>1, ClientAssumption DEF MethodsOK
  <2>7. ASSUME NEW i \in D, NEW j \in D, i < j, methods[i].name = methods[j].name
        PROVE  FALSE
    <3>1. base(i) = base(j) => i \in Before(j) /\ N(i) < N(j)
      <4>1. base(i) = base(j) => i \in Before(j) BY <2>2, <2>7 DEF Before
      <4>2. Cardinality(Before(i)) \in Nat /\ Cardinality(Before(j)) \in Nat
        BY <2>2, BeforeCount
      <4> QED BY <2>2, <4>1, <4>2, BeforeCount
    <3>2. CASE Before(i) = {} /\ Before(j) = {} BY <3>1, <3>2, <2>3, <2>7
    <3>3. CASE Before(i) # {} /\ Before(j) = {} BY <3>3, <2>1, <2>2, <2>3, <2>5, <2>7
    <3>4. CASE Before(i) = {} /\ Before(j) # {} BY <3>4, <2>1, <2>2, <2>3, <2>5, <2>7
    <3>5. CASE Before(i) # {} /\ Before(j) # {}
      <4>1. NameOf(base(i), N(i)) = NameOf(base(j), N(j)) BY <3>5, <2>3, <2>7
      <4>2. {i, j, N(i), N(j)} \subseteq DOMAIN doc.ops BY <2>2, <2>5
      <4>3. \/ base(i) = base(j) /\ N(i) = N(j)
            \/ \E k \in DOMAIN doc.ops : base(i) = NameOf(base(j), k) \/ base(j) = NameOf(base(i), k)
        <5> HIDE DEF N
        <5> QED BY <4>1, <4>2, <2>6
      <4>4. base(i) = base(j) /\ N(i) = N(j) BY <4>3, <2>1, <2>2
      <4> QED BY <4>4, <3>1, <2>2, <2>4
    <3> QED BY <3>2, <3>3, <3>4, <3>5
  <2>8. \A i, j \in D : i < j \/ j < i \/ i = j BY <2>2
  <2> QED BY <2>7, <2>8
<1> QED BY <1>1, ClientInvariance, PTL

\* Every method takes what its operation needs: the parameters that hold for it,
\* each once and optional ones last, and the names its path is made from.
THEOREM SignaturesHold == ClientSpec => []SignatureFaithful
<1>1. ASSUME MethodsOK, NEW i \in DOMAIN methods
      PROVE  /\ methods[i].signature = Signature(doc.ops[i])
             /\ methods[i].path = PathVariables(doc.ops[i])
             /\ Listed(doc.ops[i].shared) /\ Listed(doc.ops[i].own)
  <2>1. doc.ops \in Seq(ToSet(doc.ops)) /\ doc \in Documents
    BY <1>1, ClientAssumption DEF MethodsOK
  <2>2. i \in 1 .. Len(methods) /\ i \in DOMAIN doc.ops
    BY <1>1, <2>1 DEF MethodsOK
  <2> QED BY <1>1, <2>1, <2>2, ClientAssumption DEF MethodsOK
<1>2. MethodsOK => SignatureFaithful
  <2> SUFFICES ASSUME MethodsOK, NEW i \in DOMAIN methods
               PROVE  LET op   == doc.ops[i]
                          sig  == methods[i].signature
                          sent == Sent(op)
                      IN  /\ Len(sig) = Cardinality(sent) + Len(Body(op))
                          /\ \A k \in sent : Argument(Effective(op, k)) \in ToSet(sig)
                          /\ \A m, n \in DOMAIN sig :
                               m < n /\ sig[m].optional => sig[n].optional
                          /\ op.vars \subseteq {k[2] : k \in {l \in sent : l[1] = "path"}}
                             => methods[i].path \subseteq {sig[n].name : n \in DOMAIN sig}
    BY DEF SignatureFaithful, Sent
  <2> QED BY <1>1, FaithfulMethod
<1> QED BY <1>2, ClientInvariance, PTL
=============================================================================
