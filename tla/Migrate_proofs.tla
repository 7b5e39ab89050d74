---------------------------- MODULE Migrate_proofs ----------------------------
(***************************************************************************)
(* Proofs about Migrate, for any number of runners, files and versions,    *)
(* whatever fails.                                                         *)
(***************************************************************************)
EXTENDS Migrate, TLAPS

Bit(b) == IF b THEN 1 ELSE 0
Of(files) == {VersionOf[f] : f \in files}

\* The open transaction is of the file that is next for a runner.
TxOK ==
  /\ \A r \in Runners, f \in Files : <<r, f>> \in tx => pc[r] = "tx" /\ IsNext(r, f)
  /\ \A s, t \in tx : s = t
  /\ \A r \in Runners : pc[r] = "tx" => \E f \in Files : <<r, f>> \in tx

\* What a runner has read.
ReadOK ==
  \A r \in Runners :
    /\ done[r] \subseteq listed[r] /\ listed[r] \subseteq dir
    /\ pc[r] \in {"off", "open", "list"} => listed[r] = {}
    /\ pc[r] \in {"off", "open", "list", "read"} => applied[r] = {} /\ done[r] = {}
    /\ \A f \in dir \ late, g \in listed[r] :
         VersionOf[f] < VersionOf[g] => f \in listed[r]

\* The effect of a file's blocks, the open transaction aside, and its record.
Sums(e) ==
  \A g \in Files :
    /\ ~Acts("up", g) => e[g] <= 0
    /\ g \notin dir => e[g] = 0
    /\ g \in dir /\ Sole(g) /\ (Acts("up", g) => Acts("down", g))
       => e[g] <= Bit(Recorded(g))
    /\ ~mixed /\ g \in dir /\ Sole(g) /\ Acts("up", g) /\ Acts("down", g)
       => e[g] = Bit(Recorded(g))

EffectOK ==
  /\ recorded \subseteq Of(dir)
  /\ tx = {} => Sums(effect)
  /\ \A r \in Runners, f \in Files : <<r, f>> \in tx => Sums(Undone(r, f))

\* A down that runs alone knows the records; ups only add to what each has read.
AloneOK ==
  \A r \in Runners :
    /\ pc[r] # "off" /\ cmd[r] = "down" => \A q \in Runners \ {r} : pc[q] = "off"
    /\ pc[r] \in {"loop", "tx"} /\ cmd[r] = "up"
       => applied[r] \cup Of(done[r]) \subseteq recorded
    /\ pc[r] \in {"loop", "tx"} /\ cmd[r] = "down" => recorded = applied[r] \ Of(done[r])
    /\ pc[r] \in {"read", "loop", "tx"} /\ cmd[r] = "down" => recorded \subseteq Of(listed[r])

Inv == TypeOK /\ TxOK /\ ReadOK /\ EffectOK /\ (~mixed => AloneOK) /\ NoGap

-----------------------------------------------------------------------------
(* Types and the initial state.                                            *)

LEMMA DeltaInt ==
  ASSUME NEW r \in Runners, NEW f \in Files PROVE Delta(r, f) \in {-1, 0, 1}
BY DEF Delta

LEMMA UndoneType ==
  ASSUME TypeOK, NEW r \in Runners, NEW f \in Files
  PROVE  /\ Undone(r, f) \in [Files -> Int]
         /\ Undone(r, f)[f] = effect[f] - Delta(r, f)
         /\ \A g \in Files \ {f} : Undone(r, f)[g] = effect[g]
<1> DEFINE d == Delta(r, f)
<1>1. d \in Int BY DeltaInt
<1>2. Undone(r, f) = [effect EXCEPT ![f] = @ - d] BY DEF Undone
<1> HIDE DEF d
<1>3. effect \in [Files -> Int] BY DEF TypeOK
<1>4. /\ [effect EXCEPT ![f] = @ - d] \in [Files -> Int]
      /\ [effect EXCEPT ![f] = @ - d][f] = effect[f] - d
      /\ \A g \in Files \ {f} : [effect EXCEPT ![f] = @ - d][g] = effect[g]
  BY <1>1, <1>3
<1> QED BY <1>2, <1>4 DEF d

LEMMA InitInv == ASSUME Init PROVE Inv
<1>1. TypeOK
  <2>1. 0 \in 0 .. MaxDowns /\ 0 \in 0 .. MaxFaults BY MigrateAssumption
  <2>2. mixed \in BOOLEAN /\ schema \in BOOLEAN BY DEF Init
  <2>3. scheme \in Schemes BY DEF Init
  <2>4. 0 \in Targets /\ 1 \in Steps BY MigrateAssumption
  <2> QED BY <2>1, <2>2, <2>3, <2>4 DEF Init, TypeOK
<1>2. TxOK BY DEF Init, TxOK
<1>3. ReadOK BY DEF Init, ReadOK
<1>4. \A f : ~Recorded(f) BY DEF Init, Recorded
<1>5. Sums(effect) BY <1>4 DEF Init, Sums, Bit
<1>6. EffectOK BY <1>5 DEF Init, EffectOK
<1>7. AloneOK BY DEF Init, AloneOK
<1>8. NoGap BY <1>4 DEF NoGap
<1> QED BY <1>1, <1>2, <1>3, <1>6, <1>7, <1>8 DEF Inv

LEMMA ExitType ==
  ASSUME TypeOK, NEW r \in Runners, NEW c \in {0, 1}, Exit(r, c)
  PROVE  /\ pc' \in [Runners -> {"off", "open", "list", "read", "loop", "tx"}]
         /\ cmd' \in [Runners -> {"up", "down"}]
         /\ target' \in [Runners -> Targets] /\ steps' \in [Runners -> Steps]
         /\ listed' \in [Runners -> SUBSET Files]
         /\ applied' \in [Runners -> SUBSET Versions]
         /\ done' \in [Runners -> SUBSET Files]
         /\ code' \in [Runners -> {0, 1}]
BY MigrateAssumption DEF TypeOK, Exit

LEMMA TypeStep == ASSUME TypeOK, [Next]_vars PROVE TypeOK'
<1>1. ASSUME NEW f \in Files, Arrive(f) PROVE TypeOK'
  BY <1>1 DEF TypeOK, Arrive, db, runner
<1>2. ASSUME NEW r \in Runners, NEW c \in {"up", "down"}, NEW t \in Targets,
             NEW n \in Steps, Run(r, c, t, n)
      PROVE  TypeOK'
  <2>1. downs' \in 0 .. MaxDowns BY <1>2, MigrateAssumption DEF TypeOK, Run
  <2>2. mixed' \in BOOLEAN BY <1>2, Zenon DEF Run
  <2> QED BY <1>2, <2>1, <2>2, MigrateAssumption DEF TypeOK, Run, Goto, db
<1>3. ASSUME NEW r \in Runners, Status(r) PROVE TypeOK'
  <2>1. schema' \in BOOLEAN BY <1>3, Zenon DEF Status
  <2> QED BY <1>3, <2>1 DEF TypeOK, Status
<1>4. ASSUME NEW r \in Runners, Open(r) \/ List(r) \/ LoadAppliedVersions(r)
      PROVE  TypeOK'
  BY <1>4 DEF TypeOK, Open, List, LoadAppliedVersions, Goto, db
<1>5. ASSUME NEW r \in Runners, OpenFails(r) \/ ListFails(r) \/ Finish(r)
      PROVE  TypeOK'
  <2>1. PICK c \in {0, 1} : Exit(r, c) BY <1>5 DEF OpenFails, ListFails, Finish
  <2> QED BY <1>5, <2>1, ExitType DEF TypeOK, OpenFails, ListFails, Finish, db
<1>6. ASSUME NEW r \in Runners, NEW f \in Files, BlockFails(r, f) PROVE TypeOK'
  <2>1. Exit(r, 1) BY <1>6 DEF BlockFails, Stop
  <2> QED BY <1>6, <2>1, ExitType DEF TypeOK, BlockFails, db
<1>7. ASSUME NEW r \in Runners, NEW f \in Files, Exec(r, f) PROVE TypeOK'
  BY <1>7, DeltaInt DEF TypeOK, Exec, Goto
<1>8. ASSUME NEW r \in Runners, NEW f \in Files, Commit(r, f) PROVE TypeOK'
  <2>1. VersionOf[f] \in Versions BY DEF Versions
  <2> QED BY <1>8, <2>1 DEF TypeOK, Commit, Goto
<1>9. ASSUME NEW r \in Runners, NEW f \in Files, Rollback(r, f) PROVE TypeOK'
  <2>1. Exit(r, 1) BY <1>9 DEF Rollback, Stop
  <2> QED BY <1>9, <2>1, ExitType, UndoneType DEF TypeOK, Rollback, Abort
<1>10. ASSUME NEW r \in Runners, Fault(r) PROVE TypeOK'
  <2>1. Exit(r, 1) /\ faults' \in 0 .. MaxFaults
    BY <1>10, MigrateAssumption DEF Fault, TypeOK
  <2>2. effect' \in [Files -> Int] /\ tx' \subseteq Runners \X Files
        /\ schema' = schema /\ recorded' = recorded
    <3>1. CASE pc[r] = "tx"
      <4>1. PICK f \in Files : Abort(r, f) BY <1>10, <3>1 DEF Fault
      <4> QED BY <4>1, UndoneType DEF Abort
    <3>2. CASE pc[r] # "tx"
      <4>1. UNCHANGED db BY <1>10, <3>2 DEF Fault
      <4> QED BY <4>1 DEF TypeOK, db
    <3> QED BY <3>1, <3>2
  <2> QED BY <1>10, <2>1, <2>2, ExitType DEF TypeOK, Fault
<1>11. CASE UNCHANGED vars BY <1>11 DEF TypeOK, vars, db, runner
<1> QED BY <1>1, <1>2, <1>3, <1>4, <1>5, <1>6, <1>7, <1>8, <1>9, <1>10, <1>11
        DEF Next, Step, Create, Merge

-----------------------------------------------------------------------------
(* What a step leaves alone.                                               *)

\* Nothing of what the runner q works with changes.
Same(q) ==
  /\ pc'[q] = pc[q] /\ cmd'[q] = cmd[q] /\ target'[q] = target[q]
  /\ steps'[q] = steps[q] /\ listed'[q] = listed[q] /\ applied'[q] = applied[q]
  /\ done'[q] = done[q]

LEMMA SameNext ==
  ASSUME NEW q \in Runners, NEW f \in Files, Same(q) PROVE IsNext(q, f)' = IsNext(q, f)
BY DEF Same, IsNext, Pending, Wanted, WithinTarget

LEMMA SameDelta ==
  ASSUME NEW q \in Runners, NEW f \in Files, cmd'[q] = cmd[q]
  PROVE  Delta(q, f)' = Delta(q, f)
BY DEF Delta, Acts, Acting, Block

LEMMA SameUndone ==
  ASSUME NEW q \in Runners, NEW f \in Files, cmd'[q] = cmd[q], effect' = effect
  PROVE  Undone(q, f)' = Undone(q, f)
BY SameDelta DEF Undone

\* The part of the invariant about the runner q, for those that do not move.
Own(q) ==
  /\ done[q] \subseteq listed[q] /\ listed[q] \subseteq dir
  /\ pc[q] \in {"off", "open", "list"} => listed[q] = {}
  /\ pc[q] \in {"off", "open", "list", "read"} => applied[q] = {} /\ done[q] = {}
  /\ \A f \in dir \ late, g \in listed[q] :
       VersionOf[f] < VersionOf[g] => f \in listed[q]

Alone(q) ==
  /\ pc[q] # "off" /\ cmd[q] = "down" => \A p \in Runners \ {q} : pc[p] = "off"
  /\ pc[q] \in {"loop", "tx"} /\ cmd[q] = "up"
     => applied[q] \cup Of(done[q]) \subseteq recorded
  /\ pc[q] \in {"loop", "tx"} /\ cmd[q] = "down" => recorded = applied[q] \ Of(done[q])
  /\ pc[q] \in {"read", "loop", "tx"} /\ cmd[q] = "down" => recorded \subseteq Of(listed[q])

LEMMA ByRunner ==
  /\ ReadOK <=> \A q \in Runners : Own(q)
  /\ AloneOK <=> \A q \in Runners : Alone(q)
  /\ ReadOK' <=> \A q \in Runners : Own(q)'
  /\ AloneOK' <=> \A q \in Runners : Alone(q)'
BY DEF ReadOK, Own, AloneOK, Alone

LEMMA ActsConstant == \A c, f : Acts(c, f)' = Acts(c, f)
BY DEF Acts, Acting, Block

\* A step of r outside of a transaction.
Local(r) ==
  /\ UNCHANGED <<dir, late, recorded, effect, tx>>
  /\ pc[r] # "tx" /\ pc'[r] # "tx"
  /\ \A q \in Runners \ {r} : Same(q)
  /\ mixed => mixed'

LEMMA LocalInv ==
  ASSUME Inv, NEW r \in Runners, Local(r)
  PROVE  /\ TxOK' /\ EffectOK' /\ NoGap'
         /\ \A q \in Runners \ {r} : Own(q)'
<1>1. \A f : Recorded(f)' = Recorded(f) BY DEF Recorded, Local
<1>2. \A f : Sole(f)' = Sole(f) BY DEF Sole, Local
<1>3. ASSUME NEW q \in Runners, NEW f \in Files, <<q, f>> \in tx PROVE q # r
  BY <1>3 DEF Inv, TxOK, Local
<1>4. TxOK'
  <2>1. ASSUME NEW q \in Runners, NEW f \in Files, <<q, f>> \in tx'
        PROVE  (pc[q] = "tx" /\ IsNext(q, f))'
    <3>1. <<q, f>> \in tx /\ q # r BY <2>1, <1>3 DEF Local
    <3>2. pc[q] = "tx" /\ IsNext(q, f) BY <3>1 DEF Inv, TxOK
    <3>3. Same(q) BY <3>1 DEF Local
    <3> QED BY <3>2, <3>3, SameNext DEF Same
  <2>2. ASSUME NEW q \in Runners, pc'[q] = "tx" PROVE \E f \in Files : <<q, f>> \in tx'
    <3>1. q # r /\ tx' = tx BY <2>2 DEF Local
    <3>2. pc[q] = "tx" BY <3>1, <2>2 DEF Local, Same
    <3> QED BY <3>1, <3>2 DEF Inv, TxOK
  <2>3. \A s, t \in tx' : s = t BY DEF Inv, TxOK, Local
  <2> QED BY <2>1, <2>2, <2>3 DEF TxOK
<1>5. EffectOK'
  <2>1. recorded' \subseteq Of(dir') BY DEF Inv, EffectOK, Local
  <2>2. ASSUME tx' = {} PROVE Sums(effect)'
    <3>1. Sums(effect) BY <2>2 DEF Inv, EffectOK, Local
    <3>2. effect' = effect /\ dir' = dir /\ (mixed => mixed') BY DEF Local
    <3> QED BY <3>1, <3>2, <1>1, <1>2, ActsConstant DEF Sums, Bit
  <2>3. ASSUME NEW q \in Runners, NEW f \in Files, <<q, f>> \in tx'
        PROVE  Sums(Undone(q, f))'
    <3>1. <<q, f>> \in tx /\ q # r BY <2>3, <1>3 DEF Local
    <3>2. Sums(Undone(q, f)) BY <3>1 DEF Inv, EffectOK
    <3>3. Undone(q, f)' = Undone(q, f) BY <3>1, SameUndone DEF Local, Same
    <3>4. dir' = dir /\ (mixed => mixed') BY DEF Local
    <3> QED BY <3>2, <3>3, <3>4, <1>1, <1>2, ActsConstant DEF Sums, Bit
  <2>4. (recorded \subseteq Of(dir))' BY <2>1 DEF Of
  <2> QED BY <2>4, <2>2, <2>3 DEF EffectOK
<1>6. NoGap' BY <1>1 DEF Inv, NoGap, Local
<1>7. ASSUME NEW q \in Runners \ {r} PROVE Own(q)'
  <2>1. Own(q) BY ByRunner DEF Inv
  <2> QED BY <2>1 DEF Own, Local, Same
<1> QED BY <1>4, <1>5, <1>6, <1>7

\* A step that ends a run.
LEMMA ExitLocal ==
  ASSUME Inv, TypeOK', NEW r \in Runners, NEW c \in {0, 1}, Exit(r, c),
         UNCHANGED <<dir, late, recorded, effect, tx, mixed>>, pc[r] # "tx"
  PROVE  Inv'
<1>0. TypeOK BY DEF Inv
<1>1. Local(r) BY <1>0 DEF Exit, Local, Same, TypeOK
<1>2. pc'[r] = "off" /\ listed'[r] = {} /\ applied'[r] = {} /\ done'[r] = {}
  BY <1>0 DEF Exit, TypeOK
<1>3. ReadOK'
  <2>1. Own(r)' BY <1>2 DEF Own
  <2> QED BY <1>1, <2>1, LocalInv, ByRunner
<1>4. ASSUME ~mixed' PROVE AloneOK'
  <2>1. \A q \in Runners : Alone(q) BY <1>4, ByRunner DEF Inv
  <2>2. Alone(r)' BY <1>2 DEF Alone
  <2>3. ASSUME NEW q \in Runners \ {r} PROVE Alone(q)'
    <3>1. Alone(q) /\ Same(q) BY <2>1, <1>1 DEF Local
    <3>2. recorded' = recorded BY <1>1 DEF Local
    <3>3. \A p \in Runners : pc[p] = "off" => pc'[p] = "off" BY <1>2, <1>1 DEF Local, Same
    <3>4. Of(done[q])' = Of(done[q]) /\ Of(listed[q])' = Of(listed[q])
      BY <3>1 DEF Same, Of
    <3> QED BY <3>1, <3>2, <3>3, <3>4 DEF Alone, Same
  <2> QED BY <2>2, <2>3, ByRunner
<1> QED BY <1>1, <1>3, <1>4, LocalInv DEF Inv

-----------------------------------------------------------------------------
(* The steps outside of a transaction.                                     *)

LEMMA ArriveInv ==
  ASSUME Inv, TypeOK', NEW f \in Files, f \notin dir, Arrive(f) PROVE Inv'
<1>0. TypeOK BY DEF Inv
<1>1. dir' = dir \cup {f} /\ late \subseteq late' /\ late' \subseteq late \cup {f}
      /\ recorded' = recorded /\ effect' = effect /\ tx' = tx /\ mixed' = mixed
  BY DEF Arrive, db
<1>2. \A q \in Runners : Same(q) BY DEF Arrive, runner, Same
<1>3. \A g \in dir : VersionOf[f] < VersionOf[g] => f \in late' BY DEF Arrive
<1>4. \A g : Recorded(g)' = Recorded(g) BY <1>1 DEF Recorded
<1>5. TxOK' BY <1>1, <1>2, SameNext DEF Inv, TxOK, Same
<1>6. ReadOK'
  <2>1. ASSUME NEW q \in Runners PROVE Own(q)'
    <3>1. Own(q) /\ Same(q) BY <1>2, ByRunner DEF Inv
    <3>2. ASSUME NEW h \in dir' \ late', NEW g \in listed[q], VersionOf[h] < VersionOf[g]
          PROVE  h \in listed[q]
      <4>1. g \in dir BY <3>1 DEF Own
      <4>2. h # f BY <4>1, <3>2, <1>3
      <4> QED BY <4>2, <3>1, <3>2, <1>1 DEF Own
    <3> QED BY <3>1, <3>2, <1>1 DEF Own, Same
  <2> QED BY <2>1, ByRunner
<1>7. ASSUME NEW e \in [Files -> Int], Sums(e),
             NEW g \in Files
      PROVE  /\ ~Acts("up", g) => e[g] <= 0
             /\ g \notin dir' => e[g] = 0
             /\ g \in dir' /\ Sole(g)' /\ (Acts("up", g) => Acts("down", g))
                => e[g] <= Bit(Recorded(g))
             /\ ~mixed' /\ g \in dir' /\ Sole(g)' /\ Acts("up", g) /\ Acts("down", g)
                => e[g] = Bit(Recorded(g))
  <2>1. CASE g = f
    <3>1. e[g] = 0 BY <1>7, <2>1 DEF Sums
    <3>2. Sole(g)' => ~Recorded(g)
      <4>1. SUFFICES ASSUME Sole(g)', Recorded(g) PROVE FALSE OBVIOUS
      <4>2. PICK h \in dir : VersionOf[h] = VersionOf[g]
        BY <4>1 DEF Inv, EffectOK, Of, Recorded
      <4> QED BY <4>1, <4>2, <2>1, <1>1 DEF Sole
    <3> QED BY <3>1, <3>2, <2>1, <1>1 DEF Bit
  <2>2. CASE g # f
    <3>1. Sole(g)' => Sole(g) BY <1>1 DEF Sole
    <3> QED BY <3>1, <2>2, <1>1, <1>7 DEF Sums
  <2> QED BY <2>1, <2>2
<1>8. EffectOK'
  <2>1. (recorded \subseteq Of(dir))' BY <1>1 DEF Inv, EffectOK, Of
  <2>2. ASSUME tx' = {} PROVE Sums(effect)'
    <3>1. Sums(effect) BY <2>2, <1>1 DEF Inv, EffectOK
    <3>2. effect \in [Files -> Int] BY <1>0 DEF TypeOK
    <3> QED BY <3>1, <3>2, <1>1, <1>4, <1>7, ActsConstant DEF Sums, Bit
  <2>3. ASSUME NEW q \in Runners, NEW h \in Files, <<q, h>> \in tx'
        PROVE  Sums(Undone(q, h))'
    <3>1. Sums(Undone(q, h)) BY <2>3, <1>1 DEF Inv, EffectOK
    <3>2. Undone(q, h)' = Undone(q, h) BY <1>1, <1>2, SameUndone DEF Same
    <3>3. Undone(q, h) \in [Files -> Int] BY <1>0, UndoneType
    <3> QED BY <3>1, <3>2, <3>3, <1>1, <1>4, <1>7, ActsConstant DEF Sums, Bit
  <2> QED BY <2>1, <2>2, <2>3 DEF EffectOK
<1>9. ASSUME ~mixed' PROVE AloneOK'
  <2>1. ASSUME NEW q \in Runners PROVE Alone(q)'
    <3>1. Alone(q) BY <1>9, <1>1, ByRunner DEF Inv
    <3> QED BY <3>1, <1>1, <1>2 DEF Alone, Same, Of
  <2> QED BY <2>1, ByRunner
<1>10. ASSUME ~mixed' PROVE NoGap'
  <2>1. NoGap /\ ~mixed BY <1>9, <1>10, <1>1 DEF Inv
  <2>2. ASSUME NEW h \in dir' \ late', NEW g \in dir', VersionOf[h] < VersionOf[g],
               Recorded(g)
        PROVE  Recorded(h)
    <3>1. PICK k \in dir : VersionOf[k] = VersionOf[g]
      BY <2>2 DEF Inv, EffectOK, Of, Recorded
    <3>2. Recorded(k) /\ VersionOf[h] < VersionOf[k] BY <3>1, <2>2 DEF Recorded
    <3>3. h # f BY <3>1, <3>2, <1>3, <2>2
    <3> QED BY <3>1, <3>2, <3>3, <2>1, <2>2, <1>1 DEF NoGap
  <2> QED BY <2>2, <1>4, <1>10 DEF NoGap
<1> QED BY <1>5, <1>6, <1>8, <1>9, <1>10, TypeOK' DEF Inv, NoGap

\* What is left to show of a step outside of a transaction.
LEMMA MoverInv ==
  ASSUME Inv, TypeOK', NEW r \in Runners, Local(r), Own(r)',
         ~mixed' => ~mixed /\ Alone(r)',
         ~mixed' => \A q \in Runners \ {r} :
                      pc'[q] # "off" /\ cmd'[q] = "down" => pc'[r] = "off"
  PROVE  Inv'
<1>1. ReadOK'
  <2>1. \A q \in Runners : Own(q)' BY LocalInv
  <2> QED BY <2>1, ByRunner
<1>2. ASSUME ~mixed' PROVE AloneOK'
  <2>1. ASSUME NEW q \in Runners \ {r} PROVE Alone(q)'
    <3>1. Alone(q) /\ Same(q) BY <1>2, ByRunner DEF Inv, Local
    <3>2. recorded' = recorded BY DEF Local
    <3>3. \A p \in Runners \ {r} : pc'[p] = pc[p] BY DEF Local, Same
    <3>4. Of(done[q])' = Of(done[q]) /\ Of(listed[q])' = Of(listed[q])
      BY <3>1 DEF Same, Of
    <3> QED BY <3>1, <3>2, <3>3, <3>4, <1>2 DEF Alone, Same
  <2> QED BY <2>1, <1>2, ByRunner
<1> QED BY <1>1, <1>2, LocalInv DEF Inv

LEMMA RunInv ==
  ASSUME Inv, TypeOK', NEW r \in Runners, NEW c \in {"up", "down"}, NEW t \in Targets,
         NEW n \in Steps, Run(r, c, t, n)
  PROVE  Inv'
<1>0. TypeOK BY DEF Inv
<1>1. mixed => mixed' BY Zenon DEF Run
<1>2. Local(r) BY <1>0, <1>1 DEF Run, Goto, Local, Same, TypeOK, db
<1>3. pc'[r] = "open" /\ cmd'[r] = c BY <1>0 DEF Run, Goto, TypeOK
<1>4. Own(r) /\ pc[r] = "off" BY ByRunner DEF Inv, Run, Goto
<1>5. Own(r)' BY <1>3, <1>4 DEF Own, Run
<1>6. ASSUME ~mixed'
      PROVE  /\ c = "up" => Working({"down"}) = {}
             /\ c = "down" => Working({"up", "down"}) = {}
  BY <1>6, Zenon DEF Run
<1>7. \A q \in Runners : cmd[q] \in {"up", "down"} BY <1>0 DEF TypeOK
<1>8. \A q \in Runners \ {r} : pc'[q] = pc[q] /\ cmd'[q] = cmd[q] BY <1>2 DEF Local, Same
<1>9. ASSUME ~mixed' PROVE Alone(r)'
  <2>1. c = "down" => \A q \in Runners : pc[q] = "off" BY <1>6, <1>7, <1>9 DEF Working
  <2> QED BY <2>1, <1>3, <1>8 DEF Alone
<1>10. ASSUME ~mixed', NEW q \in Runners \ {r}, pc'[q] # "off", cmd'[q] = "down"
       PROVE  FALSE
  BY <1>10, <1>6, <1>7, <1>8 DEF Working
<1> QED BY <1>1, <1>2, <1>5, <1>9, <1>10, MoverInv

LEMMA ReadsInv ==
  ASSUME Inv, TypeOK', NEW r \in Runners, Open(r) \/ List(r) \/ LoadAppliedVersions(r)
  PROVE  Inv'
<1>0. TypeOK BY DEF Inv
<1>1. Local(r) /\ mixed' = mixed
  BY <1>0 DEF Open, List, LoadAppliedVersions, Goto, Local, Same, TypeOK, db
<1>2. pc[r] # "off" /\ cmd'[r] = cmd[r]
  BY DEF Open, List, LoadAppliedVersions, Goto
<1>3. Own(r) /\ (~mixed => Alone(r)) BY ByRunner DEF Inv
<1>4. \A q \in Runners \ {r} : pc'[q] = pc[q] /\ cmd'[q] = cmd[q] BY <1>1 DEF Local, Same
<1>5. Of({}) = {} BY DEF Of
<1>6. CASE Open(r)
  <2>1. pc[r] = "open" /\ pc'[r] = "list" /\ listed' = listed /\ applied' = applied
        /\ done' = done
    BY <1>0, <1>6 DEF Open, Goto, TypeOK
  <2> QED BY <1>1, <1>2, <1>3, <1>4, <2>1, MoverInv, ByRunner DEF Own, Alone, Local, Inv
<1>7. CASE List(r)
  <2>1. pc[r] = "list" /\ pc'[r] = "read" /\ listed'[r] = dir /\ applied' = applied
        /\ done' = done
    BY <1>0, <1>7 DEF List, Goto, TypeOK
  <2>2. Own(r)' BY <1>1, <1>3, <2>1 DEF Own, Local
  <2>3. ~mixed => Alone(r)'
    <3>1. (recorded \subseteq Of(dir)) /\ recorded' = recorded
      BY <1>1 DEF Inv, EffectOK, Local
    <3>2. Of(listed[r])' = Of(dir) BY <2>1 DEF Of
    <3> QED BY <1>2, <1>3, <1>4, <2>1, <3>1, <3>2 DEF Alone
  <2> QED BY <1>1, <1>2, <1>4, <2>1, <2>2, <2>3, MoverInv, ByRunner DEF Alone, Inv
<1>8. CASE LoadAppliedVersions(r)
  <2>1. pc[r] = "read" /\ pc'[r] = "loop" /\ listed' = listed /\ applied'[r] = recorded
        /\ done' = done
    BY <1>0, <1>8 DEF LoadAppliedVersions, Goto, TypeOK
  <2>2. Own(r)' BY <1>1, <1>3, <2>1 DEF Own, Local
  <2>3. ~mixed => Alone(r)'
    <3>1. recorded' = recorded BY <1>1 DEF Local
    <3>2. done[r] = {} BY <1>3, <2>1 DEF Own
    <3>3. Of(listed[r])' = Of(listed[r]) /\ Of(done[r])' = {} BY <2>1, <3>2 DEF Of
    <3> QED BY <1>2, <1>3, <1>4, <2>1, <3>1, <3>3 DEF Alone
  <2> QED BY <1>1, <1>2, <1>4, <2>1, <2>2, <2>3, MoverInv, ByRunner DEF Alone, Inv
<1> QED BY <1>6, <1>7, <1>8

LEMMA StatusInv == ASSUME Inv, TypeOK', NEW r \in Runners, Status(r) PROVE Inv'
<1>1. Local(r) /\ mixed' = mixed BY DEF Status, Local, Same
<1>2. Own(r)' BY ByRunner DEF Inv, Own, Status
<1>3. ~mixed => Alone(r)' BY ByRunner DEF Inv, Alone, Status, Of
<1>4. pc'[r] = "off" BY DEF Status
<1> QED BY <1>1, <1>2, <1>3, <1>4, MoverInv

-----------------------------------------------------------------------------
(* The steps of a transaction.                                             *)

\* The runner of the open transaction is the only one in it.
LEMMA OneTx ==
  ASSUME Inv, NEW r \in Runners, NEW f \in Files, <<r, f>> \in tx
  PROVE  /\ tx = {<<r, f>>} /\ pc[r] = "tx" /\ IsNext(r, f)
         /\ \A q \in Runners \ {r} : pc[q] # "tx"
<1>1. tx = {<<r, f>>} BY DEF Inv, TxOK
<1>2. \A q \in Runners : pc[q] = "tx" => \E g \in Files : <<q, g>> \in tx BY DEF Inv, TxOK
<1> QED BY <1>1, <1>2 DEF Inv, TxOK

\* What the transaction does is what its end would undo.
LEMMA ExecUndone ==
  ASSUME TypeOK, NEW r \in Runners, NEW f \in Files, Exec(r, f)
  PROVE  Undone(r, f)' = effect
<1> DEFINE d == Delta(r, f)
<1>1. d \in Int BY DeltaInt
<1>2. effect \in [Files -> Int] BY DEF TypeOK
<1>3. Delta(r, f)' = d BY SameDelta DEF Exec
<1>4. Undone(r, f)' = [effect' EXCEPT ![f] = @ - d] BY <1>3 DEF Undone
<1>5. effect' = [effect EXCEPT ![f] = @ + d] BY DEF Exec
<1> HIDE DEF d
<1>6. /\ effect' \in [Files -> Int] /\ effect'[f] = effect[f] + d
      /\ \A g \in Files \ {f} : effect'[g] = effect[g]
  BY <1>1, <1>2, <1>5
<1>7. /\ Undone(r, f)' \in [Files -> Int] /\ Undone(r, f)'[f] = effect'[f] - d
      /\ \A g \in Files \ {f} : Undone(r, f)'[g] = effect'[g]
  BY <1>1, <1>4, <1>6
<1>8. \A g \in Files : Undone(r, f)'[g] = effect[g] BY <1>1, <1>2, <1>6, <1>7
<1> QED BY <1>2, <1>7, <1>8

LEMMA ExecInv ==
  ASSUME Inv, TypeOK', NEW r \in Runners, NEW f \in Files, Exec(r, f) PROVE Inv'
<1>0. TypeOK BY DEF Inv
<1>1. /\ tx = {} /\ tx' = {<<r, f>>} /\ pc[r] = "loop" /\ pc'[r] = "tx"
      /\ effect' = [effect EXCEPT ![f] = @ + Delta(r, f)]
      /\ IsNext(r, f)
      /\ \A q \in Runners \ {r} : pc'[q] = pc[q]
  BY <1>0 DEF Exec, Goto, TypeOK
<1>2. UNCHANGED <<scheme, dir, late, schema, recorded, cmd, target, steps, listed,
                  applied, done, code, mixed, downs, faults>>
  BY DEF Exec
<1>3. TxOK'
  <2>1. IsNext(r, f)' BY <1>1, <1>2 DEF IsNext, Pending, Wanted, WithinTarget
  <2>2. \A q \in Runners : pc[q] # "tx" BY <1>1 DEF Inv, TxOK
  <2> QED BY <1>1, <2>1, <2>2 DEF TxOK
<1>4. \A q \in Runners : Own(q)'
  <2>1. \A q \in Runners : Own(q) BY ByRunner DEF Inv
  <2> QED BY <2>1, <1>1, <1>2 DEF Own
<1>5. Undone(r, f)' = effect BY <1>0, ExecUndone
<1>6. EffectOK'
  <2>1. Sums(effect) /\ recorded \subseteq Of(dir) BY <1>1 DEF Inv, EffectOK
  <2>2. \A f_1 : Recorded(f_1)' = Recorded(f_1) BY <1>2 DEF Recorded
  <2>3. \A f_1 : Sole(f_1)' = Sole(f_1) BY <1>2 DEF Sole
  <2>4. Sums(Undone(r, f))'
    BY <2>1, <2>2, <2>3, <1>2, <1>5, ActsConstant DEF Sums, Bit
  <2>5. \A q \in Runners, g \in Files : <<q, g>> \in tx' => q = r /\ g = f BY <1>1
  <2>6. (recorded \subseteq Of(dir))' BY <2>1, <1>2 DEF Of
  <2> QED BY <1>1, <2>4, <2>5, <2>6 DEF EffectOK
<1>7. ASSUME ~mixed' PROVE AloneOK'
  <2>1. ASSUME NEW q \in Runners PROVE Alone(q)'
    <3>1. \A p \in Runners : Alone(p) BY <1>7, <1>2, ByRunner DEF Inv
    <3>2. Of(listed[q])' = Of(listed[q]) /\ Of(done[q])' = Of(done[q]) BY <1>2 DEF Of
    <3> QED BY <3>1, <3>2, <1>1, <1>2 DEF Alone
  <2> QED BY <2>1, ByRunner
<1>8. NoGap' BY <1>2 DEF Inv, NoGap, Recorded
<1> QED BY <1>3, <1>4, <1>6, <1>7, <1>8, ByRunner DEF Inv

\* The transaction ends without a trace and its runner with it.
LEMMA AbortInv ==
  ASSUME Inv, TypeOK', NEW r \in Runners, NEW f \in Files, Abort(r, f), Exit(r, 1),
         UNCHANGED <<dir, late, mixed>>
  PROVE  Inv'
<1>0. TypeOK BY DEF Inv
<1>1. <<r, f>> \in tx /\ tx' = {} /\ recorded' = recorded /\ effect' = Undone(r, f)
  BY DEF Abort
<1>2. /\ pc'[r] = "off" /\ listed'[r] = {} /\ applied'[r] = {} /\ done'[r] = {}
      /\ \A q \in Runners \ {r} : Same(q)
  BY <1>0 DEF Exit, TypeOK, Same
<1>3. TxOK' BY <1>1, <1>2, OneTx DEF TxOK, Same
<1>4. ReadOK'
  <2>1. ASSUME NEW q \in Runners PROVE Own(q)'
    <3>1. Own(q) BY ByRunner DEF Inv
    <3> QED BY <3>1, <1>2 DEF Own, Same
  <2> QED BY <2>1, ByRunner
<1>5. EffectOK'
  <2>1. Sums(Undone(r, f)) /\ recorded \subseteq Of(dir) BY <1>1 DEF Inv, EffectOK
  <2>2. \A g : Recorded(g)' = Recorded(g) BY <1>1 DEF Recorded
  <2>3. \A g : Sole(g)' = Sole(g) BY DEF Sole
  <2>4. Sums(effect)' BY <2>1, <2>2, <2>3, <1>1, ActsConstant DEF Sums, Bit
  <2>5. (recorded \subseteq Of(dir))' BY <2>1, <1>1 DEF Of
  <2> QED BY <1>1, <2>4, <2>5 DEF EffectOK
<1>6. ASSUME ~mixed' PROVE AloneOK'
  <2>1. ASSUME NEW q \in Runners PROVE Alone(q)'
    <3>1. Alone(q) BY <1>6, ByRunner DEF Inv
    <3>2. q # r => Of(listed[q])' = Of(listed[q]) /\ Of(done[q])' = Of(done[q])
      BY <1>2 DEF Of, Same
    <3> QED BY <3>1, <3>2, <1>1, <1>2 DEF Alone, Same
  <2> QED BY <2>1, ByRunner
<1>7. NoGap' BY <1>1 DEF Inv, NoGap, Recorded
<1> QED BY <1>3, <1>4, <1>5, <1>6, <1>7 DEF Inv

\* The transaction of an up is of a file that has nothing pending before it, the
\* one of a down of the newest record, unless a down met another runner.
LEMMA UpOrder ==
  ASSUME Inv, ~mixed, NEW r \in Runners, NEW f \in Files, <<r, f>> \in tx,
         cmd[r] = "up", NEW h \in dir \ late, VersionOf[h] < VersionOf[f]
  PROVE  Recorded(h)
<1>0. TypeOK BY DEF Inv
<1>1. VersionOf[h] \in Nat /\ VersionOf[f] \in Nat
  BY <1>0, MigrateAssumption DEF TypeOK
<1>2. pc[r] = "tx" /\ IsNext(r, f) BY OneTx
<1>3. f \in listed[r] /\ Wanted(r, f) BY <1>2 DEF IsNext, Pending
<1>4. Own(r) /\ Alone(r) BY ByRunner DEF Inv
<1>5. h \in listed[r] BY <1>3, <1>4 DEF Own
<1>6. h \notin Pending(r) BY <1>1, <1>2 DEF IsNext
<1>7. WithinTarget(r, h)
  <2>1. target[r] \in Nat BY <1>0, MigrateAssumption DEF TypeOK
  <2> QED BY <2>1, <1>1, <1>3 DEF Wanted, WithinTarget
<1>8. h \in done[r] \/ VersionOf[h] \in applied[r]
  BY <1>5, <1>6, <1>7 DEF Pending, Wanted
<1> QED BY <1>2, <1>4, <1>8 DEF Alone, Of, Recorded

LEMMA DownOrder ==
  ASSUME Inv, ~mixed, NEW r \in Runners, NEW f \in Files, <<r, f>> \in tx,
         cmd[r] = "down"
  PROVE  /\ Sole(f) => Recorded(f)
         /\ \A g \in dir : VersionOf[f] < VersionOf[g] => ~Recorded(g)
<1>0. TypeOK BY DEF Inv
<1>1. pc[r] = "tx" /\ IsNext(r, f) BY OneTx
<1>2. f \in listed[r] \ done[r] /\ Wanted(r, f) BY <1>1 DEF IsNext, Pending
<1>3. Own(r) /\ Alone(r) BY ByRunner DEF Inv
<1>4. recorded = applied[r] \ Of(done[r]) /\ recorded \subseteq Of(listed[r])
  BY <1>1, <1>3 DEF Alone
<1>5. ASSUME Sole(f) PROVE Recorded(f)
  <2>1. VersionOf[f] \in applied[r] BY <1>2 DEF Wanted
  <2>2. VersionOf[f] \notin Of(done[r]) BY <1>2, <1>3, <1>5 DEF Of, Sole, Own
  <2> QED BY <2>1, <2>2, <1>4 DEF Recorded
<1>6. ASSUME NEW g \in dir, VersionOf[f] < VersionOf[g], Recorded(g) PROVE FALSE
  <2>1. PICK k \in listed[r] : VersionOf[k] = VersionOf[g]
    BY <1>4, <1>6 DEF Recorded, Of
  <2>2. VersionOf[k] \in applied[r] /\ k \notin done[r]
    BY <1>4, <1>6, <2>1 DEF Recorded, Of
  <2>3. k \in Pending(r) BY <2>1, <2>2, <1>2 DEF Pending, Wanted
  <2>4. VersionOf[k] \in Nat /\ VersionOf[f] \in Nat
    BY <1>0, <1>6, <2>1, MigrateAssumption DEF TypeOK
  <2> QED BY <2>1, <2>3, <2>4, <1>1, <1>6 DEF IsNext
<1> QED BY <1>5, <1>6

LEMMA CommitInv ==
  ASSUME Inv, TypeOK', NEW r \in Runners, NEW f \in Files, Commit(r, f) PROVE Inv'
<1> DEFINE u == Undone(r, f)
           v == VersionOf[f]
<1>0. TypeOK /\ cmd[r] \in {"up", "down"} BY DEF Inv, TypeOK
<1>1. /\ <<r, f>> \in tx /\ tx' = {} /\ pc'[r] = "loop"
      /\ done'[r] = done[r] \cup {f}
      /\ \A q \in Runners \ {r} : pc'[q] = pc[q] /\ done'[q] = done[q]
      /\ cmd[r] = "up" => v \notin recorded /\ recorded' = recorded \cup {v}
      /\ cmd[r] = "down" => recorded' = recorded \ {v}
  BY <1>0 DEF Commit, Goto, TypeOK, Conflict
<1>2. UNCHANGED <<scheme, dir, late, schema, effect, cmd, target, steps, listed,
                  applied, code, mixed, downs, faults>>
  BY DEF Commit
<1>3. pc[r] = "tx" /\ IsNext(r, f) /\ \A q \in Runners \ {r} : pc[q] # "tx"
  BY <1>1, OneTx
<1>4. f \in listed[r] /\ f \notin done[r] /\ Wanted(r, f)
  BY <1>3 DEF IsNext, Pending
<1>5. \A q \in Runners : Own(q) BY ByRunner DEF Inv
<1>6. f \in dir BY <1>4, <1>5 DEF Own
<1>7. ~mixed => \A q \in Runners : Alone(q) BY ByRunner DEF Inv
<1>8. Of(done[r])' = Of(done[r]) \cup {v}
      /\ \A q \in Runners \ {r} : Of(done[q])' = Of(done[q])
  BY <1>1 DEF Of
<1>9. \A q \in Runners : Of(listed[q])' = Of(listed[q]) BY <1>2 DEF Of
<1>10. TxOK' BY <1>1, <1>3 DEF TxOK
<1>11. ReadOK'
  <2>1. ASSUME NEW q \in Runners PROVE Own(q)'
    <3>1. Own(q) BY <1>5
    <3>2. done'[q] \subseteq listed[q] BY <3>1, <1>1, <1>4 DEF Own
    <3> QED BY <3>1, <3>2, <1>1, <1>2, <1>3 DEF Own
  <2> QED BY <2>1, ByRunner
<1>12. EffectOK'
  <2>1. Sums(u) /\ recorded \subseteq Of(dir) BY <1>1 DEF Inv, EffectOK
  <2>2. (recorded \subseteq Of(dir))'
    <3>1. v \in Of(dir) /\ Of(dir)' = Of(dir) BY <1>2, <1>6 DEF Of
    <3> QED BY <2>1, <3>1, <1>0, <1>1
  <2>3. \A g : Sole(g)' = Sole(g) BY <1>2 DEF Sole
  <2>4. ASSUME NEW g \in Files, VersionOf[g] # v PROVE Recorded(g)' = Recorded(g)
    BY <2>4, <1>0, <1>1 DEF Recorded
  <2>5. ASSUME NEW g \in Files \ {f}, g \in dir, Sole(g) PROVE VersionOf[g] # v
    BY <2>5, <1>6 DEF Sole
  <2>6. effect[f] = u[f] + Delta(r, f) /\ u[f] \in Int
        /\ \A g \in Files \ {f} : effect[g] = u[g]
    <3>1. Delta(r, f) \in Int BY DeltaInt
    <3> QED BY <3>1, <1>0, UndoneType DEF TypeOK
  <2>7. Delta(r, f) = IF ~Acts(cmd[r], f) THEN 0 ELSE IF cmd[r] = "up" THEN 1 ELSE -1
    BY DEF Delta
  <2>8. /\ cmd[r] = "up" => ~Recorded(f) /\ Recorded(f)'
        /\ cmd[r] = "down" => ~Recorded(f)'
    BY <1>1 DEF Recorded
  <2>9. cmd[r] = "down" /\ ~mixed /\ Sole(f) => Recorded(f) BY <1>1, DownOrder
  <2>10. ASSUME NEW g \in Files
         PROVE  /\ ~Acts("up", g) => effect[g] <= 0
                /\ g \notin dir => effect[g] = 0
                /\ g \in dir /\ Sole(g) /\ (Acts("up", g) => Acts("down", g))
                   => effect[g] <= Bit(Recorded(g)')
                /\ ~mixed /\ g \in dir /\ Sole(g) /\ Acts("up", g) /\ Acts("down", g)
                   => effect[g] = Bit(Recorded(g)')
    <3>1. CASE g # f BY <3>1, <2>1, <2>4, <2>5, <2>6 DEF Sums
    <3>2. CASE g = f /\ cmd[r] = "up"
      BY <3>2, <2>1, <2>6, <2>7, <2>8, <1>6 DEF Sums, Bit
    <3>3. CASE g = f /\ cmd[r] = "down"
      BY <3>3, <2>1, <2>6, <2>7, <2>8, <2>9, <1>6 DEF Sums, Bit
    <3> QED BY <3>1, <3>2, <3>3, <1>0
  <2>11. Sums(effect)' BY <2>3, <2>10, <1>2, ActsConstant DEF Sums, Bit
  <2> QED BY <2>2, <2>11, <1>1 DEF EffectOK
<1>13. ASSUME ~mixed' PROVE AloneOK'
  <2>1. \A q \in Runners : Alone(q) BY <1>13, <1>2, <1>7
  <2>2. cmd[r] = "down" => recorded = applied[r] \ Of(done[r])
        /\ recorded \subseteq Of(listed[r]) /\ \A q \in Runners \ {r} : pc[q] = "off"
    BY <2>1, <1>3 DEF Alone
  <2>3. cmd[r] = "up" => applied[r] \cup Of(done[r]) \subseteq recorded
    BY <2>1, <1>3 DEF Alone
  <2>4. Alone(r)'
    <3>1. CASE cmd[r] = "up" BY <3>1, <2>3, <1>1, <1>2, <1>8 DEF Alone
    <3>2. CASE cmd[r] = "down" BY <3>2, <2>2, <1>1, <1>2, <1>8, <1>9 DEF Alone
    <3> QED BY <3>1, <3>2, <1>0
  <2>5. ASSUME NEW q \in Runners \ {r} PROVE Alone(q)'
    <3>1. Alone(q) BY <2>1
    <3>2. CASE pc[q] = "off" BY <3>2, <1>1 DEF Alone
    <3>3. CASE pc[q] # "off"
      <4>1. cmd[r] = "up" /\ cmd[q] # "down" BY <3>1, <3>3, <2>2, <1>0, <1>3 DEF Alone
      <4> QED BY <3>1, <4>1, <1>1, <1>2, <1>8 DEF Alone
    <3> QED BY <3>2, <3>3
  <2> QED BY <2>4, <2>5, ByRunner
<1>14. ASSUME ~mixed' PROVE NoGap'
  <2>1. NoGap /\ ~mixed BY <1>14, <1>2 DEF Inv
  <2>2. SUFFICES ASSUME NEW h \in dir \ late, NEW g \in dir,
                        VersionOf[h] < VersionOf[g], Recorded(g)'
                 PROVE  Recorded(h)'
    BY <1>2 DEF NoGap
  <2>3. CASE cmd[r] = "up"
    <3>1. Recorded(h)
      <4>1. CASE Recorded(g) BY <2>1, <2>2, <4>1 DEF NoGap
      <4>2. CASE ~Recorded(g)
        <5>1. VersionOf[h] < v BY <4>2, <2>2, <2>3, <1>1 DEF Recorded
        <5> QED BY <5>1, <2>1, <2>3, <1>1, UpOrder
      <4> QED BY <4>1, <4>2
    <3> QED BY <3>1, <2>3, <1>1 DEF Recorded
  <2>4. CASE cmd[r] = "down"
    <3>1. Recorded(g) BY <2>2, <2>4, <1>1 DEF Recorded
    <3>2. Recorded(h) BY <2>1, <2>2, <3>1 DEF NoGap
    <3>3. VersionOf[h] # v BY <3>1, <2>1, <2>2, <2>4, <1>1, DownOrder
    <3> QED BY <3>2, <3>3, <2>4, <1>1 DEF Recorded
  <2> QED BY <2>3, <2>4, <1>0
<1> QED BY <1>10, <1>11, <1>12, <1>13, <1>14 DEF Inv, NoGap

-----------------------------------------------------------------------------
(* Every step, and the theorems.                                           *)

LEMMA InvStep == ASSUME Inv, [Next]_vars PROVE Inv'
<1>0. TypeOK /\ TypeOK' BY TypeStep DEF Inv
<1>1. ASSUME NEW f \in Files, Create(f) \/ Merge(f) PROVE Inv'
  BY <1>0, <1>1, ArriveInv DEF Create, Merge
<1>2. ASSUME NEW r \in Runners, NEW c \in {"up", "down"}, NEW t \in Targets,
             NEW n \in Steps, Run(r, c, t, n)
      PROVE  Inv'
  BY <1>0, <1>2, RunInv
<1>3. ASSUME NEW r \in Runners, Status(r) PROVE Inv'
  BY <1>0, <1>3, StatusInv
<1>4. ASSUME NEW r \in Runners, Open(r) \/ List(r) \/ LoadAppliedVersions(r) PROVE Inv'
  BY <1>0, <1>4, ReadsInv
<1>5. ASSUME NEW r \in Runners, OpenFails(r) \/ ListFails(r) \/ Finish(r) PROVE Inv'
  <2>1. PICK c \in {0, 1} : Exit(r, c) BY <1>5 DEF OpenFails, ListFails, Finish
  <2>2. pc[r] # "tx" BY <1>5 DEF OpenFails, ListFails, Finish
  <2>3. UNCHANGED <<dir, late, recorded, effect, tx, mixed>>
    BY <1>5 DEF OpenFails, ListFails, Finish, db
  <2> QED BY <1>0, <2>1, <2>2, <2>3, ExitLocal
<1>6. ASSUME NEW r \in Runners, NEW f \in Files, BlockFails(r, f) PROVE Inv'
  BY <1>0, <1>6, ExitLocal DEF BlockFails, Stop, db
<1>7. ASSUME NEW r \in Runners, NEW f \in Files, Exec(r, f) \/ Commit(r, f) PROVE Inv'
  BY <1>0, <1>7, ExecInv, CommitInv
<1>8. ASSUME NEW r \in Runners, NEW f \in Files, Rollback(r, f) PROVE Inv'
  BY <1>0, <1>8, AbortInv DEF Rollback, Stop
<1>9. ASSUME NEW r \in Runners, Fault(r) PROVE Inv'
  <2>1. Exit(r, 1) /\ UNCHANGED <<dir, late, mixed>> BY <1>9 DEF Fault
  <2>2. CASE pc[r] = "tx" BY <1>0, <1>9, <2>1, <2>2, AbortInv DEF Fault
  <2>3. CASE pc[r] # "tx"
    <3>1. UNCHANGED <<recorded, effect, tx>> BY <1>9, <2>3 DEF Fault, db
    <3> QED BY <1>0, <2>1, <2>3, <3>1, ExitLocal
  <2> QED BY <2>2, <2>3
<1>10. CASE UNCHANGED vars
  <2>1. UNCHANGED <<dir, late, recorded, effect, tx, mixed, pc, cmd, target, steps,
                    listed, applied, done>>
    BY <1>10 DEF vars, db, runner
  <2>2. \A g : Recorded(g)' = Recorded(g) /\ Sole(g)' = Sole(g)
    BY <2>1 DEF Recorded, Sole
  <2>3. \A q \in Runners : Same(q) BY <2>1 DEF Same
  <2>4. TxOK' BY <2>1, <2>3, SameNext DEF Inv, TxOK
  <2>5. ReadOK' BY <2>1 DEF Inv, ReadOK
  <2>6. EffectOK'
    <3>1. tx' = {} => Sums(effect)' BY <2>1, <2>2, ActsConstant DEF Inv, EffectOK, Sums, Bit
    <3>2. ASSUME NEW q \in Runners, NEW f \in Files, <<q, f>> \in tx
          PROVE  Sums(Undone(q, f))'
      <4>1. Sums(Undone(q, f)) /\ Undone(q, f)' = Undone(q, f)
        BY <3>2, <2>1, SameUndone DEF Inv, EffectOK
      <4> QED BY <4>1, <2>1, <2>2, ActsConstant DEF Sums, Bit
    <3> QED BY <3>1, <3>2, <2>1 DEF Inv, EffectOK, Of
  <2>7. ~mixed' => AloneOK' BY <2>1 DEF Inv, AloneOK, Of
  <2>8. NoGap' BY <2>1, <2>2 DEF Inv, NoGap
  <2> QED BY <1>0, <2>4, <2>5, <2>6, <2>7, <2>8 DEF Inv
<1> QED BY <1>1, <1>2, <1>3, <1>4, <1>5, <1>6, <1>7, <1>8, <1>9, <1>10 DEF Next, Step

LEMMA Invariance == Spec => []Inv
BY InitInv, InvStep, PTL DEF Spec

\* The types of the state; runs of migrate end with exit code 0 or 1.
THEOREM TypeCorrect == Spec => []TypeOK
BY Invariance, PTL DEF Inv

\* No up block of migrate up takes effect twice, however many runners there are.
THEOREM NeverTwice == Spec => []AppliedOnce
<1>1. ASSUME Inv PROVE AppliedOnce
  <2>1. SUFFICES ASSUME tx = {}, NEW f \in dir, Sole(f), Acts("up", f) => Acts("down", f)
                 PROVE  effect[f] <= 1
    BY DEF AppliedOnce
  <2>2. f \in Files /\ effect[f] \in Int BY <1>1 DEF Inv, TypeOK
  <2>3. effect[f] <= Bit(Recorded(f)) BY <1>1, <2>1, <2>2 DEF Inv, EffectOK, Sums
  <2> QED BY <2>2, <2>3 DEF Bit
<1> QED BY <1>1, Invariance, PTL

\* gebweb_schema_migrations tells what the database has been through.
THEOREM TableIsTrue == Spec => []RecordMatches
<1>1. ASSUME Inv PROVE RecordMatches
  <2>1. SUFFICES ASSUME tx = {}, ~mixed, NEW f \in dir, Sole(f), Acts("up", f),
                        Acts("down", f)
                 PROVE  effect[f] = IF Recorded(f) THEN 1 ELSE 0
    BY DEF RecordMatches
  <2>2. f \in Files BY <1>1 DEF Inv, TypeOK
  <2> QED BY <1>1, <2>1, <2>2 DEF Inv, EffectOK, Sums, Bit
<1> QED BY <1>1, Invariance, PTL

\* Versions are applied from the oldest and rolled back from the newest.
THEOREM Contiguous == Spec => []NoGap
BY Invariance, PTL DEF Inv

\* Exit code 0 of migrate up: everything it found is recorded.
THEOREM SuccessIsComplete == Spec => ExitZeroMeansDone
<1> DEFINE Claim(r) ==
      pc[r] = "loop" /\ pc'[r] = "off" /\ cmd[r] = "up" /\ code'[r] = 0 /\ ~mixed
      => \A f \in listed[r] : WithinTarget(r, f) => Recorded(f)'
<1>1. ASSUME Inv, [Next]_vars, NEW r \in Runners PROVE Claim(r)
  <2>0. TypeOK BY <1>1 DEF Inv
  <2>1. SUFFICES ASSUME pc[r] = "loop", pc'[r] = "off", cmd[r] = "up", code'[r] = 0,
                        ~mixed
                 PROVE  \A f \in listed[r] : WithinTarget(r, f) => Recorded(f)'
    OBVIOUS
  <2>2. \A q \in Runners : Exit(q, 1) => q # r BY <2>0, <2>1 DEF Exit, TypeOK
  <2>3. Finish(r)
    <3>1. ASSUME NEW f \in Files, Create(f) \/ Merge(f) PROVE FALSE
      BY <3>1, <2>1 DEF Create, Merge, Arrive, runner
    <3>2. ASSUME NEW q \in Runners, NEW c \in {"up", "down"}, NEW t \in Targets,
                 NEW n \in Steps, Run(q, c, t, n)
          PROVE  FALSE
      BY <3>2, <2>0, <2>1 DEF Run, Goto, TypeOK
    <3>3. ASSUME NEW q \in Runners, Status(q) PROVE FALSE BY <3>3, <2>1 DEF Status
    <3>4. ASSUME NEW q \in Runners, Open(q) \/ List(q) \/ LoadAppliedVersions(q)
          PROVE  FALSE
      BY <3>4, <2>0, <2>1 DEF Open, List, LoadAppliedVersions, Goto, TypeOK
    <3>5. ASSUME NEW q \in Runners, OpenFails(q) \/ ListFails(q) PROVE FALSE
      BY <3>5, <2>0, <2>1, <2>2 DEF OpenFails, ListFails, Exit, TypeOK
    <3>6. ASSUME NEW q \in Runners, Finish(q) PROVE q = r
      BY <3>6, <2>0, <2>1 DEF Finish, Exit, TypeOK
    <3>7. ASSUME NEW q \in Runners, NEW f \in Files, BlockFails(q, f) \/ Rollback(q, f)
          PROVE  FALSE
      <4>1. Exit(q, 1) BY <3>7 DEF BlockFails, Rollback, Stop
      <4> QED BY <4>1, <2>0, <2>1, <2>2 DEF Exit, TypeOK
    <3>8. ASSUME NEW q \in Runners, NEW f \in Files, Exec(q, f) \/ Commit(q, f)
          PROVE  FALSE
      BY <3>8, <2>0, <2>1 DEF Exec, Commit, Goto, TypeOK
    <3>9. ASSUME NEW q \in Runners, Fault(q) PROVE FALSE
      <4>1. Exit(q, 1) BY <3>9 DEF Fault
      <4> QED BY <4>1, <2>0, <2>1, <2>2 DEF Exit, TypeOK
    <3>10. ~UNCHANGED vars BY <2>1 DEF vars, runner
    <3> QED BY <1>1, <3>1, <3>2, <3>3, <3>4, <3>5, <3>6, <3>7, <3>8, <3>9, <3>10
            DEF Next, Step
  <2>4. Alone(r) /\ recorded' = recorded
    BY <1>1, <2>1, <2>3, ByRunner DEF Inv, Finish, db
  <2>5. ASSUME NEW f \in listed[r], WithinTarget(r, f) PROVE Recorded(f)'
    <3>1. f \in done[r] \/ VersionOf[f] \in applied[r]
      BY <2>1, <2>3, <2>5 DEF Finish, Pending, Wanted
    <3> QED BY <3>1, <2>1, <2>4 DEF Alone, Of, Recorded
  <2> QED BY <2>5
<1>2. ASSUME Inv, [Next]_vars PROVE \A r \in Runners : Claim(r) BY <1>1, <1>2
<1> QED BY <1>2, Invariance, PTL DEF ExitZeroMeansDone, Spec

-----------------------------------------------------------------------------
(* Runners implement the log of migrations.                                *)

\* What the log is about does not change.
Unseen == UNCHANGED <<dir, late, recorded, Settled, mixed>>

LEMMA SettledOpen ==
  ASSUME Inv, NEW r \in Runners, NEW f \in Files, <<r, f>> \in tx
  PROVE  Settled = Undone(r, f)
<1>1. tx = {<<r, f>>} BY OneTx
<1>2. (CHOOSE t \in tx : TRUE) = <<r, f>> BY <1>1
<1> QED BY <1>1, <1>2 DEF Settled

\* A step that leaves the database alone leaves what is settled.
LEMMA SettledSame ==
  ASSUME Inv, UNCHANGED <<effect, tx>>, \A q \in Runners : pc[q] = "tx" => cmd'[q] = cmd[q]
  PROVE  Settled' = Settled
<1>1. CASE tx = {} BY <1>1 DEF Settled
<1>2. CASE tx # {}
  <2>0. tx \subseteq Runners \X Files BY DEF Inv, TypeOK
  <2>1. PICK r \in Runners, f \in Files : <<r, f>> \in tx BY <2>0, <1>2
  <2>2. tx = {<<r, f>>} /\ pc[r] = "tx" BY <2>1, OneTx
  <2>3. (CHOOSE t \in tx : TRUE) = <<r, f>> BY <2>2
  <2>4. (CHOOSE t \in tx' : TRUE) = <<r, f>> BY <2>2
  <2>5. Settled = Undone(r, f) /\ Settled' = Undone(r, f)'
    BY <2>2, <2>3, <2>4 DEF Settled
  <2> QED BY <2>2, <2>5, SameUndone
<1> QED BY <1>1, <1>2

LEMMA CommitLogged ==
  ASSUME Inv, NEW r \in Runners, NEW f \in Files, Commit(r, f)
  PROVE  Log!Apply(f) \/ Log!Revert(f)
<1>0. TypeOK /\ cmd[r] \in {"up", "down"} BY DEF Inv, TypeOK
<1>1. <<r, f>> \in tx /\ tx' = {} /\ UNCHANGED <<dir, late, effect, mixed>>
  BY DEF Commit
<1>2. f \in dir
  <2>1. Own(r) /\ IsNext(r, f) BY <1>1, OneTx, ByRunner DEF Inv
  <2> QED BY <2>1 DEF IsNext, Pending, Own
<1>3. Settled = Undone(r, f) /\ Settled' = effect BY <1>1, SettledOpen DEF Settled
<1>4. /\ Settled \in [Files -> Int]
      /\ effect = [Settled EXCEPT ![f] = @ + Delta(r, f)]
  <2> DEFINE d == Delta(r, f)
  <2>1. d \in Int BY DeltaInt
  <2>2. /\ Settled \in [Files -> Int] /\ Settled[f] = effect[f] - d
        /\ \A g \in Files \ {f} : Settled[g] = effect[g]
    BY <1>0, <1>3, UndoneType
  <2> HIDE DEF d
  <2>3. effect \in [Files -> Int] BY <1>0 DEF TypeOK
  <2>4. effect = [Settled EXCEPT ![f] = @ + d] BY <2>1, <2>2, <2>3
  <2> QED BY <2>2, <2>4 DEF d
<1>5. CASE cmd[r] = "up"
  <2>1. VersionOf[f] \notin recorded /\ recorded' = recorded \cup {VersionOf[f]}
    BY <1>5 DEF Commit, Conflict
  <2>2. Log!Through(f, Acting["up"], 1)
    <3>1. Delta(r, f) = IF f \in Acting["up"] THEN 1 ELSE 0
      BY <1>5 DEF Delta, Acts
    <3>2. Settled' = [Settled EXCEPT ![f] = @ + Delta(r, f)] BY <1>3, <1>4
    <3>3. Settled[f] \in Int BY <1>4
    <3>4. CASE f \in Acting["up"] BY <3>1, <3>2, <3>4 DEF Log!Through
    <3>5. CASE f \notin Acting["up"]
      <4>1. Settled[f] + Delta(r, f) = Settled[f] BY <3>1, <3>3, <3>5
      <4> QED BY <3>2, <3>5, <4>1 DEF Log!Through
    <3> QED BY <3>4, <3>5
  <2>3. ~mixed => \A g \in dir \ late :
                     VersionOf[g] < VersionOf[f] => VersionOf[g] \in recorded
    BY <1>1, <1>5, UpOrder DEF Recorded
  <2> QED BY <2>1, <2>2, <2>3, <1>1, <1>2 DEF Log!Apply, Log!Is
<1>6. CASE cmd[r] = "down"
  <2>1. recorded' = recorded \ {VersionOf[f]} BY <1>6 DEF Commit
  <2>2. Log!Through(f, Acting["down"], -1)
    <3>1. Delta(r, f) = IF f \in Acting["down"] THEN -1 ELSE 0
      BY <1>6 DEF Delta, Acts
    <3>2. Settled' = [Settled EXCEPT ![f] = @ + Delta(r, f)] BY <1>3, <1>4
    <3>3. Settled[f] \in Int BY <1>4
    <3>4. CASE f \in Acting["down"] BY <3>1, <3>2, <3>4 DEF Log!Through
    <3>5. CASE f \notin Acting["down"]
      <4>1. Settled[f] + Delta(r, f) = Settled[f] BY <3>1, <3>3, <3>5
      <4> QED BY <3>2, <3>5, <4>1 DEF Log!Through
    <3> QED BY <3>4, <3>5
  <2>3. ~mixed => /\ Sole(f) => VersionOf[f] \in recorded
                  /\ \A g \in dir : VersionOf[f] < VersionOf[g]
                                    => VersionOf[g] \notin recorded
    BY <1>1, <1>6, DownOrder DEF Recorded
  <2>4. VersionOf \in [Files -> Nat] /\ dir \subseteq Files
    BY <1>0, MigrateAssumption DEF TypeOK
  <2>5. \A g \in dir : VersionOf[g] > VersionOf[f] => VersionOf[f] < VersionOf[g]
    BY <2>4
  <2> QED BY <2>1, <2>2, <2>3, <2>5, <1>1, <1>2 DEF Log!Revert, Log!Is, Log!Sole, Sole
<1> QED BY <1>0, <1>5, <1>6

LEMMA LogStep == ASSUME Inv, [Next]_vars PROVE [Log!Next]_(Log!vars)
<1>0. TypeOK BY DEF Inv
<1>1. ASSUME NEW f \in Files, Create(f) \/ Merge(f) PROVE Log!Arrive(f)
  <2>1. f \notin dir /\ Arrive(f) BY <1>1 DEF Create, Merge
  <2>2. Settled' = Settled BY <2>1, SettledSame DEF Arrive, db, runner
  <2>3. late' = late \cup {g \in {f} : \E h \in dir : VersionOf[g] < VersionOf[h]}
    BY <2>1 DEF Arrive
  <2> QED BY <2>1, <2>2, <2>3 DEF Arrive, Log!Arrive, db
<1>2. ASSUME NEW r \in Runners, NEW c \in {"up", "down"}, NEW t \in Targets,
             NEW n \in Steps, Run(r, c, t, n)
      PROVE  Log!Overlap \/ Unseen
  <2>1. UNCHANGED <<dir, late, recorded, effect, tx>> BY <1>2 DEF Run, db
  <2>2. \A q \in Runners : pc[q] = "tx" => cmd'[q] = cmd[q]
    BY <1>0, <1>2 DEF Run, Goto, TypeOK
  <2>3. Settled' = Settled BY <2>1, <2>2, SettledSame
  <2>4. mixed' = mixed \/ mixed' = TRUE
    <3>1. mixed' \in BOOLEAN /\ mixed \in BOOLEAN /\ (mixed => mixed')
      BY <1>0, <1>2, Zenon DEF Run, TypeOK
    <3> QED BY <3>1, Zenon
  <2> QED BY <2>1, <2>3, <2>4 DEF Log!Overlap, Unseen
<1>3. ASSUME NEW r \in Runners,
             Status(r) \/ Open(r) \/ List(r) \/ LoadAppliedVersions(r)
      PROVE  Unseen
  <2>1. UNCHANGED <<dir, late, recorded, effect, tx, mixed, cmd>>
    BY <1>3 DEF Status, Open, List, LoadAppliedVersions, db
  <2> QED BY <2>1, SettledSame DEF Unseen
<1>4. ASSUME NEW r \in Runners, NEW c \in {0, 1}, Exit(r, c), pc[r] # "tx",
             UNCHANGED <<dir, late, recorded, effect, tx, mixed>>
      PROVE  Unseen
  <2>1. \A q \in Runners : pc[q] = "tx" => cmd'[q] = cmd[q]
    BY <1>0, <1>4 DEF Exit, TypeOK
  <2> QED BY <2>1, <1>4, SettledSame DEF Unseen
<1>5. ASSUME NEW r \in Runners, OpenFails(r) \/ ListFails(r) \/ Finish(r) PROVE Unseen
  <2>1. PICK c \in {0, 1} : Exit(r, c) BY <1>5 DEF OpenFails, ListFails, Finish
  <2>2. pc[r] # "tx" /\ UNCHANGED <<dir, late, recorded, effect, tx, mixed>>
    BY <1>5 DEF OpenFails, ListFails, Finish, db
  <2> QED BY <2>1, <2>2, <1>4
<1>6. ASSUME NEW r \in Runners, NEW f \in Files, BlockFails(r, f) PROVE Unseen
  BY <1>6, <1>4 DEF BlockFails, Stop, db
<1>7. ASSUME NEW r \in Runners, NEW f \in Files, Exec(r, f) PROVE Unseen
  <2>1. /\ tx = {} /\ tx' = {<<r, f>>} /\ UNCHANGED <<dir, late, recorded, mixed>>
    BY <1>7 DEF Exec
  <2>2. Settled = effect BY <2>1 DEF Settled
  <2>3. (CHOOSE t \in tx' : TRUE) = <<r, f>> BY <2>1
  <2>4. Settled' = Undone(r, f)' BY <2>1, <2>3 DEF Settled
  <2> QED BY <2>1, <2>2, <2>4, <1>0, <1>7, ExecUndone DEF Unseen
<1>8. ASSUME NEW r \in Runners, NEW f \in Files, Abort(r, f),
             UNCHANGED <<dir, late, mixed>>
      PROVE  Unseen
  BY <1>8, SettledOpen DEF Abort, Unseen, Settled
<1>9. ASSUME NEW r \in Runners, NEW f \in Files, Rollback(r, f) PROVE Unseen
  BY <1>9, <1>8 DEF Rollback
<1>10. ASSUME NEW r \in Runners, Fault(r) PROVE Unseen
  <2>1. CASE pc[r] = "tx" BY <2>1, <1>10, <1>8 DEF Fault
  <2>2. CASE pc[r] # "tx" BY <2>2, <1>10, <1>4 DEF Fault, db
  <2> QED BY <2>1, <2>2
<1>11. ASSUME UNCHANGED vars PROVE Unseen
  <2>1. UNCHANGED <<dir, late, recorded, effect, tx, mixed, cmd>>
    BY <1>11 DEF vars, db, runner
  <2> QED BY <2>1, SettledSame DEF Unseen
<1>12. Log!Next \/ Unseen
  BY <1>1, <1>2, <1>3, <1>5, <1>6, <1>7, <1>9, <1>10, <1>11, CommitLogged
     DEF Next, Step, Log!Next
<1> QED BY <1>12 DEF Unseen, Log!vars

\* Several runners that lock each other out, collide, fail and die do to the
\* database what one careful operator would: whole files, in order, each with
\* its record.
THEOREM RunnersKeepTheLog == Spec => ImplementsLog
<1>1. Init => Log!Init BY DEF Init, Log!Init, Settled
<1>2. Inv /\ [Next]_vars => [Log!Next]_(Log!vars) BY LogStep
<1> QED BY <1>1, <1>2, Invariance, PTL DEF Spec, ImplementsLog, Log!Spec
=============================================================================
