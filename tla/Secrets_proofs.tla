---------------------------- MODULE Secrets_proofs ----------------------------
(***************************************************************************)
(* Proofs about Secrets, for any number of processes, names, values and    *)
(* keys, and any number of processes that die.                             *)
(***************************************************************************)
EXTENDS Secrets, TLAPS

Maker(p)   == op[p] \in {"init", "force"}
Updater(p) == op[p] \in Updates

\* Which command is where.
Roles ==
  \A p \in Procs :
    /\ pc[p] = "off" => op[p] = "list" /\ vault[p] = Empty
    /\ pc[p] \in {"checkKey", "checkEnc"} => op[p] = "init"
    /\ pc[p] \in {"make", "emptyKey", "writeKey"} => Maker(p)
    /\ pc[p] \in {"resolve", "load"} => ~Maker(p)
    /\ pc[p] = "editor" => op[p] = "edit"
    /\ pc[p] \in {"emptyEnc", "writeEnc"} => Maker(p) \/ Updater(p)
    /\ Maker(p) => vault[p] = Empty

\* Who runs beside whom.
Apart ==
  /\ ~clash => \A p, q \in Procs : p # q /\ Maker(p) => ~Maker(q) /\ ~Updater(q)
  /\ ~overlap => \A p, q \in Procs : p # q /\ Updater(p) => ~Updater(q)

NoneHarmful == \A p \in Procs : ~Harmful(p)
NoneMaking  == \A p \in Procs : ~(Maker(p) /\ Writing(p))

\* Key and vault belong together, now or when the command that writes is through.
Match ==
  /\ NoneMaking /\ keyFile.is # "absent" /\ encFile.is = "whole"
     => encFile.key = keyFile.key
  /\ NoneHarmful /\ keyFile.is # "absent" => encFile.is = "whole"
  /\ \A p \in Procs :
       /\ Maker(p) /\ pc[p] \in {"emptyEnc", "writeEnc"} => keyFile = KeyOf(key[p])
       /\ /\ Updater(p) /\ pc[p] \in {"editor", "emptyEnc", "writeEnc"}
          /\ keyFile.is # "absent"
          => keyFile.key = key[p]

\* The vault holds what was promised, now or when the command is through.
Holds ==
  /\ NoneHarmful => encFile.vault = promised
  /\ \A p \in Procs :
       /\ op[p] = "set" /\ pc[p] \in {"emptyEnc", "writeEnc"}
          => vault[p] = Overlaid(promised, put[p])
       /\ op[p] = "init" /\ pc[p] \in {"make", "emptyKey", "writeKey", "emptyEnc", "writeEnc"}
          => promised = Empty

Blank == encFile.is # "whole" => encFile.vault = Empty

Inv ==
  /\ TypeOK /\ Roles /\ Apart /\ Blank
  /\ ~clash /\ ~cut => Match
  /\ ~clash /\ ~cut /\ ~overlap => Holds

PCs == {"off", "checkKey", "checkEnc", "make", "emptyKey", "writeKey",
        "resolve", "load", "editor", "emptyEnc", "writeEnc"}

LEMMA VaultType ==
  /\ Empty \in Vaults
  /\ Arguments \subseteq Vaults
  /\ \A v, s \in Vaults : Overlaid(v, s) \in Vaults
  BY DEF Empty, Vaults, Arguments, Overlaid

LEMMA InvInit == Init => Inv
  <1> SUFFICES ASSUME Init PROVE Inv
    OBVIOUS
  <1>0. encFile.vault \in Vaults /\ Empty \in Vaults /\ 0 \in EnvKeys /\ MaxCrashes \in Nat
    BY VaultType, SecretsAssumption DEF Init, AbsentVault, Sealed
  <1>1. /\ keyFile \in [is : {"absent", "torn", "whole"}, key : Nat]
        /\ encFile \in [is : {"absent", "torn", "whole"}, key : Nat, vault : Vaults]
        /\ encFile.is # "whole" => encFile.vault = Empty
        /\ keyFile.is # "absent" => encFile.is = "whole" /\ encFile.key = keyFile.key
    BY <1>0 DEF Init, AbsentVault, Absent, KeyOf, Sealed
  <1>2. TypeOK
    <2>1. /\ promised \in Vaults /\ keys \in Nat \ {0} /\ crashes \in 0 .. MaxCrashes
          /\ clash \in BOOLEAN /\ overlap \in BOOLEAN /\ cut \in BOOLEAN
      <3>1. /\ promised = encFile.vault /\ keys = 1 /\ crashes = 0
            /\ clash = FALSE /\ overlap = FALSE /\ cut = FALSE
        BY Zenon DEF Init
      <3>2. promised \in Vaults /\ keys \in Nat \ {0} /\ crashes \in 0 .. MaxCrashes
        BY <1>0, <3>1
      <3>3. clash \in BOOLEAN /\ overlap \in BOOLEAN /\ cut \in BOOLEAN
        BY <3>1, Zenon
      <3> QED
        BY <3>2, <3>3
    <2>2. /\ pc \in [Procs -> PCs] /\ env \in [Procs -> EnvKeys]
          /\ op \in [Procs -> {"init", "force", "set", "edit", "get", "list"}]
          /\ key \in [Procs -> Nat]
      BY <1>0 DEF Init, PCs
    <2>3. put \in [Procs -> Vaults] /\ vault \in [Procs -> Vaults]
      BY <1>0 DEF Init
    <2> QED
      BY <1>1, <2>1, <2>2, <2>3 DEF TypeOK, PCs
  <1>3. \A p \in Procs : pc[p] = "off" /\ op[p] = "list" /\ vault[p] = Empty
    BY DEF Init
  <1>4. Roles /\ Apart
    BY <1>3 DEF Roles, Apart, Maker, Updater, Updates
  <1>5. Match
    BY <1>1, <1>3 DEF Match
  <1>6. Holds
    BY <1>3 DEF Init, Holds
  <1> QED
    BY <1>1, <1>2, <1>4, <1>5, <1>6 DEF Inv, Blank

-----------------------------------------------------------------------------
(* What only concerns the process that takes a step.                       *)

LEMMA ExitEffect ==
  ASSUME TypeOK, NEW p \in Procs, Exit(p)
  PROVE  /\ pc' \in [Procs -> PCs] /\ op' \in [Procs -> {"init", "force", "set", "edit", "get", "list"}]
         /\ env' \in [Procs -> EnvKeys] /\ put' \in [Procs -> Vaults]
         /\ key' \in [Procs -> Nat] /\ vault' \in [Procs -> Vaults]
         /\ pc'[p] = "off" /\ op'[p] = "list" /\ vault'[p] = Empty
         /\ \A q \in Procs \ {p} : /\ pc'[q] = pc[q] /\ op'[q] = op[q]
                                   /\ key'[q] = key[q] /\ vault'[q] = vault[q]
                                   /\ put'[q] = put[q]
  BY VaultType, SecretsAssumption DEF TypeOK, Exit, PCs

LEMMA LeaveStep ==
  ASSUME Inv, NEW p \in Procs, Exit(p), UNCHANGED <<files, promised, ghost>>,
         cut' = (cut \/ Harmful(p)), crashes' \in 0 .. MaxCrashes
  PROVE  Inv'
  <1>0. TypeOK
    BY DEF Inv
  <1>1. /\ keyFile' = keyFile /\ encFile' = encFile /\ keys' = keys
        /\ promised' = promised /\ clash' = clash /\ overlap' = overlap
    BY DEF files, ghost
  <1>2. TypeOK'
    BY <1>0, <1>1, ExitEffect DEF TypeOK, PCs, Harmful, Writing
  <1>3. Roles' /\ Apart' /\ Blank'
    BY <1>0, <1>1, ExitEffect DEF Inv, Roles, Apart, Blank, Maker, Updater, Updates
  <1>4. ASSUME ~cut' PROVE (NoneHarmful' => NoneHarmful) /\ (NoneMaking' => NoneMaking)
    <2>1. ~Harmful(p)
      BY <1>4
    <2>2. ~(Maker(p) /\ Writing(p))
      BY <2>1 DEF Harmful, Maker, Updates
    <2>3. \A q \in Procs \ {p} : /\ Harmful(q)' = Harmful(q)
                                 /\ (Maker(q) /\ Writing(q))' = (Maker(q) /\ Writing(q))
      BY <1>0, ExitEffect DEF Harmful, Maker, Writing
    <2> QED
      BY <2>1, <2>2, <2>3 DEF NoneHarmful, NoneMaking
  <1>5. ASSUME ~clash', ~cut' PROVE Match'
    <2>1. Match /\ ~cut
      BY <1>1, <1>5 DEF Inv
    <2> QED
      BY <1>0, <1>1, <1>4, <1>5, <2>1, ExitEffect DEF Match, Maker, Updater, Updates
  <1>6. ASSUME ~clash', ~cut', ~overlap' PROVE Holds'
    <2>1. Holds /\ ~cut
      BY <1>1, <1>6 DEF Inv
    <2> QED
      BY <1>0, <1>1, <1>4, <1>6, <2>1, ExitEffect DEF Holds
  <1> QED
    BY <1>2, <1>3, <1>5, <1>6 DEF Inv

LEMMA QuitStep ==
  ASSUME Inv, NEW p \in Procs,
         NEW at \in {"checkKey", "checkEnc", "resolve", "load", "editor"}, Quit(p, at)
  PROVE  Inv'
  <1>1. ~Harmful(p)
    BY DEF Quit, Harmful, Writing
  <1>2. crashes' \in 0 .. MaxCrashes
    BY DEF Quit, Inv, TypeOK
  <1>3. cut' = cut /\ cut \in BOOLEAN
    BY DEF Quit, Inv, TypeOK
  <1>4. cut' = (cut \/ Harmful(p))
    BY <1>1, <1>3
  <1> QED
    BY <1>2, <1>4, LeaveStep DEF Quit

\* A step that reads, or does nothing outside of its process.
LEMMA MoveStep ==
  ASSUME Inv, NEW p \in Procs, NEW to \in PCs, NEW k \in Nat, NEW v \in Vaults,
         UNCHANGED <<keyFile, encFile, op, env, put, promised, ghost, cut, crashes>>,
         keys' \in Nat \ {0},
         pc'    = [pc EXCEPT ![p] = to],
         key'   = [key EXCEPT ![p] = k],
         vault' = [vault EXCEPT ![p] = v],
         pc[p] \in {"checkKey", "checkEnc", "make", "resolve", "load", "editor"},
         \/ to = "checkEnc" /\ op[p] = "init" /\ v = Empty
         \/ to \in {"make", "emptyKey"} /\ Maker(p) /\ v = Empty
         \/ to = "load" /\ ~Maker(p)
         \/ to = "editor" /\ op[p] = "edit"
         \/ to = "emptyEnc" /\ Updater(p),
         /\ ~clash /\ ~cut /\ Updater(p) /\ to \in {"editor", "emptyEnc"} /\ keyFile.is # "absent"
         => keyFile.key = k,
         /\ ~clash /\ ~cut /\ ~overlap /\ op[p] = "set" /\ to = "emptyEnc"
         => v = Overlaid(promised, put[p]),
         /\ ~clash /\ ~cut /\ ~overlap /\ op[p] = "init" /\ to \in {"make", "emptyKey"}
         => promised = Empty
  PROVE  Inv'
  <1>0. TypeOK
    BY DEF Inv
  <1>1. /\ keyFile' = keyFile /\ encFile' = encFile /\ op' = op /\ put' = put
        /\ promised' = promised /\ clash' = clash /\ overlap' = overlap /\ cut' = cut
    BY DEF ghost
  <1>2. /\ pc' \in [Procs -> PCs] /\ key' \in [Procs -> Nat] /\ vault' \in [Procs -> Vaults]
        /\ pc'[p] = to /\ key'[p] = k /\ vault'[p] = v
        /\ \A q \in Procs \ {p} : pc'[q] = pc[q] /\ key'[q] = key[q] /\ vault'[q] = vault[q]
    BY <1>0 DEF TypeOK, PCs
  <1>3. TypeOK'
    BY <1>0, <1>1, <1>2 DEF TypeOK, PCs
  <1>4. Roles'
    BY <1>1, <1>2 DEF Inv, Roles, Maker, Updater, Updates
  <1>5. Apart' /\ Blank'
    BY <1>1 DEF Inv, Apart, Blank, Maker, Updater
  <1>6. (NoneHarmful' => NoneHarmful) /\ (NoneMaking' => NoneMaking)
    <2>1. ~Harmful(p) /\ ~Writing(p)
      BY DEF Harmful, Writing
    <2> QED
      BY <1>1, <1>2, <2>1 DEF NoneHarmful, NoneMaking, Harmful, Writing, Maker
  <1>7. ASSUME ~clash', ~cut' PROVE Match'
    <2>1. Match
      BY <1>1, <1>7 DEF Inv
    <2> QED
      BY <1>1, <1>2, <1>6, <1>7, <2>1 DEF Match, Maker, Updater, Updates
  <1>8. ASSUME ~clash', ~cut', ~overlap' PROVE Holds'
    <2>1. Holds
      BY <1>1, <1>8 DEF Inv
    <2> QED
      BY <1>1, <1>2, <1>6, <1>8, <2>1 DEF Holds, Maker, Updater, Updates
  <1> QED
    BY <1>3, <1>4, <1>5, <1>7, <1>8 DEF Inv

LEMMA RunStep ==
  ASSUME Inv, NEW p \in Procs,
         NEW o \in {"init", "force", "set", "edit", "get", "list"}, NEW e \in EnvKeys,
         NEW s \in Arguments, Run(p, o, e, s)
  PROVE  Inv'
  <1> DEFINE to == CASE o = "init" -> "checkKey" [] o = "force" -> "make"
                     [] OTHER -> "resolve"
  <1>0. TypeOK /\ s \in Vaults
    BY VaultType DEF Inv
  <1>1. /\ UNCHANGED <<files, key, vault, promised, cut, crashes>>
        /\ pc[p] = "off" /\ pc' = [pc EXCEPT ![p] = to]
        /\ op' = [op EXCEPT ![p] = o] /\ env' = [env EXCEPT ![p] = e]
        /\ put' = [put EXCEPT ![p] = s]
    BY DEF Run, Goto
  <1>2. /\ clash' = \/ clash
                    \/ o \notin Reads /\ Others(p, {"init", "force"}) # {}
                    \/ o \in {"init", "force"} /\ Others(p, Updates) # {}
        /\ overlap' = (overlap \/ (o \in Updates /\ Others(p, Updates) # {}))
    BY DEF Run
  <1>3. to \in PCs /\ (o = "init" => to = "checkKey") /\ (o = "force" => to = "make")
        /\ (o \notin {"init", "force"} => to = "resolve")
    BY DEF PCs
  <1> HIDE DEF to
  <1>4. /\ pc' \in [Procs -> PCs] /\ env' \in [Procs -> EnvKeys] /\ put' \in [Procs -> Vaults]
        /\ op' \in [Procs -> {"init", "force", "set", "edit", "get", "list"}]
        /\ pc'[p] = to /\ op'[p] = o
        /\ \A q \in Procs \ {p} : pc'[q] = pc[q] /\ op'[q] = op[q] /\ put'[q] = put[q]
    BY <1>0, <1>1, <1>3 DEF TypeOK, PCs
  <1>5. TypeOK'
    <2>1. clash' \in BOOLEAN /\ overlap' \in BOOLEAN
      BY <1>0, <1>2, Zenon DEF TypeOK
    <2> QED
      BY <1>0, <1>1, <1>4, <2>1 DEF TypeOK, PCs, files
  <1>6. /\ keyFile' = keyFile /\ encFile' = encFile /\ key' = key /\ vault' = vault
        /\ promised' = promised /\ cut' = cut
        /\ (clash => clash') /\ (overlap => overlap')
    BY <1>1, <1>2 DEF files
  <1>7. Roles' /\ Blank'
    BY <1>1, <1>3, <1>4, <1>6 DEF Inv, Roles, Blank, Maker, Updater, Updates
  <1>8. Apart'
    <2>1. ASSUME NEW q \in Procs \ {p}, NEW ops, op[q] \in ops, op[q] # "list"
          PROVE  Others(p, ops) # {}
      <3>1. pc[q] # "off"
        BY <2>1 DEF Inv, Roles
      <3> QED
        BY <2>1, <3>1 DEF Others
    <2>2. ASSUME ~clash', NEW q \in Procs \ {p}
          PROVE  /\ o \in {"init", "force"} => ~Maker(q) /\ ~Updater(q)
                 /\ o \in Updates => ~Maker(q)
      <3>1. Maker(q) => op[q] \in {"init", "force"} /\ op[q] # "list"
        BY DEF Maker
      <3>2. Updater(q) => op[q] \in Updates /\ op[q] # "list"
        BY DEF Updater, Updates
      <3> QED
        BY <1>2, <2>1, <2>2, <3>1, <3>2 DEF Reads, Updates
    <2>3. ASSUME ~overlap', NEW q \in Procs \ {p}, o \in Updates
          PROVE  ~Updater(q)
      <3>1. Updater(q) => op[q] \in Updates /\ op[q] # "list"
        BY DEF Updater, Updates
      <3> QED
        BY <1>2, <2>1, <2>3, <3>1
    <2>4. ~clash' => \A q, r \in Procs : q # r /\ Maker(q)' => ~Maker(r)' /\ ~Updater(r)'
      <3> SUFFICES ASSUME ~clash', NEW q \in Procs, NEW r \in Procs, q # r, Maker(q)'
                   PROVE  ~Maker(r)' /\ ~Updater(r)'
        OBVIOUS
      <3>1. CASE q = p
        BY <1>4, <2>2, <3>1 DEF Maker, Updater
      <3>2. CASE r = p
        BY <1>4, <2>2, <3>2 DEF Maker, Updater
      <3>3. CASE q # p /\ r # p
        BY <1>4, <1>6, <3>3 DEF Inv, Apart, Maker, Updater
      <3> QED
        BY <3>1, <3>2, <3>3
    <2>5. ~overlap' => \A q, r \in Procs : q # r /\ Updater(q)' => ~Updater(r)'
      <3> SUFFICES ASSUME ~overlap', NEW q \in Procs, NEW r \in Procs, q # r, Updater(q)'
                   PROVE  ~Updater(r)'
        OBVIOUS
      <3>1. CASE q = p
        BY <1>4, <2>3, <3>1 DEF Updater
      <3>2. CASE r = p
        BY <1>4, <2>3, <3>2 DEF Updater
      <3>3. CASE q # p /\ r # p
        BY <1>4, <1>6, <3>3 DEF Inv, Apart, Updater
      <3> QED
        BY <3>1, <3>2, <3>3
    <2> QED
      BY <2>4, <2>5 DEF Apart
  <1>9. (NoneHarmful' => NoneHarmful) /\ (NoneMaking' => NoneMaking)
    <2>1. ~Harmful(p) /\ ~Writing(p)
      BY <1>1 DEF Harmful, Writing
    <2> QED
      BY <1>4, <2>1 DEF NoneHarmful, NoneMaking, Harmful, Writing, Maker
  <1>10. ASSUME ~clash', ~cut' PROVE Match'
    <2>1. Match
      BY <1>6, <1>10 DEF Inv
    <2> QED
      BY <1>3, <1>4, <1>6, <1>9, <2>1 DEF Match, Maker, Updater, Updates
  <1>11. ASSUME ~clash', ~cut', ~overlap' PROVE Holds'
    <2>1. Holds
      BY <1>6, <1>11 DEF Inv
    <2> QED
      BY <1>3, <1>4, <1>6, <1>9, <2>1 DEF Holds
  <1> QED
    BY <1>5, <1>7, <1>8, <1>10, <1>11 DEF Inv

-----------------------------------------------------------------------------
(* The steps of os.WriteFile.                                              *)

LEMMA WriteStep ==
  ASSUME Inv, NEW p \in Procs, NEW from, NEW to,
         UNCHANGED <<keys, op, env, put, key, vault, promised, ghost, cut, crashes>>,
         pc[p] = from, pc' = [pc EXCEPT ![p] = to],
         \/ /\ from = "emptyKey" /\ to = "writeKey"
            /\ keyFile' = Torn /\ encFile' = encFile
         \/ /\ from = "writeKey" /\ to = "emptyEnc"
            /\ keyFile' = KeyOf(key[p]) /\ encFile' = encFile
         \/ /\ from = "emptyEnc" /\ to = "writeEnc"
            /\ keyFile' = keyFile /\ encFile' = TornVault
  PROVE  Inv'
  <1>0. TypeOK
    BY DEF Inv
  <1>1. /\ clash' = clash /\ overlap' = overlap /\ op' = op /\ put' = put /\ key' = key
        /\ vault' = vault /\ promised' = promised /\ cut' = cut
    BY DEF ghost
  <1>2. /\ pc' \in [Procs -> PCs] /\ pc'[p] = to
        /\ \A q \in Procs \ {p} : pc'[q] = pc[q]
    BY <1>0 DEF TypeOK, PCs
  <1>3. /\ keyFile' \in [is : {"absent", "torn", "whole"}, key : Nat]
        /\ encFile' \in [is : {"absent", "torn", "whole"}, key : Nat, vault : Vaults]
    BY <1>0, VaultType DEF TypeOK, Torn, KeyOf, TornVault
  <1>4. TypeOK'
    BY <1>0, <1>1, <1>2, <1>3 DEF TypeOK, PCs
  <1>5. Blank'
    BY DEF Inv, Blank, TornVault
  <1>6. Roles' /\ Apart'
    BY <1>1, <1>2 DEF Inv, Roles, Apart, Maker, Updater
  <1>7. Maker(p) \/ Updater(p)
    BY DEF Inv, Roles
  <1>8. Harmful(p)'
    BY <1>1, <1>2, <1>7 DEF Inv, Roles, Harmful, Writing, Maker, Updater, Updates
  <1>9. ~NoneHarmful'
    BY <1>8 DEF NoneHarmful
  <1>10. Maker(p) => ~NoneMaking'
    BY <1>1, <1>2 DEF NoneMaking, Maker, Writing
  <1>11. ASSUME ~clash', ~cut' PROVE Match'
    <2>1. Match /\ ~clash
      BY <1>1, <1>11 DEF Inv
    <2>2. \A q \in Procs \ {p} :
            /\ Maker(p) => ~Maker(q) /\ ~Updater(q)
            /\ Updater(p) => ~Maker(q)
      BY <2>1 DEF Inv, Apart
    <2>3. (NoneMaking /\ keyFile.is # "absent" /\ encFile.is = "whole"
             => encFile.key = keyFile.key)'
      <3>1. CASE Maker(p)
        BY <1>10, <3>1
      <3>2. CASE ~Maker(p)
        <4>1. from = "emptyEnc" /\ encFile'.is = "torn"
          BY <3>2 DEF Inv, Roles, TornVault
        <4> QED
          BY <4>1
      <3> QED
        BY <3>1, <3>2
    <2>4. \A q \in Procs :
            (Maker(q) /\ pc[q] \in {"emptyEnc", "writeEnc"} => keyFile = KeyOf(key[q]))'
      <3> SUFFICES ASSUME NEW q \in Procs, Maker(q)', pc'[q] \in {"emptyEnc", "writeEnc"}
                   PROVE  keyFile' = KeyOf(key'[q])
        OBVIOUS
      <3>1. CASE q = p
        BY <1>1, <1>2, <2>1, <3>1 DEF Match, Maker
      <3>2. CASE q # p
        <4>1. Maker(q) /\ ~Maker(p)
          BY <1>1, <1>7, <2>2, <3>2 DEF Maker
        <4>2. keyFile' = keyFile
          BY <4>1 DEF Inv, Roles
        <4> QED
          BY <1>1, <1>2, <2>1, <3>2, <4>1, <4>2 DEF Match
      <3> QED
        BY <3>1, <3>2
    <2>5. \A q \in Procs :
            (Updater(q) /\ pc[q] \in {"editor", "emptyEnc", "writeEnc"}
              /\ keyFile.is # "absent" => keyFile.key = key[q])'
      <3> SUFFICES ASSUME NEW q \in Procs, Updater(q)', keyFile'.is # "absent",
                          pc'[q] \in {"editor", "emptyEnc", "writeEnc"}
                   PROVE  keyFile'.key = key'[q]
        OBVIOUS
      <3>1. Updater(q) /\ ~Maker(p)
        <4>1. Updater(q) => ~Maker(q)
          BY DEF Updater, Maker, Updates
        <4> QED
          BY <1>1, <2>2, <4>1 DEF Updater
      <3>2. from = "emptyEnc" /\ keyFile' = keyFile /\ to = "writeEnc"
        BY <3>1 DEF Inv, Roles
      <3>3. pc[q] \in {"editor", "emptyEnc", "writeEnc"}
        BY <1>2, <3>2
      <3> QED
        BY <1>1, <2>1, <3>1, <3>2, <3>3 DEF Match
    <2> QED
      BY <1>9, <2>3, <2>4, <2>5 DEF Match
  <1>12. ASSUME ~clash', ~cut', ~overlap' PROVE Holds'
    <2>1. Holds
      BY <1>1, <1>12 DEF Inv
    <2>2. \A q \in Procs : op[q] = "set" /\ pc'[q] \in {"emptyEnc", "writeEnc"}
                           => pc[q] \in {"emptyEnc", "writeEnc"}
      BY <1>2 DEF Inv, Roles, Maker
    <2> QED
      BY <1>1, <1>2, <1>9, <2>1, <2>2 DEF Holds
  <1> QED
    BY <1>4, <1>5, <1>6, <1>11, <1>12 DEF Inv

LEMMA SealStep == ASSUME Inv, NEW p \in Procs, WriteEncFile(p) PROVE Inv'
  <1>0. TypeOK
    BY DEF Inv
  <1>1. /\ pc[p] = "writeEnc" /\ Exit(p) /\ encFile' = Sealed(vault[p], key[p])
        /\ keyFile' = keyFile /\ keys' = keys /\ crashes' = crashes
        /\ clash' = clash /\ overlap' = overlap /\ cut' = cut
        /\ promised' = CASE op[p] = "set"  -> Overlaid(promised, put[p])
                         [] op[p] = "init" -> promised
                         [] OTHER          -> vault[p]
    BY DEF WriteEncFile, ghost
  <1>2. vault[p] \in Vaults /\ key[p] \in Nat /\ put[p] \in Vaults /\ promised \in Vaults
    BY <1>0 DEF TypeOK
  <1>3. /\ encFile'.is = "whole" /\ encFile'.key = key[p] /\ encFile'.vault = vault[p]
        /\ encFile' \in [is : {"absent", "torn", "whole"}, key : Nat, vault : Vaults]
    BY <1>1, <1>2 DEF Sealed
  <1>4. promised' \in Vaults
    BY <1>1, <1>2, VaultType
  <1>5. TypeOK'
    BY <1>0, <1>1, <1>3, <1>4, ExitEffect DEF TypeOK, PCs
  <1>6. Roles' /\ Apart' /\ Blank'
    BY <1>0, <1>1, <1>3, ExitEffect DEF Inv, Roles, Apart, Blank, Maker, Updater, Updates
  <1>7. (Maker(p) \/ Updater(p)) /\ ~(Maker(p) /\ Updater(p))
    BY <1>1 DEF Inv, Roles, Maker, Updater, Updates
  <1>8. ASSUME ~clash', ~cut' PROVE Match'
    <2>1. Match
      BY <1>1, <1>8 DEF Inv
    <2>2. keyFile.is # "absent" => key[p] = keyFile.key
      BY <1>1, <1>7, <2>1 DEF Match, KeyOf
    <2> QED
      BY <1>0, <1>1, <1>3, <2>1, <2>2, ExitEffect DEF Match, Maker, Updater, Updates
  <1>9. ASSUME ~clash', ~cut', ~overlap' PROVE Holds'
    <2>1. Holds
      BY <1>1, <1>9 DEF Inv
    <2>2. promised' = vault[p]
      BY <1>1, <2>1 DEF Holds, Inv, Roles, Maker
    <2>3. \A q \in Procs \ {p} : ~Maker(q) /\ (Updater(q) => promised' = promised)
      <3> SUFFICES ASSUME NEW q \in Procs \ {p}
                   PROVE  ~Maker(q) /\ ~Updater(q)
        OBVIOUS
      <3> QED
        BY <1>1, <1>7, <1>9 DEF Inv, Apart
    <2>4. \A q \in Procs \ {p} : op[q] # "set" /\ op[q] # "init"
      BY <1>1, <1>7, <1>9 DEF Inv, Apart, Maker, Updater, Updates
    <2> QED
      BY <1>0, <1>1, <1>3, <2>2, <2>4, ExitEffect DEF Holds
  <1> QED
    BY <1>5, <1>6, <1>8, <1>9 DEF Inv

-----------------------------------------------------------------------------
LEMMA InvStep == Inv /\ [Next]_vars => Inv'
  <1> SUFFICES ASSUME Inv, [Next]_vars PROVE Inv'
    OBVIOUS
  <1>0. TypeOK
    BY DEF Inv
  <1>1. ASSUME NEW p \in Procs,
               NEW o \in {"init", "force", "set", "edit", "get", "list"}, NEW e \in EnvKeys,
               NEW s \in Arguments, Run(p, o, e, s)
        PROVE  Inv'
    BY <1>1, RunStep
  <1>2. ASSUME NEW p \in Procs,
               \/ InitRefuses(p) \/ NoKey(p) \/ PrintSecrets(p) \/ NoVault(p)
               \/ EditorAborts(p)
        PROVE  Inv'
    BY <1>2, QuitStep DEF InitRefuses, NoKey, PrintSecrets, NoVault, EditorAborts
  <1>3. ASSUME NEW p \in Procs, CheckExisting(p) PROVE Inv'
    <2>1. /\ UNCHANGED <<keyFile, encFile, op, env, put, promised, ghost, cut, crashes>>
          /\ keys' \in Nat \ {0}
          /\ key' = [key EXCEPT ![p] = key[p]] /\ vault' = [vault EXCEPT ![p] = vault[p]]
          /\ key[p] \in Nat /\ vault[p] \in Vaults
      BY <1>0, <1>3 DEF CheckExisting, files, TypeOK
    <2>2. op[p] = "init" /\ vault[p] = Empty
      BY <1>3 DEF CheckExisting, Goto, Inv, Roles, Maker
    <2>3. CASE pc[p] = "checkKey"
      <3>1. pc' = [pc EXCEPT ![p] = "checkEnc"] /\ "checkEnc" \in PCs
        BY <1>3, <2>3 DEF CheckExisting, Goto, PCs
      <3> QED
        BY <2>1, <2>2, <2>3, <3>1, MoveStep
    <2>4. CASE pc[p] = "checkEnc"
      <3>1. /\ pc' = [pc EXCEPT ![p] = "make"] /\ "make" \in PCs
            /\ encFile.is = "absent"
        BY <1>3, <2>4 DEF CheckExisting, Goto, PCs, Refuses
      <3>2. ASSUME ~clash, ~cut, ~overlap PROVE promised = Empty
        <4>1. \A q \in Procs : ~Harmful(q)
          <5>1. \A q \in Procs \ {p} : ~Maker(q) /\ ~Updater(q)
            BY <2>2, <3>2 DEF Inv, Apart, Maker
          <5>2. \A q \in Procs \ {p} : ~Harmful(q)
            BY <5>1 DEF Inv, Roles, Harmful, Writing, Updater
          <5> QED
            BY <2>2, <2>4, <5>2 DEF Harmful, Writing, Updates
        <4> QED
          BY <3>1, <3>2, <4>1 DEF Inv, Holds, NoneHarmful, Blank
      <3>3. Maker(p)
        BY <2>2 DEF Maker
      <3> QED
        BY <2>1, <2>2, <2>4, <3>1, <3>2, <3>3, MoveStep
    <2> QED
      BY <1>3, <2>3, <2>4 DEF CheckExisting, Goto
  <1>4. ASSUME NEW p \in Procs, MakeKey(p) PROVE Inv'
    <2>1. /\ UNCHANGED <<keyFile, encFile, op, env, put, promised, ghost, cut, crashes>>
          /\ keys' \in Nat \ {0} /\ pc[p] = "make"
          /\ pc' = [pc EXCEPT ![p] = "emptyKey"] /\ "emptyKey" \in PCs
          /\ key' = [key EXCEPT ![p] = keys + 1] /\ keys + 1 \in Nat
          /\ vault' = [vault EXCEPT ![p] = vault[p]] /\ vault[p] \in Vaults
      BY <1>0, <1>4 DEF MakeKey, Goto, TypeOK, PCs
    <2>2. Maker(p) /\ vault[p] = Empty
      BY <2>1 DEF Inv, Roles
    <2>3. ~clash /\ ~cut /\ ~overlap /\ op[p] = "init" => promised = Empty
      BY <2>1 DEF Inv, Holds
    <2> QED
      BY <2>1, <2>2, <2>3, MoveStep
  <1>5. ASSUME NEW p \in Procs, ResolveSecretsKey(p) PROVE Inv'
    <2>1. /\ UNCHANGED <<keyFile, encFile, op, env, put, promised, ghost, cut, crashes>>
          /\ keys' \in Nat \ {0} /\ pc[p] = "resolve"
          /\ pc' = [pc EXCEPT ![p] = "load"] /\ "load" \in PCs
          /\ key' = [key EXCEPT ![p] = Resolved(p)]
          /\ vault' = [vault EXCEPT ![p] = vault[p]] /\ vault[p] \in Vaults
      BY <1>0, <1>5 DEF ResolveSecretsKey, Goto, files, TypeOK, PCs
    <2>2. Resolved(p) \in Nat
      BY <1>0, SecretsAssumption DEF Resolved, TypeOK
    <2>3. ~Maker(p)
      BY <2>1 DEF Inv, Roles
    <2> QED
      BY <2>1, <2>2, <2>3, MoveStep
  <1>6. ASSUME NEW p \in Procs, LoadVault(p) PROVE Inv'
    <2> DEFINE to == IF op[p] = "edit" THEN "editor" ELSE "emptyEnc"
               v  == Overlaid(encFile.vault, put[p])
    <2>1. /\ UNCHANGED <<keyFile, encFile, op, env, put, promised, ghost, cut, crashes>>
          /\ keys' \in Nat \ {0} /\ pc[p] = "load" /\ pc' = [pc EXCEPT ![p] = to]
          /\ key' = [key EXCEPT ![p] = key[p]] /\ key[p] \in Nat
          /\ vault' = [vault EXCEPT ![p] = v]
          /\ Updater(p) /\ encFile.is = "whole" /\ encFile.key = key[p]
      BY <1>0, <1>6
         DEF LoadVault, Goto, files, TypeOK, PCs, Updater, Loadable, Unseals
    <2>2. to \in PCs /\ v \in Vaults
      BY <1>0, VaultType DEF PCs, TypeOK
    <2>3. \/ to = "editor" /\ op[p] = "edit"
          \/ to = "emptyEnc" /\ Updater(p)
      BY <2>1
    <2>4. ASSUME ~clash PROVE \A q \in Procs : ~Maker(q)
      <3>1. ~Maker(p)
        BY <2>1 DEF Updater, Maker, Updates
      <3> QED
        BY <2>1, <2>4, <3>1 DEF Inv, Apart
    <2>5. ASSUME ~clash, ~cut, keyFile.is # "absent" PROVE keyFile.key = key[p]
      BY <2>1, <2>4, <2>5 DEF Inv, Match, NoneMaking
    <2>6. ASSUME ~clash, ~cut, ~overlap, op[p] = "set" PROVE v = Overlaid(promised, put[p])
      <3>1. \A q \in Procs \ {p} : ~Maker(q) /\ ~Updater(q)
        BY <2>1, <2>4, <2>6 DEF Inv, Apart
      <3>2. \A q \in Procs \ {p} : ~Harmful(q)
        BY <3>1 DEF Inv, Roles, Harmful, Writing, Updater
      <3>3. ~Harmful(p)
        BY <2>1 DEF Harmful, Writing
      <3> QED
        BY <2>6, <3>2, <3>3 DEF Inv, Holds, NoneHarmful
    <2> HIDE DEF to, v
    <2> QED
      BY <2>1, <2>2, <2>3, <2>5, <2>6, MoveStep
  <1>7. ASSUME NEW p \in Procs, Editor(p) PROVE Inv'
    <2>1. PICK v \in Vaults : vault' = [vault EXCEPT ![p] = v]
      BY <1>7 DEF Editor
    <2>2. /\ UNCHANGED <<keyFile, encFile, op, env, put, promised, ghost, cut, crashes>>
          /\ keys' \in Nat \ {0} /\ pc[p] = "editor"
          /\ pc' = [pc EXCEPT ![p] = "emptyEnc"] /\ "emptyEnc" \in PCs
          /\ key' = [key EXCEPT ![p] = key[p]] /\ key[p] \in Nat
      BY <1>0, <1>7 DEF Editor, Goto, files, TypeOK, PCs
    <2>3. op[p] = "edit" /\ Updater(p)
      BY <2>2 DEF Inv, Roles, Updater, Updates
    <2>4. ~clash /\ ~cut /\ keyFile.is # "absent" => keyFile.key = key[p]
      BY <2>2, <2>3 DEF Inv, Match
    <2> QED
      BY <2>1, <2>2, <2>3, <2>4, MoveStep
  <1>8. ASSUME NEW p \in Procs,
               EmptyKeyFile(p) \/ WriteKeyFile(p) \/ EmptyEncFile(p)
        PROVE  Inv'
    BY <1>8, WriteStep DEF EmptyKeyFile, WriteKeyFile, EmptyEncFile, Goto
  <1>9. ASSUME NEW p \in Procs, WriteEncFile(p) PROVE Inv'
    BY <1>9, SealStep
  <1>10. ASSUME NEW p \in Procs, Crash(p) PROVE Inv'
    <2>1. crashes' \in 0 .. MaxCrashes
      BY <1>0, <1>10, SecretsAssumption DEF Crash, TypeOK
    <2> QED
      BY <1>10, <2>1, LeaveStep DEF Crash
  <1>11. CASE UNCHANGED vars
    BY <1>11 DEF vars, files, proc, ghost, Inv, TypeOK, Roles, Apart, Blank, Match, Holds,
       NoneHarmful, NoneMaking, Harmful, Writing, Maker, Updater
  <1> QED
    BY <1>1, <1>2, <1>3, <1>4, <1>5, <1>6, <1>7, <1>8, <1>9, <1>10, <1>11 DEF Next

LEMMA InvAlways == Spec => []Inv
  BY InvInit, InvStep, PTL DEF Spec

\* The state has its type.
THEOREM TypeCorrect == Spec => []TypeOK
  BY InvAlways, PTL DEF Inv

\* The key file opens the vault whenever no command is between its writes.
THEOREM StaysReadable == Spec => []Readable
  <1>1. Inv => Readable
    BY DEF Inv, Match, NoneHarmful, NoneMaking, Readable, Quiet, Unseals, Harmful, Maker, Updates
  <1> QED
    BY <1>1, InvAlways, PTL

\* What the commands that ended well stored is in the vault.
THEOREM StaysDurable == Spec => []Durable
  <1>1. Inv => Durable
    BY DEF Inv, Holds, NoneHarmful, Durable, Quiet
  <1> QED
    BY <1>1, InvAlways, PTL
=============================================================================
