------------------------------ MODULE Secrets ------------------------------
(***************************************************************************)
(* gebweb secrets (src/cmd/gebweb/secrets.go): commands that run at the    *)
(* same time over one key file and one vault file, and may die.            *)
(*                                                                         *)
(* A file is written by os.WriteFile, which first empties it and then      *)
(* writes.  Of two that write at once the last decides what is read: a key *)
(* has one length, and of a vault only the part up to the first END marker *)
(* counts.  Keys are numbered in the order they are made.                  *)
(***************************************************************************)
EXTENDS Naturals

CONSTANTS
  Procs,        \* processes that run a command
  Names, Values,
  None,         \* the value of a name that is not in the vault
  EnvKeys,      \* what GEBWEB_SECRETS_KEY may hold; 0: it is not set
  MaxKeys,      \* bound on the keys made
  MaxCrashes

ASSUME SecretsAssumption ==
  /\ None \notin Values
  /\ EnvKeys \subseteq Nat /\ 0 \in EnvKeys
  /\ MaxKeys \in Nat /\ MaxCrashes \in Nat

Vaults == [Names -> Values \cup {None}]
Empty  == [n \in Names |-> None]

\* The name and the value of a set, or no arguments.
Arguments == {Empty} \cup {[Empty EXCEPT ![n] = v] : n \in Names, v \in Values}

VARIABLES
  keyFile,      \* config/secrets.key: is it absent, torn or whole, and its key
  encFile,      \* config/secrets.enc, also with what is encrypted in it
  keys,         \* the number of keys made
  pc, op, env,  \* of a process: where it is, its command, its environment
  put,          \* the arguments of set
  key, vault,   \* what it has resolved and loaded
  promised,     \* what the commands that ended well left in the vault
  clash,        \* has an init run beside another init or an update?
  overlap,      \* have two updates of the vault run at once?
  cut,          \* has a command died while it was writing?
  crashes

files == <<keyFile, encFile, keys>>
proc  == <<pc, op, env, put, key, vault>>
ghost == <<clash, overlap>>
vars  == <<files, proc, promised, ghost, cut, crashes>>

Absent    == [is |-> "absent", key |-> 0]
Torn      == [is |-> "torn", key |-> 0]
KeyOf(k)  == [is |-> "whole", key |-> k]

AbsentVault == [is |-> "absent", key |-> 0, vault |-> Empty]
TornVault   == [is |-> "torn", key |-> 0, vault |-> Empty]

\* encryptVault and decryptVault: nothing but the key it was sealed with opens it.
Sealed(v, k)  == [is |-> "whole", key |-> k, vault |-> v]
Unseals(f, k) == f.is = "whole" /\ f.key = k

\* A project without secrets, one with a vault of key 1, or a fresh clone of it:
\* the key file is not committed.
Init ==
  /\ \/ keyFile = Absent /\ encFile = AbsentVault
     \/ \E v \in Vaults : /\ keyFile \in {Absent, KeyOf(1)}
                          /\ encFile = Sealed(v, 1)
  /\ keys = 1
  /\ pc = [p \in Procs |-> "off"]
  /\ op = [p \in Procs |-> "list"] /\ env = [p \in Procs |-> 0]
  /\ put = [p \in Procs |-> Empty]
  /\ key = [p \in Procs |-> 0] /\ vault = [p \in Procs |-> Empty]
  /\ promised = encFile.vault
  /\ clash = FALSE /\ overlap = FALSE /\ cut = FALSE /\ crashes = 0

-----------------------------------------------------------------------------
(* Commands start and end.                                                 *)

Updates == {"set", "edit"}
Reads   == {"get", "list"}
Others(p, ops) == {q \in Procs \ {p} : pc[q] # "off" /\ op[q] \in ops}

Goto(p, from, to) == pc[p] = from /\ pc' = [pc EXCEPT ![p] = to]

Run(p, o, e, s) ==
  /\ Goto(p, "off", CASE o = "init" -> "checkKey" [] o = "force" -> "make"
                      [] OTHER -> "resolve")
  /\ o \in {"init", "force"} => keys < MaxKeys
  /\ op'    = [op EXCEPT ![p] = o]
  /\ env'   = [env EXCEPT ![p] = e]
  /\ put'   = [put EXCEPT ![p] = s]
  /\ (o = "set") = (s # Empty)
  /\ clash' = \/ clash
              \/ o \notin Reads /\ Others(p, {"init", "force"}) # {}
              \/ o \in {"init", "force"} /\ Others(p, Updates) # {}
  /\ overlap' = (overlap \/ (o \in Updates /\ Others(p, Updates) # {}))
  /\ UNCHANGED <<files, key, vault, promised, cut, crashes>>

\* The process ends.
Exit(p) ==
  /\ pc' = [pc EXCEPT ![p] = "off"]
  /\ key' = [key EXCEPT ![p] = 0]
  /\ vault' = [vault EXCEPT ![p] = Empty]
  /\ op'  = [op EXCEPT ![p] = "list"]
  /\ env' = [env EXCEPT ![p] = 0]
  /\ put' = [put EXCEPT ![p] = Empty]

Quit(p, at) ==
  /\ pc[p] = at
  /\ Exit(p)
  /\ UNCHANGED <<files, promised, ghost, cut, crashes>>

-----------------------------------------------------------------------------
(* init                                                                    *)

\* Bug: only the key file is looked for.
RefusesKeyOnly(p) == pc[p] = "checkKey" /\ keyFile.is # "absent"

\* refuseIfExists
Refuses(p) ==
  \/ pc[p] = "checkKey" /\ keyFile.is # "absent"
  \/ pc[p] = "checkEnc" /\ encFile.is # "absent"

CheckExisting(p) ==
  /\ ~Refuses(p)
  /\ \/ Goto(p, "checkKey", "checkEnc")
     \/ Goto(p, "checkEnc", "make")
  /\ UNCHANGED <<files, op, env, put, key, vault, promised, ghost, cut, crashes>>

InitRefuses(p) == Refuses(p) /\ (Quit(p, "checkKey") \/ Quit(p, "checkEnc"))

\* The key is random; the environment's is not looked at.
MakeKey(p) ==
  /\ Goto(p, "make", "emptyKey")
  /\ keys' = keys + 1
  /\ key' = [key EXCEPT ![p] = keys + 1]
  /\ UNCHANGED <<keyFile, encFile, op, env, put, vault, promised, ghost, cut,
                 crashes>>

EmptyKeyFile(p) ==
  /\ Goto(p, "emptyKey", "writeKey")
  /\ keyFile' = Torn
  /\ UNCHANGED <<encFile, keys, op, env, put, key, vault, promised, ghost, cut,
                 crashes>>

WriteKeyFile(p) ==
  /\ Goto(p, "writeKey", "emptyEnc")
  /\ keyFile' = KeyOf(key[p])
  /\ UNCHANGED <<encFile, keys, op, env, put, key, vault, promised, ghost, cut,
                 crashes>>

-----------------------------------------------------------------------------
(* set, edit, get, list                                                    *)

\* resolveSecretsKey: the environment wins.  A torn file is an empty key.
Resolved(p) == IF env[p] # 0 THEN env[p]
               ELSE IF keyFile.is = "whole" THEN keyFile.key ELSE 0

ResolveSecretsKey(p) ==
  /\ Resolved(p) # 0
  /\ Goto(p, "resolve", "load")
  /\ key' = [key EXCEPT ![p] = Resolved(p)]
  /\ UNCHANGED <<files, op, env, put, vault, promised, ghost, cut, crashes>>

NoKey(p) == Resolved(p) = 0 /\ Quit(p, "resolve")

\* Bug: a vault that cannot be read counts as an empty one.
LoadableOrEmpty(p) == encFile.is # "absent"

Loadable(p) == Unseals(encFile, key[p])

\* Bug: set starts from a new map.
OverlaidAnew(v, s) == [n \in {m \in Names : s[m] # None} |-> s[n]]

Overlaid(v, s) == [n \in Names |-> IF s[n] = None THEN v[n] ELSE s[n]]

\* loadVault.  A get or a list then prints what it has and ends.
LoadVault(p) ==
  /\ Loadable(p)
  /\ op[p] \in Updates
  /\ Goto(p, "load", IF op[p] = "edit" THEN "editor" ELSE "emptyEnc")
  /\ vault' = [vault EXCEPT ![p] = Overlaid(encFile.vault, put[p])]
  /\ UNCHANGED <<files, op, env, put, key, promised, ghost, cut, crashes>>

PrintSecrets(p) == Loadable(p) /\ op[p] \in Reads /\ Quit(p, "load")

NoVault(p) == ~Loadable(p) /\ Quit(p, "load")

\* The user edits the temporary file.
Editor(p) ==
  /\ Goto(p, "editor", "emptyEnc")
  /\ \E v \in Vaults : vault' = [vault EXCEPT ![p] = v]
  /\ UNCHANGED <<files, op, env, put, key, promised, ghost, cut, crashes>>

\* The editor fails or leaves something other than a JSON object of strings.
EditorAborts(p) == Quit(p, "editor")

-----------------------------------------------------------------------------
(* saveVault, which init does as well, with an empty vault.                *)

EmptyEncFile(p) ==
  /\ Goto(p, "emptyEnc", "writeEnc")
  /\ encFile' = TornVault
  /\ UNCHANGED <<keyFile, keys, op, env, put, key, vault, promised, ghost, cut,
                 crashes>>

WriteEncFile(p) ==
  /\ pc[p] = "writeEnc"
  /\ Exit(p)
  /\ encFile' = Sealed(vault[p], key[p])
  /\ promised' = CASE op[p] = "set"  -> Overlaid(promised, put[p])
                   [] op[p] = "init" -> promised
                   [] OTHER          -> vault[p]
  /\ UNCHANGED <<keyFile, keys, ghost, cut, crashes>>

\* From the first file it empties until both are written.
Writing(p) == pc[p] \in {"writeKey", "emptyEnc", "writeEnc"}
Harmful(p) == IF op[p] \in Updates THEN pc[p] = "writeEnc" ELSE Writing(p)

Crash(p) ==
  /\ pc[p] # "off" /\ crashes < MaxCrashes
  /\ crashes' = crashes + 1
  /\ cut' = (cut \/ Harmful(p))
  /\ Exit(p)
  /\ UNCHANGED <<files, promised, ghost>>

Next ==
  \E p \in Procs :
    \/ \E o \in {"init", "force", "set", "edit", "get", "list"}, e \in EnvKeys,
          s \in Arguments : Run(p, o, e, s)
    \/ CheckExisting(p) \/ InitRefuses(p) \/ MakeKey(p)
    \/ EmptyKeyFile(p) \/ WriteKeyFile(p)
    \/ ResolveSecretsKey(p) \/ NoKey(p) \/ LoadVault(p) \/ PrintSecrets(p) \/ NoVault(p)
    \/ Editor(p) \/ EditorAborts(p)
    \/ EmptyEncFile(p) \/ WriteEncFile(p)
    \/ Crash(p)

Spec == Init /\ [][Next]_vars

-----------------------------------------------------------------------------
(* Properties.                                                             *)

TypeOK ==
  /\ keyFile \in [is : {"absent", "torn", "whole"}, key : Nat]
  /\ encFile \in [is : {"absent", "torn", "whole"}, key : Nat, vault : Vaults]
  /\ keys \in Nat \ {0}
  /\ pc \in [Procs -> {"off", "checkKey", "checkEnc", "make", "emptyKey", "writeKey",
                       "resolve", "load", "editor", "emptyEnc", "writeEnc"}]
  /\ op \in [Procs -> {"init", "force", "set", "edit", "get", "list"}]
  /\ env \in [Procs -> EnvKeys]
  /\ put \in [Procs -> Vaults]
  /\ key \in [Procs -> Nat] /\ vault \in [Procs -> Vaults]
  /\ promised \in Vaults
  /\ clash \in BOOLEAN /\ overlap \in BOOLEAN /\ cut \in BOOLEAN
  /\ crashes \in 0 .. MaxCrashes

Quiet == ~clash /\ ~cut /\ \A p \in Procs : ~Harmful(p)

\* Whenever no command is between the writes of its files, the key file opens
\* the vault: a key is never replaced without the vault, nor a vault sealed with
\* a key other than the file's, whatever the environment holds, as long as no
\* init ran beside one that writes and none died between its writes.
Readable ==
  Quiet /\ keyFile.is # "absent" => Unseals(encFile, keyFile.key)

\* What the commands that ended well stored is in the vault, unless two updates
\* ran at once: a command that is refused, fails, is given a wrong key, is
\* aborted in the editor or dies before it writes costs nothing.
Durable ==
  Quiet /\ ~overlap => encFile.vault = promised
=============================================================================
