---------------------------- MODULE MigrationLog ----------------------------
(***************************************************************************)
(* What gebweb migrate promises to whoever deploys: however many instances *)
(* migrate at once and whatever fails, the database goes through whole     *)
(* files, one after the other, and the table of applied versions changes   *)
(* with it.  Files are applied from the oldest and rolled back from the    *)
(* newest, as long as no rollback overlapped another run.                  *)
(***************************************************************************)
EXTENDS Integers

CONSTANTS
  Files, VersionOf,
  Ups, Downs     \* the files whose up, whose down block does something

VARIABLES
  dir,           \* the files there are
  late,          \* of these, the ones that came after a newer one
  recorded,      \* the applied versions
  effect,        \* how often each file is in effect
  mixed          \* did a rollback overlap another run?

vars == <<dir, late, recorded, effect, mixed>>

Is(f) == VersionOf[f] \in recorded

Sole(f) == \A g \in dir : VersionOf[g] = VersionOf[f] => g = f

Init ==
  /\ dir \in SUBSET Files /\ late = {}
  /\ recorded = {}
  /\ effect = [f \in Files |-> 0]
  /\ mixed = FALSE

Arrive(f) ==
  /\ f \notin dir
  /\ dir' = dir \cup {f}
  /\ late' = late \cup {g \in {f} : \E h \in dir : VersionOf[g] < VersionOf[h]}
  /\ UNCHANGED <<recorded, effect, mixed>>

Overlap ==
  /\ mixed' = TRUE
  /\ UNCHANGED <<dir, late, recorded, effect>>

\* The block of f takes effect, if it does anything.
Through(f, files, d) ==
  effect' = [effect EXCEPT ![f] = IF f \in files THEN @ + d ELSE @]

Apply(f) ==
  /\ f \in dir /\ ~Is(f)
  /\ ~mixed => \A g \in dir \ late : VersionOf[g] < VersionOf[f] => Is(g)
  /\ recorded' = recorded \cup {VersionOf[f]}
  /\ Through(f, Ups, 1)
  /\ UNCHANGED <<dir, late, mixed>>

\* Of two files with one version only the record is shared.
Revert(f) ==
  /\ f \in dir
  /\ ~mixed => /\ \A g \in dir : VersionOf[g] > VersionOf[f] => ~Is(g)
               /\ Sole(f) => Is(f)
  /\ recorded' = recorded \ {VersionOf[f]}
  /\ Through(f, Downs, -1)
  /\ UNCHANGED <<dir, late, mixed>>

Next ==
  \/ \E f \in Files : Arrive(f) \/ Apply(f) \/ Revert(f)
  \/ Overlap

Spec == Init /\ [][Next]_vars
=============================================================================
