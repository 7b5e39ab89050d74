---------------------------- MODULE IdempotentKey ----------------------------
(***************************************************************************)
(* What @Idempotent promises to the clients that send requests under one   *)
(* Idempotency-Key: the handler runs for one of them at a time and not     *)
(* while the response to another is kept; who comes meanwhile is refused,  *)
(* who comes later is given the response.  A process that dies leaves the  *)
(* key locked, until the record is forgotten.                              *)
(***************************************************************************)
CONSTANTS
  Requests, Fingerprint,
  Nobody

VARIABLES
  phase,      \* of each request: waiting, running, answered or dead
  kept,       \* the request whose response is kept, or Nobody
  locked,     \* is the key locked by the claim of a dead process?
  answer      \* what each client is told

vars == <<phase, kept, locked, answer>>

Init ==
  /\ phase = [r \in Requests |-> "waiting"]
  /\ kept = Nobody
  /\ locked = FALSE
  /\ answer = [r \in Requests |-> [state |-> "none", from |-> Nobody]]

Idle == \A r \in Requests : phase[r] # "running"

Move(r, from, to) == phase[r] = from /\ phase' = [phase EXCEPT ![r] = to]

Answer(r, st, from) ==
  answer' = [answer EXCEPT ![r] = [state |-> st, from |-> from]]

Begin(r) ==
  /\ Move(r, "waiting", "running")
  /\ Idle /\ kept = Nobody /\ ~locked
  /\ UNCHANGED <<kept, locked, answer>>

Succeed(r) ==
  /\ Move(r, "running", "answered")
  /\ kept' = r
  /\ Answer(r, "2xx", r)
  /\ UNCHANGED locked

Fail(r) ==
  /\ Move(r, "running", "answered")
  /\ Answer(r, "error", Nobody)
  /\ UNCHANGED <<kept, locked>>

Die(r) ==
  /\ Move(r, "running", "dead")
  /\ locked' = TRUE
  /\ UNCHANGED <<kept, answer>>

Refuse(r) ==
  /\ Move(r, "waiting", "answered")
  /\ ~Idle \/ locked
  /\ Answer(r, "409", Nobody)
  /\ UNCHANGED <<kept, locked>>

Replay(r) ==
  /\ Move(r, "waiting", "answered")
  /\ kept # Nobody
  /\ IF Fingerprint[kept] = Fingerprint[r] THEN Answer(r, "replayed", kept)
     ELSE Answer(r, "422", Nobody)
  /\ UNCHANGED <<kept, locked>>

\* The record's life ends.
Forget ==
  /\ Idle
  /\ kept' = Nobody /\ locked' = FALSE
  /\ UNCHANGED <<phase, answer>>

Next ==
  \/ \E r \in Requests :
       Begin(r) \/ Succeed(r) \/ Fail(r) \/ Die(r) \/ Refuse(r) \/ Replay(r)
  \/ Forget

Spec == Init /\ [][Next]_vars
=============================================================================
