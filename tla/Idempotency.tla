----------------------------- MODULE Idempotency -----------------------------
(***************************************************************************)
(* The @Idempotent flow (src/src/idempotency.gb): requests that carry the  *)
(* same Idempotency-Key for the same method and path, over the in-memory   *)
(* store or the Redis one (src/src/redisbackend.gb).  One record key is    *)
(* modelled: record keys do not interact.                                  *)
(*                                                                         *)
(* Each call of the store is an action.  left is the life a record still   *)
(* has, in ticks; a record at 0 has expired.                               *)
(*                                                                         *)
(* What the flow promises fails in four ways that it allows for, at the    *)
(* lines given with the definitions; exposures remembers which have been.  *)
(***************************************************************************)
EXTENDS Naturals, FiniteSets

CONSTANTS
  Requests,
  Fingerprint,   \* of each request: a hash of what it asks for
  NoRecord,
  Ttl,           \* ttl of the decorator
  Backends,      \* the stores to choose from
  MaxFailures,   \* bound on handlers that fail
  MaxCrashes     \* bound on processes that die while a handler runs

ASSUME IdempotencyAssumption ==
  /\ Ttl \in Nat \ {0}
  /\ NoRecord \notin Requests
  /\ \A r \in Requests, st \in {"in-progress", "completed"} :
       NoRecord # [state |-> st, fp |-> Fingerprint[r], by |-> r]
  /\ Backends \subseteq {"memory", "redis"}
  /\ MaxFailures \in Nat /\ MaxCrashes \in Nat

VARIABLES
  backend,    \* the store of this deployment
  record,     \* what the store holds for the record key
  left,       \* ticks until it expires
  pc,
  answer,     \* what the client is told
  failures, crashes,
  \* a history variable, which no guard reads
  exposures   \* "failed":      a call of the store did
              \* "expired":     the record did, under a request at work
              \* "overwritten": a live record was, by a claim that did not look
              \* "deleted":     a live record was, in place of an expired one

vars == <<backend, record, left, pc, answer, failures, crashes, exposures>>

\* The in-memory store deletes what has expired in a call of its own, after a
\* get; Redis expires records itself, and a call to it that fails answers as if
\* nothing were there ("failing open").
LazyExpiry == backend = "memory"
MayFail == backend = "redis"

NoAnswer == [state |-> "none", from |-> NoRecord]

InProgress(r) == [state |-> "in-progress", fp |-> Fingerprint[r], by |-> r]

\* Bug: the record is written again as it was.
CompletedUnmarked(r) == InProgress(r)

Completed(r) == [state |-> "completed", fp |-> Fingerprint[r], by |-> r]

Init ==
  /\ backend \in Backends
  /\ record = NoRecord
  /\ left = 0
  /\ pc = [r \in Requests |-> "new"]
  /\ answer = [r \in Requests |-> NoAnswer]
  /\ failures = 0 /\ crashes = 0 /\ exposures = {}

\* Live: neither absent nor expired.
Live == record # NoRecord /\ left > 0

Goto(r, from, to) == pc[r] = from /\ pc' = [pc EXCEPT ![r] = to]

Answer(r, st, from) ==
  answer' = [answer EXCEPT ![r] = [state |-> st, from |-> from]]

Put(rec) == record' = rec /\ left' = Ttl
Drop == record' = NoRecord /\ left' = 0

Expose(ways) == exposures' = exposures \cup ways

\* A call without effect.
Failing == MayFail /\ UNCHANGED <<record, left>> /\ Expose({"failed"})

-----------------------------------------------------------------------------
(* applyIdempotency.                                                       *)

\* Bug: only a completed record counts.
FreeUnlessCompleted == ~(Live /\ record.state = "completed")

Free == ~Live

\* putIfAbsent, atomic in both stores.
Claim(r) ==
  /\ Goto(r, "new", "run")
  /\ Free
  /\ Put(InProgress(r))
  /\ UNCHANGED <<backend, answer, failures, crashes, exposures>>

\* The key is taken; or Redis does not answer, whether it has written the claim
\* or not.
ClaimLost(r) ==
  /\ Goto(r, "new", "get")
  /\ \/ ~Free /\ UNCHANGED <<record, left, exposures>>
     \/ Failing
     \/ MayFail /\ Free /\ Put(InProgress(r)) /\ Expose({"failed"})
  /\ UNCHANGED <<backend, answer, failures, crashes>>

\* Bug: any completed record is replayed.
MatchesAny(r) == TRUE

Matches(r) == record.fp = Fingerprint[r]

\* Bug: get takes for expired what putIfAbsent does not.
UnseenEarly == record = NoRecord \/ left <= 1

Unseen == ~Live

\* get finds a record: 409, 422, or a replay of what it holds.
Get(r) ==
  /\ ~Unseen
  /\ Goto(r, "get", "done")
  /\ IF record.state = "in-progress" THEN Answer(r, "409", NoRecord)
     ELSE IF Matches(r) THEN Answer(r, "replayed", record.by)
     ELSE Answer(r, "422", NoRecord)
  /\ UNCHANGED <<backend, record, left, failures, crashes, exposures>>

\* get finds nothing; an expired record is deleted in a second call.
GetNothing(r) ==
  /\ \/ /\ Unseen
        /\ Goto(r, "get", IF LazyExpiry /\ record # NoRecord THEN "expire" ELSE "set")
        /\ UNCHANGED <<record, left, exposures>>
     \/ Failing /\ Goto(r, "get", "set")
  /\ UNCHANGED <<backend, answer, failures, crashes>>

\* The second call deletes whatever is there by now.
Expire(r) ==
  /\ Goto(r, "expire", "set")
  /\ Drop
  /\ Expose(IF Live THEN {"deleted"} ELSE {})
  /\ UNCHANGED <<backend, answer, failures, crashes>>

\* "Treat as fresh claim": the claim is written unconditionally.
Set(r) ==
  /\ Goto(r, "set", "run")
  /\ \/ Put(InProgress(r)) /\ Expose(IF Live THEN {"overwritten"} ELSE {})
     \/ Failing
  /\ UNCHANGED <<backend, answer, failures, crashes>>

-----------------------------------------------------------------------------
(* runAndFinalize.                                                         *)

\* The handler returns a 2xx, or another status or an exception.
Succeed(r) ==
  /\ Goto(r, "run", "complete")
  /\ UNCHANGED <<backend, record, left, answer, failures, crashes, exposures>>

Fail(r) ==
  /\ Goto(r, "run", "release")
  /\ failures < MaxFailures
  /\ failures' = failures + 1
  /\ UNCHANGED <<backend, record, left, answer, crashes, exposures>>

Complete(r) ==
  /\ Goto(r, "complete", "done")
  /\ \/ Put(Completed(r)) /\ UNCHANGED exposures
     \/ Failing
  /\ Answer(r, "2xx", r)
  /\ UNCHANGED <<backend, failures, crashes>>

\* Bug: the claim of a failed handler is left in place.
Released == record' = record /\ left' = left

Removed == Drop

Release(r) ==
  /\ Goto(r, "release", "done")
  /\ \/ Removed /\ UNCHANGED exposures
     \/ Failing
  /\ Answer(r, "error", NoRecord)
  /\ UNCHANGED <<backend, failures, crashes>>

Step(r) ==
  \/ Claim(r) \/ ClaimLost(r) \/ Get(r) \/ GetNothing(r) \/ Expire(r) \/ Set(r)
  \/ Succeed(r) \/ Complete(r) \/ Release(r)

-----------------------------------------------------------------------------
AtWork == {"run", "complete", "release"}

Crash(r) ==
  /\ pc[r] \in AtWork
  /\ crashes < MaxCrashes
  /\ crashes' = crashes + 1
  /\ pc' = [pc EXCEPT ![r] = "gone"]
  /\ UNCHANGED <<backend, record, left, answer, failures, exposures>>

\* A tick of the clock; records expire.
Tick ==
  /\ left > 0
  /\ left' = left - 1
  /\ record' = IF left = 1 /\ ~LazyExpiry THEN NoRecord ELSE record
  /\ Expose(IF left = 1 /\ \E r \in Requests : pc[r] \in AtWork THEN {"expired"} ELSE {})
  /\ UNCHANGED <<backend, pc, answer, failures, crashes>>

Next ==
  \/ \E r \in Requests : Step(r) \/ Fail(r) \/ Crash(r)
  \/ Tick

Spec == Init /\ [][Next]_vars

-----------------------------------------------------------------------------
(* Properties.                                                             *)

PC == {"new", "get", "expire", "set", "done", "gone"} \cup AtWork
Record == [state : {"in-progress", "completed"},
           fp : {Fingerprint[r] : r \in Requests}, by : Requests]
Result == [state : {"none", "2xx", "error", "409", "422", "replayed"},
           from : Requests \cup {NoRecord}]

\* The type of the state.
TypeOK ==
  /\ backend \in Backends
  /\ record \in Record \cup {NoRecord}
  /\ left \in 0 .. Ttl
  /\ pc \in [Requests -> PC]
  /\ answer \in [Requests -> Result]
  /\ failures \in 0 .. MaxFailures /\ crashes \in 0 .. MaxCrashes
  /\ exposures \subseteq {"failed", "expired", "overwritten", "deleted"}

\* 10-caching.md: "Runs at most once per Idempotency-Key value", and "a
\* concurrent duplicate is rejected while the first is still in flight".  Two
\* requests are at work at once, or one while a result is kept, only after one of
\* the exposures: nothing else that the requests of a key, their handlers and the
\* processes under them do brings it about.
NoOverlap ==
  exposures = {} =>
    \A q, r \in Requests :
      pc[r] \in AtWork =>
        /\ pc[q] \in AtWork => q = r
        /\ ~(Live /\ record.state = "completed")

Third ==
  \E p, q, r \in Requests :
    p # q /\ q # r /\ p # r /\ pc[p] # "new" /\ pc[q] # "new" /\ pc[r] # "new"

\* The two calls that do not look what they destroy, the claim of a request that
\* read nothing (idempotency.gb, "treat as fresh claim") and the delete of an
\* expired record: they hit a live record only when three requests carry the key,
\* or after the store failed or the record expired under a request at work.  A
\* request and its retry are safe whatever their handlers and processes do.
ThirdNeeded ==
  exposures \cap {"overwritten", "deleted"} # {} =>
    Third \/ exposures \cap {"failed", "expired"} # {}

\* A claim in the store belongs to a request that is at work, or whose process
\* died, as long as no call of the store has failed: no path of the flow leaves
\* the key locked behind it, though records are overwritten and deleted.
ClaimHasOwner ==
  "failed" \notin exposures /\ record # NoRecord /\ record.state = "in-progress"
    => pc[record.by] \in AtWork \cup {"gone"}

\* What is replayed to a client is the successful response to a request with
\* the same fingerprint, even when the store fails and claims are overrun.
ReplayIsFaithful ==
  \A r \in Requests : answer[r].state = "replayed" =>
    /\ answer[answer[r].from].state = "2xx"
    /\ Fingerprint[answer[r].from] = Fingerprint[r]

-----------------------------------------------------------------------------
(* Refinement of IdempotentKey: the steps of a request between two calls   *)
(* of the store, and records that have expired, are nobody's business.     *)

PhaseAt(p) == CASE p \in AtWork -> "running"
                [] p = "done"   -> "answered"
                [] p = "gone"   -> "dead"
                [] OTHER        -> "waiting"

Phase == [r \in Requests |-> PhaseAt(pc[r])]
Kept == IF Live /\ record.state = "completed" THEN record.by ELSE NoRecord
Locked == Live /\ record.state = "in-progress" /\ pc[record.by] = "gone"

Key == INSTANCE IdempotentKey WITH
  Nobody <- NoRecord, phase <- Phase, kept <- Kept, locked <- Locked

\* Requests that look at the key, find it free, taken or expired, and write to it
\* in calls of their own behave to their clients as if a key were one cell, up to
\* the first exposure: 10-caching.md, "A duplicate request carrying the same
\* client-supplied key replays the original response instead of re-running the
\* handler".
ImplementsKey ==
  Key!Init /\ [][exposures' = {} => [Key!Next]_Key!vars]_vars
=============================================================================
