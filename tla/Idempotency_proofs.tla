------------------------- MODULE Idempotency_proofs -------------------------
(***************************************************************************)
(* Proofs about Idempotency, for any number of requests, any fingerprints  *)
(* and any TTL, either store, and wherever a request stands when the       *)
(* record expires.                                                         *)
(***************************************************************************)
EXTENDS Idempotency, TLAPS

USE DEF AtWork, PC, Unseen

Typed ==
  /\ record = NoRecord \/ record \in [state : {"in-progress", "completed"},
                                      fp : {Fingerprint[r] : r \in Requests}, by : Requests]
  /\ pc \in [Requests -> PC]
  /\ answer \in [Requests -> Result]

\* A request is answered in its last step.
Unanswered ==
  \A r \in Requests : pc[r] \notin {"done", "gone"} => answer[r].state = "none"

\* A completed record names a request that the client saw succeed.
Honest ==
  record # NoRecord /\ record.state = "completed" =>
    /\ answer[record.by].state = "2xx"
    /\ Fingerprint[record.by] = record.fp

Inv == Typed /\ Unanswered /\ Honest /\ ReplayIsFaithful

LEMMA InvInit == Init => Inv
  BY DEF Init, Inv, Typed, Unanswered, Honest, ReplayIsFaithful, NoAnswer, Result

\* A step that leaves the answers and the record, or forgets the record.
LEMMA SilentStep ==
  ASSUME Inv, NEW r \in Requests, NEW from, NEW to \in PC, Goto(r, from, to),
         from \notin {"done", "gone"},
         UNCHANGED answer, record' = record \/ record' = NoRecord
  PROVE  Inv'
  <1>1. pc' = [pc EXCEPT ![r] = to] /\ pc[r] = from
    BY DEF Goto
  <1>2. Typed' /\ Unanswered'
    BY <1>1 DEF Inv, Typed, Unanswered
  <1>3. Honest' /\ ReplayIsFaithful'
    BY DEF Inv, Honest, ReplayIsFaithful
  <1> QED
    BY <1>2, <1>3 DEF Inv

\* A request writes its claim, and may not know that it has.
LEMMA ClaimStep ==
  ASSUME Inv, NEW r \in Requests, NEW from \in {"new", "set"}, NEW to \in {"run", "get"},
         Goto(r, from, to), UNCHANGED answer, record' = InProgress(r)
  PROVE  Inv'
  <1>1. pc' = [pc EXCEPT ![r] = to] /\ pc[r] = from
    BY DEF Goto
  <1>2. Typed' /\ Unanswered'
    BY <1>1 DEF Inv, Typed, Unanswered, InProgress
  <1>3. Honest' /\ ReplayIsFaithful'
    BY DEF Inv, Honest, ReplayIsFaithful, InProgress
  <1> QED
    BY <1>2, <1>3 DEF Inv

\* A request is answered and the record stays, goes or takes its response.
LEMMA AnswerStep ==
  ASSUME Inv, NEW r \in Requests, NEW from \in {"get", "complete", "release"},
         Goto(r, from, "done"), NEW st \in {"2xx", "error", "409", "422", "replayed"},
         NEW by \in Requests \cup {NoRecord}, Answer(r, st, by),
         st = "replayed" => /\ by \in Requests
                            /\ answer[by].state = "2xx" /\ Fingerprint[by] = Fingerprint[r],
         \/ record' = record
         \/ record' = NoRecord
         \/ record' = Completed(r) /\ st = "2xx"
  PROVE  Inv'
  <1>1. pc' = [pc EXCEPT ![r] = "done"] /\ pc[r] = from
    BY DEF Goto
  <1>2. answer' = [answer EXCEPT ![r] = [state |-> st, from |-> by]]
    BY DEF Answer
  <1>3. answer[r].state = "none"
    BY <1>1 DEF Inv, Unanswered
  <1>4. Typed'
    <2>1. pc' \in [Requests -> PC]
      BY <1>1 DEF Inv, Typed
    <2>2. answer' \in [Requests -> Result]
      BY <1>2 DEF Inv, Typed, Result
    <2> QED
      BY <2>1, <2>2 DEF Inv, Typed, Completed
  <1>5. Unanswered'
    BY <1>1, <1>2 DEF Inv, Typed, Unanswered
  <1>6. \A q \in Requests : answer[q].state = "2xx" => answer'[q] = answer[q]
    BY <1>2, <1>3 DEF Inv, Typed
  <1>7. answer'[r] = [state |-> st, from |-> by]
    BY <1>2 DEF Inv, Typed
  <1>8. Honest'
    <2>1. CASE record' = record
      BY <1>6, <2>1 DEF Inv, Typed, Honest
    <2>2. CASE record' = NoRecord
      BY <2>2 DEF Honest
    <2>3. CASE record' = Completed(r) /\ st = "2xx"
      BY <1>7, <2>3 DEF Honest, Completed
    <2> QED
      BY <2>1, <2>2, <2>3
  <1>9. ReplayIsFaithful'
    <2> SUFFICES ASSUME NEW q \in Requests, answer'[q].state = "replayed"
                 PROVE  /\ answer'[answer'[q].from].state = "2xx"
                        /\ Fingerprint[answer'[q].from] = Fingerprint[q]
      BY DEF ReplayIsFaithful
    <2>1. CASE q = r
      BY <1>6, <1>7, <2>1
    <2>2. CASE q # r
      <3>1. answer'[q] = answer[q]
        BY <1>2, <2>2 DEF Inv, Typed
      <3>2. answer[answer[q].from].state = "2xx"
            /\ Fingerprint[answer[q].from] = Fingerprint[q]
        BY <3>1 DEF Inv, ReplayIsFaithful
      <3>3. answer'[answer[q].from].state = "2xx"
        BY <1>2, <1>3, <3>2 DEF Inv, Typed
      <3> QED
        BY <3>1, <3>2, <3>3
    <2> QED
      BY <2>1, <2>2
  <1> QED
    BY <1>4, <1>5, <1>8, <1>9 DEF Inv

LEMMA InvStep == Inv /\ [Next]_vars => Inv'
  <1> SUFFICES ASSUME Inv PROVE [Next]_vars => Inv'
    OBVIOUS
  <1>1. ASSUME NEW r \in Requests, Claim(r) PROVE Inv'
    BY <1>1, ClaimStep DEF Claim, Put
  <1>2. ASSUME NEW r \in Requests, ClaimLost(r) PROVE Inv'
    <2>1. Goto(r, "new", "get") /\ UNCHANGED answer
      BY <1>2 DEF ClaimLost
    <2>2. CASE UNCHANGED record
      BY <2>1, <2>2, SilentStep
    <2>3. CASE record' = InProgress(r)
      BY <2>1, <2>3, ClaimStep
    <2> QED
      BY <1>2, <2>2, <2>3 DEF ClaimLost, Failing, Put
  <1>11. ASSUME NEW r \in Requests, GetNothing(r) \/ Succeed(r) \/ Fail(r)
         PROVE Inv'
    <2>1. \E from \in {"get", "run"}, to \in PC : Goto(r, from, to)
      BY <1>11 DEF GetNothing, Succeed, Fail
    <2>2. UNCHANGED <<answer, record>>
      BY <1>11 DEF GetNothing, Succeed, Fail, Failing
    <2> QED
      BY <2>1, <2>2, SilentStep
  <1>3. ASSUME NEW r \in Requests, Get(r) PROVE Inv'
    <2>1. record # NoRecord /\ record.by \in Requests
      BY <1>3 DEF Get, Live, Inv, Typed
    <2>2. record.state = "completed" /\ Matches(r) =>
            answer[record.by].state = "2xx" /\ Fingerprint[record.by] = Fingerprint[r]
      BY <2>1 DEF Inv, Honest, Matches
    <2>3. record.state # "in-progress" => record.state = "completed"
      BY <2>1 DEF Inv, Typed
    <2>4. Goto(r, "get", "done") /\ record' = record
      BY <1>3 DEF Get
    <2>5. CASE record.state = "in-progress"
      BY <1>3, <2>4, <2>5, AnswerStep DEF Get
    <2>6. CASE record.state # "in-progress" /\ Matches(r)
      <3>1. Answer(r, "replayed", record.by)
        BY <1>3, <2>6 DEF Get
      <3> QED
        BY <2>1, <2>2, <2>3, <2>4, <2>6, <3>1, AnswerStep
    <2>7. CASE record.state # "in-progress" /\ ~Matches(r)
      BY <1>3, <2>4, <2>7, AnswerStep DEF Get
    <2> QED
      BY <2>5, <2>6, <2>7
  <1>4. ASSUME NEW r \in Requests, Expire(r) PROVE Inv'
    BY <1>4, SilentStep DEF Expire, Drop
  <1>5. ASSUME NEW r \in Requests, Set(r) PROVE Inv'
    <2>1. Goto(r, "set", "run") /\ UNCHANGED answer
      BY <1>5 DEF Set
    <2>2. CASE UNCHANGED record
      BY <2>1, <2>2, SilentStep
    <2>3. CASE record' = InProgress(r)
      BY <2>1, <2>3, ClaimStep
    <2> QED
      BY <1>5, <2>2, <2>3 DEF Set, Failing, Put
  <1>6. ASSUME NEW r \in Requests, Complete(r) PROVE Inv'
    BY <1>6, AnswerStep DEF Complete, Put, Failing
  <1>7. ASSUME NEW r \in Requests, Release(r) PROVE Inv'
    BY <1>7, AnswerStep DEF Release, Removed, Drop, Failing
  <1>8. ASSUME NEW r \in Requests, Crash(r) PROVE Inv'
    <2>1. Goto(r, pc[r], "gone") /\ pc[r] \notin {"done", "gone"}
      BY <1>8 DEF Crash, Goto
    <2>2. UNCHANGED <<answer, record>>
      BY <1>8 DEF Crash
    <2> QED
      BY <2>1, <2>2, SilentStep
  <1>9. ASSUME Tick PROVE Inv'
    BY <1>9 DEF Tick, Inv, Typed, Unanswered, Honest, ReplayIsFaithful
  <1>10. ASSUME UNCHANGED vars PROVE Inv'
    BY <1>10 DEF vars, Inv, Typed, Unanswered, Honest, ReplayIsFaithful
  <1> QED
    BY <1>1, <1>2, <1>3, <1>4, <1>5, <1>6, <1>7, <1>8, <1>9, <1>10, <1>11 DEF Next, Step

\* A replayed response is the successful response to a request with the same
\* fingerprint, whatever fails, dies or expires.
THEOREM FaithfulReplay == Spec => []ReplayIsFaithful
  <1>1. Inv => ReplayIsFaithful
    BY DEF Inv
  <1> QED
    BY <1>1, InvInit, InvStep, PTL DEF Spec

-----------------------------------------------------------------------------
(* The exposures.                                                          *)

\* Nothing that has happened is undone.
LEMMA ExposuresGrow == [Next]_vars => exposures \subseteq exposures'
  BY DEF Next, Step, vars, Claim, ClaimLost, Get, GetNothing, Expire, Set, Succeed,
         Complete, Release, Fail, Crash, Tick, Failing, Expose

\* As long as the store has not failed, a claim in the store belongs to a request
\* that is at work or whose process died.
THEOREM NoAbandonedClaim == Spec => []ClaimHasOwner
  <1>1. Init => ClaimHasOwner
    BY DEF Init, ClaimHasOwner
  <1>2. ASSUME Inv, ClaimHasOwner, [Next]_vars PROVE ClaimHasOwner'
    <2> SUFFICES ASSUME "failed" \notin exposures' PROVE ClaimHasOwner'
      BY DEF ClaimHasOwner
    <2>0. pc \in [Requests -> PC] /\ ~Failing /\ "failed" \notin exposures
      BY <1>2, ExposuresGrow DEF Inv, Typed, Failing, Expose
    <2>1. ASSUME NEW r \in Requests, Claim(r) \/ Set(r) PROVE ClaimHasOwner'
      <3>1. record' = InProgress(r)
        BY <2>0, <2>1 DEF Claim, Set, Put
      <3>2. pc'[r] = "run"
        BY <2>0, <2>1 DEF Claim, Set, Goto
      <3> QED
        BY <3>1, <3>2 DEF ClaimHasOwner, InProgress
    <2>2. ASSUME NEW r \in Requests, Complete(r) PROVE ClaimHasOwner'
      BY <2>0, <2>2 DEF Complete, Put, Completed, ClaimHasOwner
    <2>3. ASSUME NEW r \in Requests, Release(r) \/ Expire(r) PROVE ClaimHasOwner'
      BY <2>0, <2>3 DEF Release, Removed, Expire, Drop, ClaimHasOwner
    <2>4. ASSUME NEW r \in Requests, NEW from, NEW to \in PC, Goto(r, from, to),
                 from \in AtWork => to \in AtWork \cup {"gone"}, from # "gone",
                 UNCHANGED record
          PROVE ClaimHasOwner'
      <3>1. \A q \in Requests : pc[q] \in AtWork \cup {"gone"} =>
              pc'[q] \in AtWork \cup {"gone"}
        BY <2>0, <2>4 DEF Goto
      <3>2. record # NoRecord => record.by \in Requests
        BY <1>2 DEF Inv, Typed
      <3> QED
        BY <1>2, <2>0, <2>4, <3>1, <3>2 DEF ClaimHasOwner
    <2>5. ASSUME NEW r \in Requests, ClaimLost(r) \/ Get(r) \/ GetNothing(r)
          PROVE ClaimHasOwner'
      <3>1. UNCHANGED record
        BY <2>0, <2>5 DEF ClaimLost, Get, GetNothing, Expose
      <3> QED
        BY <2>4, <2>5, <3>1 DEF ClaimLost, Get, GetNothing
    <2>6. ASSUME NEW r \in Requests, Succeed(r) \/ Fail(r) PROVE ClaimHasOwner'
      BY <2>4, <2>6 DEF Succeed, Fail
    <2>7. ASSUME NEW r \in Requests, Crash(r) PROVE ClaimHasOwner'
      <3>1. Goto(r, pc[r], "gone") /\ pc[r] # "gone" /\ record' = record
        BY <2>7 DEF Crash, Goto
      <3> QED
        BY <2>4, <3>1
    <2>8. ASSUME Tick PROVE ClaimHasOwner'
      BY <1>2, <2>0, <2>8 DEF Tick, ClaimHasOwner
    <2>9. ASSUME UNCHANGED vars PROVE ClaimHasOwner'
      BY <1>2, <2>9 DEF vars, ClaimHasOwner
    <2> QED
      BY <1>2, <2>1, <2>2, <2>3, <2>5, <2>6, <2>7, <2>8, <2>9 DEF Next, Step
  <1> QED
    BY <1>1, <1>2, InvInit, InvStep, PTL DEF Spec

-----------------------------------------------------------------------------
\* The types of the state.
THEOREM TypeCorrect == Spec => []TypeOK
  <1> DEFINE Ways == {"failed", "expired", "overwritten", "deleted"}
             Rest == /\ left \in 0 .. Ttl /\ failures \in 0 .. MaxFailures
                     /\ crashes \in 0 .. MaxCrashes /\ backend \in Backends
                     /\ exposures \subseteq Ways
  <1>1. Init => Rest
    <2>1. 0 \in 0 .. Ttl /\ 0 \in 0 .. MaxFailures /\ 0 \in 0 .. MaxCrashes
      BY IdempotencyAssumption
    <2> QED
      BY <2>1 DEF Init
  <1>2. ASSUME Rest, [Next]_vars PROVE Rest'
    <2>0. /\ 0 \in 0 .. Ttl /\ Ttl \in 0 .. Ttl
          /\ left > 0 => left - 1 \in 0 .. Ttl
          /\ failures < MaxFailures => failures + 1 \in 0 .. MaxFailures
          /\ crashes < MaxCrashes => crashes + 1 \in 0 .. MaxCrashes
      BY <1>2, IdempotencyAssumption
    <2>1. left' \in {left, 0, Ttl} \/ (left > 0 /\ left' = left - 1)
      BY <1>2 DEF Next, Step, vars, Claim, ClaimLost, Get, GetNothing, Expire, Set, Succeed,
                  Complete, Release, Fail, Crash, Tick, Put, Drop, Removed, Failing
    <2>2. \/ failures' = failures
          \/ failures < MaxFailures /\ failures' = failures + 1
      BY <1>2 DEF Next, Step, vars, Claim, ClaimLost, Get, GetNothing, Expire, Set, Succeed,
                  Complete, Release, Fail, Crash, Tick
    <2>3. crashes' = crashes \/ (crashes < MaxCrashes /\ crashes' = crashes + 1)
      BY <1>2 DEF Next, Step, vars, Claim, ClaimLost, Get, GetNothing, Expire, Set, Succeed,
                  Complete, Release, Fail, Crash, Tick
    <2>4. backend' = backend
      BY <1>2 DEF Next, Step, vars, Claim, ClaimLost, Get, GetNothing, Expire, Set, Succeed,
                  Complete, Release, Fail, Crash, Tick
    <2>5. exposures' \subseteq exposures \cup Ways
      BY <1>2 DEF Next, Step, vars, Claim, ClaimLost, Get, GetNothing, Expire, Set, Succeed,
                  Complete, Release, Fail, Crash, Tick, Failing, Expose
    <2> QED
      BY <1>2, <2>0, <2>1, <2>2, <2>3, <2>4, <2>5
  <1>3. Inv /\ Rest => TypeOK
    BY DEF Inv, Typed, TypeOK, Record
  <1> QED
    BY <1>1, <1>2, <1>3, InvInit, InvStep, PTL DEF Spec

-----------------------------------------------------------------------------
(* One at work.  Up to the first exposure the claim of the request at work *)
(* is in the store, alive.                                                 *)

Calm == exposures = {}

Sole == \A r \in Requests : pc[r] \in AtWork => Live /\ record = InProgress(r)

\* What a step that exposes nothing tells of the state before.
LEMMA CalmStep ==
  ASSUME Calm'
  PROVE  /\ ~Failing
         /\ \A r \in Requests : Set(r) => ~Live /\ Put(InProgress(r))
         /\ \A r \in Requests : Expire(r) => ~Live
         /\ \A r \in Requests : ClaimLost(r) => Live /\ UNCHANGED <<record, left>>
         /\ Tick /\ left = 1 => \A r \in Requests : pc[r] \notin AtWork
  <1>1. \A ways : Expose(ways) => ways = {}
    BY DEF Calm, Expose
  <1>2. ~Failing
    BY <1>1 DEF Failing
  <1> QED
    BY <1>1, <1>2 DEF Set, Expire, ClaimLost, Tick, Free

LEMMA SoleStep ==
  ASSUME Inv, TypeOK, Sole, Calm', [Next]_vars
  PROVE  Sole'
  <1>0. /\ pc \in [Requests -> PC] /\ left \in Nat /\ Ttl \in Nat \ {0} /\ ~Failing
        /\ \A r \in Requests : InProgress(r) # NoRecord /\ InProgress(r).by = r
    BY IdempotencyAssumption, CalmStep DEF TypeOK, InProgress
  <1>1. ASSUME NEW r \in Requests, Claim(r) \/ Set(r) PROVE Sole'
    <2>1. /\ record' = InProgress(r) /\ left' = Ttl /\ ~Live
          /\ pc' = [pc EXCEPT ![r] = "run"]
      BY <1>1, CalmStep DEF Claim, Set, Goto, Put, Free
    <2>2. \A q \in Requests : pc[q] \notin AtWork
      BY <2>1 DEF Sole
    <2> QED
      BY <1>0, <2>1, <2>2 DEF Sole, Live
  <1>2. ASSUME NEW r \in Requests,
               ClaimLost(r) \/ Get(r) \/ GetNothing(r) \/ Succeed(r) \/ Fail(r) \/ Crash(r)
        PROVE  Sole'
    <2>1. UNCHANGED <<record, left>>
      BY <1>0, <1>2, CalmStep DEF Get, GetNothing, Succeed, Fail, Crash
    <2>2. \A q \in Requests : pc'[q] \in AtWork => pc[q] \in AtWork
      BY <1>0, <1>2 DEF ClaimLost, Get, GetNothing, Succeed, Fail, Crash, Goto
    <2> QED
      BY <2>1, <2>2 DEF Sole, Live
  <1>3. ASSUME NEW r \in Requests, Expire(r) PROVE Sole'
    <2>1. ~Live /\ pc' = [pc EXCEPT ![r] = "set"]
      BY <1>3, CalmStep DEF Expire, Goto
    <2> QED
      BY <1>0, <2>1 DEF Sole
  <1>4. ASSUME NEW r \in Requests, Complete(r) \/ Release(r) PROVE Sole'
    <2>1. pc[r] \in AtWork /\ pc' = [pc EXCEPT ![r] = "done"]
      BY <1>4 DEF Complete, Release, Goto
    <2>2. \A q \in Requests : pc[q] \in AtWork => q = r
      BY <1>0, <2>1 DEF Sole
    <2> QED
      BY <1>0, <2>1, <2>2 DEF Sole
  <1>5. ASSUME Tick PROVE Sole'
    <2>1. CASE left = 1
      BY <1>5, <2>1, CalmStep DEF Tick, Sole
    <2>2. CASE left # 1
      BY <1>0, <1>5, <2>2 DEF Tick, Sole, Live
    <2> QED
      BY <2>1, <2>2
  <1>6. CASE UNCHANGED vars
    BY <1>6 DEF vars, Sole, Live
  <1> QED
    BY <1>1, <1>2, <1>3, <1>4, <1>5, <1>6 DEF Next, Step

LEMMA SoleAlways == Spec => [](Calm => Sole)
  <1>1. Init => Sole
    BY DEF Init, Sole
  <1>2. Inv /\ TypeOK /\ (Calm => Sole) /\ [Next]_vars => (Calm => Sole)'
    BY SoleStep, ExposuresGrow DEF Calm
  <1> QED
    BY <1>1, <1>2, InvInit, InvStep, TypeCorrect, PTL DEF Spec

\* However many requests carry one key, whatever their handlers return and whoever
\* dies: before the first exposure one is at work at a time, and none while a
\* result is kept.
THEOREM OneAtWork == Spec => []NoOverlap
  <1>1. (Calm => Sole) => NoOverlap
    BY DEF Calm, Sole, NoOverlap, InProgress
  <1> QED
    BY <1>1, SoleAlways, PTL

-----------------------------------------------------------------------------
(* A request and one duplicate.  One of them has claimed the key before    *)
(* the other finds it taken, and is through before the other finds it gone *)
(* unless the record expired under it; so the other destroys nothing.      *)

Arrived(r) == pc[r] # "new"

Quiet == ~Third /\ exposures \cap {"failed", "expired"} = {}

Through == {"new", "done", "gone"}

Pair ==
  /\ Sole
  /\ \A q, r \in Requests :
       q # r /\ pc[q] \in {"get", "expire", "set"} => pc[r] \in AtWork \cup Through
  /\ \A q, r \in Requests :
       q # r /\ pc[q] \in {"expire", "set"} => pc[r] \in Through
  /\ \A q \in Requests : pc[q] \in {"get", "expire", "set"} =>
       \E r \in Requests : q # r /\ Arrived(r)
  /\ \A r \in Requests : pc[r] \in {"expire", "set"} => ~Live
  /\ record # NoRecord => pc[record.by] \in AtWork \cup {"done", "gone"}

LEMMA QuietStep ==
  ASSUME TypeOK, [Next]_vars, Quiet'
  PROVE  Quiet
  <1>1. \A r \in Requests : Arrived(r) => Arrived(r)'
    BY DEF Next, Step, vars, Claim, ClaimLost, Get, GetNothing, Expire, Set, Succeed,
           Complete, Release, Fail, Crash, Tick, Goto, TypeOK, Arrived
  <1>2. Third => Third'
    BY <1>1 DEF Third, Arrived
  <1> QED
    BY <1>2, ExposuresGrow DEF Quiet

\* In a pair a step destroys no live record.
LEMMA PairCalm ==
  ASSUME Pair, Calm, Quiet', [Next]_vars
  PROVE  Calm'
  <1>1. ~Failing /\ \A ways : Expose(ways) => ways \cap {"failed", "expired"} = {}
    BY DEF Quiet, Failing, Expose
  <1>2. ASSUME NEW r \in Requests, Set(r) \/ Expire(r) PROVE Calm'
    <2>1. ~Live
      BY <1>2 DEF Set, Expire, Goto, Pair
    <2> QED
      BY <1>1, <1>2, <2>1 DEF Set, Expire, Expose, Calm
  <1>3. ASSUME NEW r \in Requests,
               \/ Claim(r) \/ ClaimLost(r) \/ Get(r) \/ GetNothing(r)
               \/ Succeed(r) \/ Complete(r) \/ Release(r) \/ Fail(r) \/ Crash(r)
        PROVE  Calm'
    BY <1>1, <1>3 DEF Claim, ClaimLost, Get, GetNothing, Succeed, Complete, Release, Fail,
                      Crash, Calm
  <1>4. ASSUME Tick PROVE Calm'
    BY <1>1, <1>4 DEF Tick, Expose, Calm
  <1>5. CASE UNCHANGED vars
    BY <1>5 DEF vars, Calm
  <1> QED
    BY <1>2, <1>3, <1>4, <1>5 DEF Next, Step

LEMMA PairStep ==
  ASSUME Inv, TypeOK, Pair, Calm', Quiet', [Next]_vars
  PROVE  Pair'
  <1>0. /\ pc \in [Requests -> PC] /\ left \in Nat /\ Ttl \in Nat \ {0} /\ ~Failing
        /\ record # NoRecord => record.by \in Requests
        /\ \A r \in Requests : InProgress(r) # NoRecord /\ Completed(r) # NoRecord
        /\ \A r \in Requests : InProgress(r).by = r /\ Completed(r).by = r
    BY IdempotencyAssumption, CalmStep DEF Inv, Typed, TypeOK, InProgress, Completed
  <1>s. Sole'
    BY SoleStep DEF Pair
  <1>1. ASSUME NEW r \in Requests, Claim(r) PROVE Pair'
    <2>1. /\ record' = InProgress(r) /\ left' = Ttl /\ ~Live
          /\ pc[r] = "new" /\ pc' = [pc EXCEPT ![r] = "run"]
      BY <1>1 DEF Claim, Goto, Put, Free
    <2>2. \A q \in Requests : pc[q] \notin AtWork
      BY <2>1 DEF Pair, Sole
    <2>3. \A q \in Requests : pc[q] \notin {"get", "expire", "set"}
      <3> SUFFICES ASSUME NEW q \in Requests, pc[q] \in {"get", "expire", "set"}
                   PROVE  Third'
        BY DEF Quiet
      <3>1. PICK p \in Requests : q # p /\ Arrived(p)
        BY DEF Pair
      <3>2. pc'[p] # "new" /\ pc'[q] # "new" /\ pc'[r] # "new" /\ p # r /\ q # r
        BY <1>0, <2>1, <3>1 DEF Arrived
      <3> QED
        BY <3>1, <3>2 DEF Third
    <2> QED
      BY <1>0, <1>s, <2>1, <2>2, <2>3 DEF Pair, Live, Through, Arrived
  <1>2. ASSUME NEW r \in Requests, ClaimLost(r) PROVE Pair'
    <2>1. /\ Live /\ pc[r] = "new" /\ pc' = [pc EXCEPT ![r] = "get"]
          /\ UNCHANGED <<record, left>>
      BY <1>2, CalmStep DEF ClaimLost, Goto
    <2> DEFINE o == record.by
    <2>2. o \in Requests /\ pc[o] \in AtWork \cup {"done", "gone"} /\ o # r
      BY <1>0, <2>1 DEF Pair, Live
    <2>3. \A q \in Requests : q # r /\ q # o => pc[q] = "new"
      <3> SUFFICES ASSUME NEW q \in Requests, q # r, q # o, pc[q] # "new"
                   PROVE  Third'
        BY DEF Quiet
      <3>1. pc'[q] # "new" /\ pc'[r] # "new" /\ pc'[o] # "new"
        BY <1>0, <2>1, <2>2
      <3> QED
        BY <2>2, <3>1 DEF Third
    <2> HIDE DEF o
    <2>4. \A q \in Requests : q # r => pc'[q] = pc[q] /\ pc[q] \in AtWork \cup Through
      BY <1>0, <2>1, <2>2, <2>3 DEF Through
    <2>5. pc'[r] = "get" /\ \A q \in Requests : pc'[q] \in {"get", "expire", "set"} => q = r
      BY <1>0, <2>1, <2>4 DEF Through
    <2>6. \A q, p \in Requests :
            q # p /\ pc'[q] \in {"get", "expire", "set"} => pc'[p] \in AtWork \cup Through
      BY <2>4, <2>5
    <2>7. \A q \in Requests : pc'[q] \notin {"expire", "set"}
      BY <2>5
    <2>8. \E p \in Requests : r # p /\ Arrived(p)'
      BY <2>2, <2>4 DEF Arrived
    <2>9. record' # NoRecord => pc'[record'.by] \in AtWork \cup {"done", "gone"}
      BY <2>1, <2>2, <2>4 DEF o
    <2> QED
      BY <1>s, <2>5, <2>6, <2>7, <2>8, <2>9 DEF Pair
  <1>3. ASSUME NEW r \in Requests, Get(r) PROVE Pair'
    <2>1. /\ pc[r] = "get" /\ pc' = [pc EXCEPT ![r] = "done"]
          /\ UNCHANGED <<record, left>>
      BY <1>3 DEF Get, Goto
    <2> QED
      BY <1>0, <1>s, <2>1 DEF Pair, Live, Through, Arrived
  <1>4. ASSUME NEW r \in Requests, GetNothing(r) PROVE Pair'
    <2>1. /\ ~Live /\ pc[r] = "get" /\ UNCHANGED <<record, left>>
          /\ \E to \in {"expire", "set"} : pc' = [pc EXCEPT ![r] = to]
      BY <1>0, <1>4 DEF GetNothing, Goto
    <2>2. \A q \in Requests : q # r => pc[q] \in Through
      BY <1>0, <2>1 DEF Pair, Sole, Through
    <2> QED
      BY <1>0, <1>s, <2>1, <2>2 DEF Pair, Live, Through, Arrived
  <1>5. ASSUME NEW r \in Requests, Expire(r) PROVE Pair'
    <2>1. record' = NoRecord /\ pc[r] = "expire" /\ pc' = [pc EXCEPT ![r] = "set"]
      BY <1>5 DEF Expire, Goto, Drop
    <2> QED
      BY <1>0, <1>s, <2>1 DEF Pair, Live, Through, Arrived
  <1>6. ASSUME NEW r \in Requests, Set(r) PROVE Pair'
    <2>1. /\ record' = InProgress(r) /\ left' = Ttl
          /\ pc[r] = "set" /\ pc' = [pc EXCEPT ![r] = "run"]
      BY <1>0, <1>6 DEF Set, Goto, Put
    <2>2. \A q \in Requests : q # r => pc[q] \in Through
      BY <2>1 DEF Pair
    <2> QED
      BY <1>0, <1>s, <2>1, <2>2 DEF Pair, Live, Through, Arrived
  <1>7. ASSUME NEW r \in Requests, Succeed(r) \/ Fail(r) \/ Crash(r) PROVE Pair'
    <2>1. /\ pc[r] \in AtWork /\ UNCHANGED <<record, left>>
          /\ \E to \in {"complete", "release", "gone"} : pc' = [pc EXCEPT ![r] = to]
      BY <1>7 DEF Succeed, Fail, Crash, Goto
    <2> QED
      BY <1>0, <1>s, <2>1 DEF Pair, Live, Through, Arrived
  <1>8. ASSUME NEW r \in Requests, Complete(r) \/ Release(r) PROVE Pair'
    <2>1. /\ record' \in {Completed(r), NoRecord} /\ pc[r] \in AtWork
          /\ pc' = [pc EXCEPT ![r] = "done"]
      BY <1>0, <1>8 DEF Complete, Release, Goto, Put, Removed, Drop
    <2>2. \A q \in Requests : pc[q] \in AtWork => q = r
      BY <1>0, <2>1 DEF Pair, Sole
    <2>3. \A q \in Requests : pc[q] \notin {"expire", "set"}
      BY <1>0, <2>1 DEF Pair, Through
    <2> QED
      BY <1>0, <1>s, <2>1, <2>2, <2>3 DEF Pair, Through, Arrived
  <1>9. ASSUME Tick PROVE Pair'
    <2>1. pc' = pc /\ left' = left - 1 /\ record' \in {record, NoRecord} /\ left > 0
      BY <1>9 DEF Tick
    <2>2. Live' => Live
      BY <1>0, <2>1 DEF Live
    <2> QED
      BY <1>0, <1>s, <2>1, <2>2 DEF Pair, Through, Arrived
  <1>10. CASE UNCHANGED vars
    BY <1>s, <1>10 DEF vars, Pair, Live, Through, Arrived
  <1> QED
    BY <1>1, <1>2, <1>3, <1>4, <1>5, <1>6, <1>7, <1>8, <1>9, <1>10 DEF Next, Step

\* A request and its retry destroy no live record: an unconditional claim or a late
\* delete does so only among three requests, or after the store failed or the
\* record expired under a request at work.
THEOREM ThirdRequired == Spec => []ThirdNeeded
  <1> DEFINE PInv == Quiet => Pair /\ Calm
  <1>1. Init => PInv
    BY DEF Init, Pair, Sole, Calm
  <1>2. Inv /\ TypeOK /\ PInv /\ [Next]_vars => PInv'
    BY QuietStep, PairCalm, PairStep
  <1>3. PInv => ThirdNeeded
    BY DEF Quiet, Calm, ThirdNeeded
  <1> QED
    BY <1>1, <1>2, <1>3, InvInit, InvStep, TypeCorrect, PTL DEF Spec

-----------------------------------------------------------------------------
(* The refinement of IdempotentKey, up to the first exposure.              *)

Orderly == Inv /\ TypeOK /\ ClaimHasOwner /\ Sole /\ Calm

LEMMA KeyInit == Init => Key!Init
  <1> SUFFICES ASSUME Init PROVE Key!Init
    OBVIOUS
  <1>1. Phase = [r \in Requests |-> "waiting"]
    BY DEF Init, Phase, PhaseAt
  <1>2. Kept = NoRecord /\ Locked = FALSE
    BY DEF Init, Kept, Locked, Live
  <1>3. answer = [r \in Requests |-> [state |-> "none", from |-> NoRecord]]
    BY DEF Init, NoAnswer
  <1> QED
    BY <1>1, <1>2, <1>3 DEF Key!Init

\* A request moves on in the abstraction when it begins or ends its work.
LEMMA PhaseMoves ==
  ASSUME pc \in [Requests -> PC], NEW r \in Requests, NEW to, pc' = [pc EXCEPT ![r] = to]
  PROVE  /\ Phase[r] = PhaseAt(pc[r])
         /\ Phase' = [Phase EXCEPT ![r] = PhaseAt(to)]
         /\ PhaseAt(pc[r]) = PhaseAt(to) => Phase' = Phase
  BY DEF Phase

LEMMA Phases ==
  /\ \A p \in AtWork : PhaseAt(p) = "running"
  /\ \A p \in {"new", "get", "expire", "set"} : PhaseAt(p) = "waiting"
  /\ PhaseAt("done") = "answered" /\ PhaseAt("gone") = "dead"
  BY DEF PhaseAt

LEMMA IdleWhenNotLive ==
  ASSUME Orderly, ~Live
  PROVE  Key!Idle /\ Kept = NoRecord /\ Locked = FALSE
  <1>1. \A r \in Requests : pc[r] \notin AtWork
    BY DEF Orderly, Sole
  <1>2. \A r \in Requests : Phase[r] # "running"
    BY <1>1 DEF Phase, PhaseAt
  <1> QED
    BY <1>2 DEF Key!Idle, Kept, Locked

\* A request begins: it has claimed a key that it saw free.
LEMMA BeginStep ==
  ASSUME Orderly, ~Live, NEW r \in Requests, NEW from \in {"new", "set"},
         Goto(r, from, "run"), Put(InProgress(r)), UNCHANGED answer
  PROVE  Key!Begin(r)
  <1>1. pc \in [Requests -> PC] /\ pc[r] = from /\ pc' = [pc EXCEPT ![r] = "run"]
    BY DEF Orderly, TypeOK, Goto
  <1>2. Phase[r] = "waiting" /\ Phase' = [Phase EXCEPT ![r] = "running"]
    <2>1. Phase[r] = PhaseAt(pc[r]) /\ Phase' = [Phase EXCEPT ![r] = PhaseAt("run")]
      BY <1>1, PhaseMoves
    <2> QED
      BY <1>1, <2>1, Phases
  <1>3. Kept' = NoRecord /\ Locked' = FALSE
    BY <1>1 DEF Put, InProgress, Kept, Locked
  <1>4. Key!Idle /\ Kept = NoRecord /\ Locked = FALSE
    BY IdleWhenNotLive
  <1> QED
    BY <1>2, <1>3, <1>4 DEF Key!Begin, Key!Move

\* A step of a request that its clients do not see.
LEMMA HiddenStep ==
  ASSUME Orderly, NEW r \in Requests, NEW from \in PC, NEW to \in PC, Goto(r, from, to),
         PhaseAt(from) = PhaseAt(to), from # "gone", to # "gone",
         UNCHANGED <<record, left, answer>>
  PROVE  UNCHANGED Key!vars
  <1>1. pc \in [Requests -> PC] /\ pc[r] = from /\ pc' = [pc EXCEPT ![r] = to]
    BY DEF Orderly, TypeOK, Goto
  <1>2. Phase' = Phase
    BY <1>1, PhaseMoves
  <1>3. Kept' = Kept
    BY DEF Kept, Live
  <1>4. record # NoRecord => record.by \in Requests
    BY DEF Orderly, Inv, Typed
  <1>5. \A q \in Requests : pc'[q] = "gone" <=> pc[q] = "gone"
    BY <1>1
  <1>6. Locked' = Locked
    BY <1>4, <1>5 DEF Locked, Live
  <1> QED
    BY <1>2, <1>3, <1>6 DEF Key!vars

\* A request that found the record is refused, told of the misuse or given the
\* response, as the key says.
LEMMA GetStep ==
  ASSUME Orderly, NEW r \in Requests, Get(r)
  PROVE  Key!Refuse(r) \/ Key!Replay(r)
  <1>1. /\ Live /\ UNCHANGED <<record, left>>
        /\ pc \in [Requests -> PC] /\ pc[r] = "get" /\ pc' = [pc EXCEPT ![r] = "done"]
    BY DEF Orderly, TypeOK, Get, Goto
  <1>2. Phase[r] = "waiting" /\ Phase' = [Phase EXCEPT ![r] = "answered"]
    <2>1. Phase[r] = PhaseAt(pc[r]) /\ Phase' = [Phase EXCEPT ![r] = PhaseAt("done")]
      BY <1>1, PhaseMoves
    <2> QED
      BY <1>1, <2>1, Phases
  <1>3. record.by \in Requests /\ record.state \in {"in-progress", "completed"}
    BY <1>1 DEF Orderly, Inv, Typed, Live
  <1>4. Kept' = Kept
    BY <1>1 DEF Kept, Live
  <1>5. Locked' = Locked
    <2>1. pc'[record.by] = "gone" <=> pc[record.by] = "gone"
      BY <1>1, <1>3
    <2> QED
      BY <1>1, <2>1 DEF Locked, Live
  <1>6. CASE record.state = "in-progress"
    <2>1. pc[record.by] \in AtWork \cup {"gone"}
      BY <1>1, <1>6 DEF Orderly, Calm, ClaimHasOwner, Live
    <2>2. pc[record.by] = "gone" => Locked
      BY <1>1, <1>6 DEF Locked
    <2>3. pc[record.by] \in AtWork => ~Key!Idle
      <3>1. pc[record.by] \in AtWork => Phase[record.by] = "running"
        BY <1>3, Phases DEF Phase
      <3> QED
        BY <1>3, <3>1 DEF Key!Idle
    <2>4. Key!Answer(r, "409", NoRecord)
      BY <1>6 DEF Get, Answer, Key!Answer
    <2> QED
      BY <1>2, <1>4, <1>5, <2>1, <2>2, <2>3, <2>4 DEF Key!Refuse, Key!Move
  <1>7. CASE record.state = "completed"
    <2>1. Kept = record.by /\ Kept # NoRecord
      BY <1>1, <1>3, <1>7, IdempotencyAssumption DEF Kept
    <2>2. Fingerprint[record.by] = record.fp
      BY <1>1, <1>7 DEF Orderly, Inv, Honest, Live
    <2>3. IF Fingerprint[Kept] = Fingerprint[r] THEN Key!Answer(r, "replayed", Kept)
          ELSE Key!Answer(r, "422", NoRecord)
      BY <1>7, <2>1, <2>2 DEF Get, Matches, Answer, Key!Answer
    <2> QED
      BY <1>2, <1>4, <1>5, <2>1, <2>3 DEF Key!Replay, Key!Move
  <1> QED
    BY <1>3, <1>6, <1>7

\* A request at work ends: its claim goes, or becomes the response that is kept.
LEMMA EndStep ==
  ASSUME Orderly, Calm', NEW r \in Requests, Complete(r) \/ Release(r)
  PROVE  Key!Succeed(r) \/ Key!Fail(r)
  <1>0. ~Failing
    BY DEF Calm, Failing, Expose
  <1>1. /\ pc \in [Requests -> PC] /\ pc[r] \in AtWork /\ pc' = [pc EXCEPT ![r] = "done"]
        /\ pc[r] \in PC
    BY DEF Orderly, TypeOK, Complete, Release, Goto
  <1>2. Phase[r] = "running" /\ Phase' = [Phase EXCEPT ![r] = "answered"]
    <2>1. Phase[r] = PhaseAt(pc[r]) /\ Phase' = [Phase EXCEPT ![r] = PhaseAt("done")]
      BY <1>1, PhaseMoves
    <2> QED
      BY <1>1, <2>1, Phases
  <1>3. Live /\ record = InProgress(r)
    BY <1>1 DEF Orderly, Sole
  <1>4. Kept = NoRecord /\ Locked = FALSE
    BY <1>1, <1>3 DEF Kept, Locked, InProgress
  <1>5. CASE Complete(r)
    <2>1. record' = Completed(r) /\ left' = Ttl /\ Answer(r, "2xx", r)
      BY <1>0, <1>5 DEF Complete, Put
    <2>2. Live'
      BY <2>1, IdempotencyAssumption DEF Live, Completed
    <2>3. Kept' = r /\ Locked' = FALSE
      BY <2>1, <2>2 DEF Kept, Locked, Completed
    <2> QED
      BY <1>2, <1>4, <2>1, <2>3 DEF Key!Succeed, Key!Move, Key!Answer, Answer
  <1>6. CASE Release(r)
    <2>1. record' = NoRecord /\ Answer(r, "error", NoRecord)
      BY <1>0, <1>6 DEF Release, Removed, Drop
    <2>2. Kept' = NoRecord /\ Locked' = FALSE
      BY <2>1 DEF Kept, Locked, Live
    <2> QED
      BY <1>2, <1>4, <2>1, <2>2 DEF Key!Fail, Key!Move, Key!Answer, Answer
  <1> QED
    BY <1>5, <1>6

LEMMA DeathStep ==
  ASSUME Orderly, NEW r \in Requests, Crash(r)
  PROVE  Key!Die(r)
  <1>1. /\ pc \in [Requests -> PC] /\ pc[r] \in AtWork /\ pc' = [pc EXCEPT ![r] = "gone"]
        /\ pc[r] \in PC /\ UNCHANGED <<record, left, answer>>
    BY DEF Orderly, TypeOK, Crash
  <1>2. Phase[r] = "running" /\ Phase' = [Phase EXCEPT ![r] = "dead"]
    <2>1. Phase[r] = PhaseAt(pc[r]) /\ Phase' = [Phase EXCEPT ![r] = PhaseAt("gone")]
      BY <1>1, PhaseMoves
    <2> QED
      BY <1>1, <2>1, Phases
  <1>3. Live /\ record = InProgress(r) /\ pc'[r] = "gone"
    BY <1>1 DEF Orderly, Sole
  <1>4. Kept' = Kept /\ Locked' = TRUE
    BY <1>1, <1>3 DEF Kept, Locked, Live, InProgress
  <1> QED
    BY <1>1, <1>2, <1>4 DEF Key!Die, Key!Move

\* The clock ticks: the record stays, or what it said is forgotten.
LEMMA TickStep ==
  ASSUME Orderly, Orderly', Tick
  PROVE  Key!Forget \/ UNCHANGED Key!vars
  <1>1. UNCHANGED <<pc, answer>> /\ Phase' = Phase
    BY DEF Tick, Phase
  <1>2. CASE Live'
    <2>1. record' = record /\ Live
      BY <1>2 DEF Tick, Live
    <2> QED
      BY <1>1, <1>2, <2>1 DEF Key!vars, Kept, Locked
  <1>3. CASE ~Live'
    <2>1. \A r \in Requests : pc[r] \notin AtWork
      BY <1>1, <1>3 DEF Orderly, Sole
    <2>2. Key!Idle
      BY <2>1 DEF Key!Idle, Phase, PhaseAt
    <2>3. Kept' = NoRecord /\ Locked' = FALSE
      BY <1>3 DEF Kept, Locked
    <2> QED
      BY <1>1, <2>2, <2>3 DEF Key!Forget
  <1> QED
    BY <1>2, <1>3

LEMMA KeyStep ==
  ASSUME Orderly, Orderly', [Next]_vars
  PROVE  [Key!Next]_Key!vars
  <1>0. Calm' /\ ~Failing
    BY CalmStep DEF Orderly
  <1>1. ASSUME NEW r \in Requests, Claim(r) PROVE Key!Begin(r)
    BY <1>1, BeginStep DEF Claim, Free
  <1>2. ASSUME NEW r \in Requests, Set(r) PROVE Key!Begin(r)
    <2>1. ~Live /\ Put(InProgress(r)) /\ Goto(r, "set", "run") /\ UNCHANGED answer
      BY <1>0, <1>2, CalmStep DEF Set
    <2> QED
      BY <2>1, BeginStep
  <1>3. ASSUME NEW r \in Requests, ClaimLost(r) \/ GetNothing(r) \/ Succeed(r) \/ Fail(r)
        PROVE  UNCHANGED Key!vars
    <2>1. UNCHANGED <<record, left, answer>>
      <3>1. ClaimLost(r) => UNCHANGED <<record, left>>
        BY <1>0, CalmStep
      <3> QED
        BY <1>0, <1>3, <3>1 DEF ClaimLost, GetNothing, Succeed, Fail
    <2>2. \E from \in PC, to \in PC :
            Goto(r, from, to) /\ PhaseAt(from) = PhaseAt(to) /\ from # "gone" /\ to # "gone"
      BY <1>3, Phases DEF ClaimLost, GetNothing, Succeed, Fail
    <2> QED
      BY <2>1, <2>2, HiddenStep
  <1>4. ASSUME NEW r \in Requests, Expire(r) PROVE UNCHANGED Key!vars
    <2>0. ~Live
      BY <1>0, <1>4, CalmStep
    <2>1. /\ pc \in [Requests -> PC] /\ pc[r] = "expire" /\ pc' = [pc EXCEPT ![r] = "set"]
          /\ record' = NoRecord /\ answer' = answer
      BY <1>4 DEF Orderly, TypeOK, Expire, Goto, Drop
    <2>2. Phase' = Phase
      <3>1. PhaseAt(pc[r]) = PhaseAt("set")
        BY <2>1, Phases
      <3> QED
        BY <2>1, <3>1, PhaseMoves
    <2>3. Kept' = NoRecord /\ Locked' = FALSE
      BY <2>1 DEF Kept, Locked, Live
    <2> QED
      BY <2>0, <2>1, <2>2, <2>3, IdleWhenNotLive DEF Key!vars, Kept, Locked
  <1>5. CASE UNCHANGED vars
    BY <1>5 DEF vars, Key!vars, Phase, Kept, Locked, Live
  <1>6. ASSUME NEW r \in Requests, Complete(r) \/ Release(r) PROVE Key!Succeed(r) \/ Key!Fail(r)
    BY <1>0, <1>6, EndStep
  <1>7. ASSUME Tick PROVE Key!Forget \/ UNCHANGED Key!vars
    BY <1>7, TickStep
  <1> QED
    BY <1>1, <1>2, <1>3, <1>4, <1>5, <1>6, <1>7, GetStep, DeathStep DEF Next, Step, Key!Next

\* Up to the first exposure the calls of the store add up to the promise: the
\* clients of a key see one key, however many they are.
THEOREM Refinement == Spec => ImplementsKey
  <1>1. Spec => []Inv
    BY InvInit, InvStep, PTL DEF Spec
  <1>2. /\ Inv /\ TypeOK /\ ClaimHasOwner /\ (Calm => Sole)
        /\ Inv' /\ TypeOK' /\ ClaimHasOwner' /\ (Calm => Sole)'
        /\ [Next]_vars
        => [exposures' = {} => [Key!Next]_Key!vars]_vars
    <2> SUFFICES ASSUME Inv, TypeOK, ClaimHasOwner, Calm => Sole,
                        Inv', TypeOK', ClaimHasOwner', (Calm => Sole)',
                        [Next]_vars, exposures' = {}
                 PROVE  [Key!Next]_Key!vars
      OBVIOUS
    <2>1. Calm /\ Calm'
      BY ExposuresGrow DEF Calm
    <2> QED
      BY <2>1, KeyStep DEF Orderly
  <1> QED
    BY <1>1, <1>2, KeyInit, TypeCorrect, NoAbandonedClaim, SoleAlways, PTL
       DEF Spec, ImplementsKey
=============================================================================
