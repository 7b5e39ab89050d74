----------------------- MODULE SchedulerLeader_proofs -----------------------
(***************************************************************************)
(* Proofs about SchedulerLeader, for every set of workers, every lease and *)
(* however long a worker sleeps between two of its statements.             *)
(***************************************************************************)
EXTENDS SchedulerLeader, TLAPS

\* A worker past its first SELECT read the clock no later than now; one that
\* attempts a takeover saw a lease that had run out by then.
Patient ==
  \A w \in Workers :
    /\ now[w] <= clock
    /\ pc[w] = "takeover" => seen[w].expiresAt <= now[w]

Inv == TypeOK /\ Patient

LEMMA ExpiryType ==
  ASSUME TypeOK, NEW w \in Workers PROVE Expiry(w) \in Nat
  BY SchedulerAssumption DEF Expiry, TypeOK

LEMMA InvInit == Init => Inv
  <1>1. Start \in Start .. MaxClock /\ \A w \in Workers : 0 <= Start
    BY SchedulerAssumption
  <1> QED
    BY <1>1 DEF Init, Inv, TypeOK, Patient, NotSeen, PC

LEMMA ReturnInv ==
  ASSUME Inv, NEW w \in Workers, Return(w), UNCHANGED <<clock, row, prompt>>,
         minute' \in [Workers -> Minutes \cup {0}],
         lastFired' \in [Workers -> Minutes \cup {0}], fires' \in [Minutes -> Nat]
  PROVE  Inv'
  <1>1. clock \in Nat
    BY SchedulerAssumption DEF Inv, TypeOK
  <1>2. /\ pc' = [pc EXCEPT ![w] = "idle"] /\ now' = [now EXCEPT ![w] = 0]
        /\ seen' = [seen EXCEPT ![w] = NotSeen]
    BY DEF Return
  <1>3. pc' \in [Workers -> PC] /\ now' \in [Workers -> Nat]
    BY <1>2 DEF Inv, TypeOK, PC
  <1>4. seen' \in [Workers -> [holder : Workers \cup {Nobody}, expiresAt : Nat]]
    BY <1>2 DEF Inv, TypeOK, NotSeen
  <1>5. Patient'
    BY <1>1, <1>2 DEF Inv, TypeOK, Patient, NotSeen
  <1> QED
    BY <1>3, <1>4, <1>5 DEF Inv, TypeOK, row

LEMMA InvStep == Inv /\ [Next]_vars => Inv'
  <1> SUFFICES ASSUME Inv PROVE [Next]_vars => Inv'
    OBVIOUS
  <1> USE DEF Inv, TypeOK, Patient, PC, row, Goto
  <1>0. clock \in Nat
    BY SchedulerAssumption
  <1>1. ASSUME NEW w \in Workers, Look(w) PROVE Inv'
    <2>1. /\ now' = [now EXCEPT ![w] = clock]
          /\ clock' = clock /\ seen' = seen
      BY <1>1, Zenon DEF Look
    <2>2. TypeOK'
      <3>1. now' \in [Workers -> Nat]
        BY <1>0, <2>1
      <3>2. pc' \in [Workers -> PC]
        BY <1>1 DEF Look
      <3> QED
        BY <1>1, <3>1, <3>2 DEF Look
    <2>3. pc'[w] # "takeover" /\ \A v \in Workers \ {w} : pc'[v] = pc[v]
      BY <1>1 DEF Look
    <2> QED
      BY <1>0, <2>1, <2>2, <2>3
  <1>2. ASSUME NEW w \in Workers, InsertRow(w) PROVE Inv'
    BY <1>2, ExpiryType DEF InsertRow
  <1>3. ASSUME NEW w \in Workers, Read(w) PROVE Inv'
    BY <1>3 DEF Read
  <1>4. ASSUME NEW w \in Workers, StandDown(w) PROVE Inv'
    BY <1>4, ReturnInv DEF StandDown
  <1>5. ASSUME NEW w \in Workers, Refresh(w) PROVE Inv'
    BY <1>5, ExpiryType DEF Refresh, RefreshGuard
  <1>6. ASSUME NEW w \in Workers, Takeover(w) PROVE Inv'
    BY <1>6, ExpiryType DEF Takeover
  <1>7. ASSUME NEW w \in Workers, TakeoverLost(w) PROVE Inv'
    BY <1>7, ReturnInv DEF TakeoverLost
  <1>8. ASSUME NEW w \in Workers, ReadMinute(w) PROVE Inv'
    BY <1>8 DEF ReadMinute, CurrentMinute, Minutes
  <1>9. ASSUME NEW w \in Workers, Fire(w) PROVE Inv'
    <2>1. fires' \in [Minutes -> Nat]
      <3>1. \/ fires' = fires
            \/ fires' = [fires EXCEPT ![minute[w]] = fires[minute[w]] + 1]
        BY <1>9, Zenon DEF Fire
      <3> QED
        BY <3>1
    <2>2. lastFired' \in [Workers -> Minutes \cup {0}]
      BY <1>9 DEF Fire
    <2>3. minute' \in [Workers -> Minutes \cup {0}]
      BY <1>9 DEF Fire
    <2> QED
      <3>1. Return(w) /\ UNCHANGED <<clock, row, prompt>>
        BY <1>9 DEF Fire
      <3> HIDE DEF Inv
      <3> QED
        BY <2>1, <2>2, <2>3, <3>1, ReturnInv
  <1>10. ASSUME NEW w \in Workers, Crash(w) PROVE Inv'
    BY <1>0, <1>10 DEF Crash, NotSeen
  <1>11. ASSUME Pass PROVE Inv'
    <2>1. clock' \in Start .. MaxClock
      BY <1>11, SchedulerAssumption DEF Pass
    <2> QED
      BY <1>0, <1>11, <2>1 DEF Pass
  <1>12. ASSUME UNCHANGED vars PROVE Inv'
    BY <1>12 DEF vars
  <1> QED
    BY <1>1, <1>2, <1>3, <1>4, <1>5, <1>6, <1>7, <1>8, <1>9, <1>10, <1>11, <1>12
       DEF Next, TickOf

LEMMA InvAlways == Spec => []Inv
  BY InvInit, InvStep, PTL DEF Spec

\* The row passes from one worker to another only once its lease has run out.
THEOREM LeaseRespected == Spec => NoStolenLease
  <1> DEFINE Taken == leader # Nobody /\ leader' # leader => expiresAt <= clock
  <1>1. Inv /\ [Next]_vars => [Taken]_vars
    <2> SUFFICES ASSUME Inv, Next PROVE Taken
      OBVIOUS
    <2>1. ASSUME NEW w \in Workers, Takeover(w) PROVE Taken
      <3>1. expiresAt = seen[w].expiresAt /\ pc[w] = "takeover"
        BY <2>1 DEF Takeover, TakeoverGuard, Goto
      <3>2. seen[w].expiresAt \in Nat /\ now[w] \in Nat /\ clock \in Nat
        BY SchedulerAssumption DEF Inv, TypeOK
      <3> QED
        BY <3>1, <3>2 DEF Inv, Patient
    <2>2. CASE Pass
      BY <2>2 DEF Pass, row
    <2>3. ASSUME NEW w \in Workers,
                 TickOf(w) \/ Crash(w), ~Takeover(w) PROVE Taken
      BY <2>3 DEF TickOf, Crash, Look, InsertRow, Read, StandDown, Refresh,
         TakeoverLost, ReadMinute, Fire, row
    <2> QED
      BY <2>1, <2>2, <2>3 DEF Next
  <1> QED
    BY <1>1, InvAlways, PTL DEF Spec, NoStolenLease

-----------------------------------------------------------------------------
(* The lease only grows.                                                   *)

\* The lease in the row was granted by a clock that its holder has read since.
Recent ==
  /\ leader = Nobody => expiresAt = 0
  /\ expiresAt <= clock + LeaseSec
  /\ \A w \in Workers : pc[w] \notin {"idle", "dead"} /\ leader = w => expiresAt <= Expiry(w)

LEMMA RecentInit == Init => Recent
  BY SchedulerAssumption DEF Init, Recent

LEMMA Numbers ==
  ASSUME Inv
  PROVE  /\ clock \in Nat /\ LeaseSec \in Nat /\ expiresAt \in Nat
         /\ \A w \in Workers : now[w] \in Nat /\ Expiry(w) \in Nat /\ Expiry(w) <= clock + LeaseSec
  <1>1. clock \in Nat /\ LeaseSec \in Nat
    BY SchedulerAssumption DEF Inv, TypeOK
  <1> QED
    BY <1>1 DEF Inv, TypeOK, Patient, Expiry

\* A step that leaves the row and what the busy workers read.
LEMMA RowStays ==
  ASSUME Inv, Recent, UNCHANGED row, clock' \in Nat, clock' >= clock,
         \A w \in Workers : \/ pc'[w] \in {"idle", "dead"}
                            \/ pc[w] \notin {"idle", "dead"} /\ now'[w] = now[w]
  PROVE  Recent'
  <1>1. expiresAt' <= clock' + LeaseSec
    BY Numbers DEF Recent, row
  <1> QED
    BY <1>1 DEF Recent, row, Expiry

\* A worker writes the row by the clock that it read.
LEMMA RowWritten ==
  ASSUME Inv, Recent, NEW w \in Workers, leader' = w, expiresAt' = Expiry(w),
         UNCHANGED <<clock, now>>
  PROVE  Recent'
  BY Numbers, SchedulerAssumption DEF Recent, Expiry

LEMMA RecentStep == Inv /\ Recent /\ [Next]_vars => Recent'
  <1> SUFFICES ASSUME Inv, Recent, [Next]_vars PROVE Recent'
    OBVIOUS
  <1>0. pc \in [Workers -> PC] /\ now \in [Workers -> Nat]
    BY DEF Inv, TypeOK
  <1>1. ASSUME NEW w \in Workers, Look(w) PROVE Recent'
    <2>1. /\ UNCHANGED <<clock, row>> /\ now' = [now EXCEPT ![w] = clock]
          /\ \E to : pc' = [pc EXCEPT ![w] = to]
      BY <1>1 DEF Look, Goto
    <2>2. now'[w] = clock /\ \A v \in Workers \ {w} : UNCHANGED <<pc[v], now[v]>>
      BY <1>0, <2>1
    <2> QED
      BY <2>1, <2>2 DEF Recent, row, Expiry
  <1>2. ASSUME NEW w \in Workers, InsertRow(w) \/ Refresh(w) \/ Takeover(w) PROVE Recent'
    <2>1. /\ UNCHANGED <<clock, now>>
          /\ pc[w] \notin {"idle", "dead"} /\ \E to : pc' = [pc EXCEPT ![w] = to]
      BY <1>2 DEF InsertRow, Refresh, Takeover, Goto
    <2>2. \/ leader' = w /\ expiresAt' = Expiry(w)
          \/ UNCHANGED row
      BY <1>2 DEF InsertRow, Refresh, RefreshGuard, Takeover, row
    <2>3. \A v \in Workers \ {w} : pc'[v] = pc[v]
      BY <1>0, <2>1
    <2>4. CASE UNCHANGED row
      BY <2>1, <2>3, <2>4, RowStays, Numbers
    <2> QED
      BY <2>1, <2>2, <2>4, RowWritten
  <1>3. ASSUME NEW w \in Workers, Read(w) \/ ReadMinute(w) PROVE Recent'
    <2>1. /\ UNCHANGED <<clock, row, now>>
          /\ pc[w] \notin {"idle", "dead"} /\ \E to : pc' = [pc EXCEPT ![w] = to]
      BY <1>3 DEF Read, ReadMinute, Goto
    <2>2. \A v \in Workers \ {w} : pc'[v] = pc[v]
      BY <1>0, <2>1
    <2> QED
      BY <2>1, <2>2, RowStays, Numbers
  <1>4. ASSUME NEW w \in Workers, StandDown(w) \/ TakeoverLost(w) \/ Fire(w) \/ Crash(w)
        PROVE  Recent'
    <2>1. /\ clock' = clock /\ UNCHANGED row /\ now' = [now EXCEPT ![w] = 0]
          /\ \E to \in {"idle", "dead"} : pc' = [pc EXCEPT ![w] = to]
      BY <1>4 DEF StandDown, TakeoverLost, Fire, Crash, Return
    <2>2. /\ pc'[w] \in {"idle", "dead"}
          /\ \A v \in Workers \ {w} : pc'[v] = pc[v] /\ now'[v] = now[v]
      BY <1>0, <2>1
    <2>3. \A v \in Workers : \/ pc'[v] \in {"idle", "dead"}
                             \/ pc[v] \notin {"idle", "dead"} /\ now'[v] = now[v]
      <3> TAKE v \in Workers
      <3> QED
        BY <2>2
    <2>4. UNCHANGED row /\ clock' \in Nat /\ clock' >= clock
      BY <2>1, Numbers
    <2> QED
      BY <2>3, <2>4, RowStays
  <1>5. ASSUME Pass PROVE Recent'
    <2>1. UNCHANGED <<row, pc, now>> /\ clock' = clock + 1
      BY <1>5 DEF Pass
    <2>2. clock' \in Nat /\ clock' >= clock
      BY <2>1, Numbers
    <2>3. \A v \in Workers : \/ pc'[v] \in {"idle", "dead"}
                             \/ pc[v] \notin {"idle", "dead"} /\ now'[v] = now[v]
      BY <2>1
    <2> QED
      BY <2>1, <2>2, <2>3, RowStays
  <1>6. ASSUME UNCHANGED vars PROVE Recent'
    BY <1>6, RowStays, Numbers DEF vars
  <1> QED
    BY <1>1, <1>2, <1>3, <1>4, <1>5, <1>6 DEF Next, TickOf

\* A lease is never cut short, however old the clock is that a refresh or a
\* takeover is written by.
THEOREM LeaseNotCut == Spec => LeaseKept
  <1> DEFINE Grows == expiresAt' >= expiresAt
  <1>1. Inv /\ Recent /\ [Next]_vars => [Grows]_vars
    <2> SUFFICES ASSUME Inv, Recent, Next PROVE Grows
      OBVIOUS
    <2>1. ASSUME NEW w \in Workers, InsertRow(w) PROVE Grows
      BY <2>1, Numbers DEF InsertRow, Recent, row
    <2>2. ASSUME NEW w \in Workers, Refresh(w) PROVE Grows
      <3>1. pc[w] = "refresh"
        BY <2>2 DEF Refresh, Goto
      <3>2. CASE leader = w
        <4>1. expiresAt' = Expiry(w) /\ expiresAt <= Expiry(w)
          BY <2>2, <3>1, <3>2 DEF Refresh, RefreshGuard, Recent
        <4> QED
          BY <4>1
      <3>3. CASE leader # w
        BY <2>2, <3>3, Numbers DEF Refresh, RefreshGuard
      <3> QED
        BY <3>2, <3>3
    <2>3. ASSUME NEW w \in Workers, Takeover(w) PROVE Grows
      <3>1. pc[w] = "takeover" /\ expiresAt = seen[w].expiresAt /\ expiresAt' = Expiry(w)
        BY <2>3 DEF Takeover, TakeoverGuard, Goto
      <3>2. expiresAt <= now[w]
        BY <3>1 DEF Inv, Patient
      <3> QED
        BY <3>1, <3>2, Numbers DEF Expiry
    <2>4. CASE Pass
      BY <2>4, Numbers DEF Pass, row
    <2>5. ASSUME NEW w \in Workers, TickOf(w) \/ Crash(w),
                 ~InsertRow(w), ~Refresh(w), ~Takeover(w) PROVE Grows
      BY <2>5, Numbers DEF TickOf, Crash, Look, Read, StandDown, TakeoverLost, ReadMinute, Fire, row
    <2> QED
      BY <2>1, <2>2, <2>3, <2>4, <2>5 DEF Next
  <1> QED
    BY <1>1, InvAlways, RecentInit, RecentStep, PTL DEF Spec, LeaseKept

-----------------------------------------------------------------------------
(* At most once in a minute.                                               *)

LEMMA MinuteBounds ==
  ASSUME NEW t \in Nat
  PROVE  MinuteOf(t) \in Int /\ MinuteOf(t) <= t /\ t < MinuteOf(t) + Minute
  <1>1. Minute \in Nat \ {0}
    BY SchedulerAssumption
  <1>2. t % Minute \in 0 .. Minute - 1
    BY <1>1, Z3
  <1> QED
    BY <1>1, <1>2 DEF MinuteOf

\* Within a minute the remainder grows with the clock.
LEMMA NextRemainder ==
  ASSUME NEW M \in Nat \ {0}, NEW t \in Nat, (t + 1) % M # 0
  PROVE  t % M = ((t + 1) % M) - 1
  <1> DEFINE q == t \div M
             r == t % M
             p == (t + 1) \div M
             s == (t + 1) % M
  <1>1. /\ q \in Int /\ r \in 0 .. M - 1 /\ t = M * q + r
    BY Z3
  <1>2. /\ p \in Int /\ s \in 0 .. M - 1 /\ t + 1 = M * p + s
    BY Z3
  <1> HIDE DEF q, r, p, s
  <1>3. ASSUME p - q >= 1 PROVE FALSE
    <2>1. M * p >= M * q + M
      <3>1. \A a \in Nat, b \in Nat : a * b >= 0
        BY Z3
      <3>2. p - q - 1 \in Nat /\ M * (p - q - 1) = M * p - M * q - M
        BY <1>1, <1>2, <1>3, Z3
      <3>3. M * (p - q - 1) >= 0
        BY <3>1, <3>2
      <3> QED
        BY <3>2, <3>3, <1>1, <1>2, Z3
    <2>2. s # 0
      BY DEF s
    <2> QED
      BY <1>1, <1>2, <2>1, <2>2
  <1>4. ASSUME q - p >= 1 PROVE FALSE
    <2>1. M * q >= M * p + M
      <3>1. \A a \in Nat, b \in Nat : a * b >= 0
        BY Z3
      <3>2. q - p - 1 \in Nat /\ M * (q - p - 1) = M * q - M * p - M
        BY <1>1, <1>2, <1>4, Z3
      <3>3. M * (q - p - 1) >= 0
        BY <3>1, <3>2
      <3> QED
        BY <3>2, <3>3, <1>1, <1>2, Z3
    <2> QED
      BY <1>1, <1>2, <2>1
  <1>5. p = q
    BY <1>1, <1>2, <1>3, <1>4
  <1>6. r = s - 1
    BY <1>1, <1>2, <1>5
  <1> QED
    BY <1>6 DEF r, s

\* A second that does not start a minute belongs to the one before it.
LEMMA SameMinute ==
  ASSUME NEW t \in Nat, MinuteOf(t + 1) <= t
  PROVE  MinuteOf(t + 1) = MinuteOf(t)
  <1>1. Minute \in Nat \ {0}
    BY SchedulerAssumption
  <1>2. t % Minute \in 0 .. Minute - 1 /\ (t + 1) % Minute \in 0 .. Minute - 1
    BY <1>1, Z3
  <1>3. (t + 1) % Minute # 0
    BY <1>2 DEF MinuteOf
  <1>4. t % Minute = ((t + 1) % Minute) - 1
    BY <1>1, <1>3, NextRemainder
  <1> QED
    BY <1>2, <1>4 DEF MinuteOf

Alive(w) == pc[w] # "dead"
Leading(w) == pc[w] \in {"leading", "firing"}

\* A prompt tick begins and ends within one second.
Punctual == \A w \in Workers : pc[w] \notin {"idle", "dead"} => now[w] = clock

\* Who refreshes or fires holds the row; a live leader holds a live lease.
Holds ==
  /\ \A w \in Workers : pc[w] = "refresh" \/ Leading(w) => leader = w
  /\ \A w \in Workers : Leading(w) => expiresAt = Expiry(w)
  /\ leader \in Workers /\ Alive(leader) => clock < expiresAt

\* The minutes in which the task has fired: once, covered by the lease, and
\* remembered by the leader for as long as the minute lasts.
Fired ==
  /\ \A w \in Workers : pc[w] = "firing" => minute[w] = MinuteOf(clock)
  /\ \A m \in Minutes : fires[m] >= 1 =>
       /\ fires[m] = 1
       /\ m <= clock
       /\ leader \in Workers
       /\ expiresAt >= m + LeaseSec
       /\ m = MinuteOf(clock) => lastFired[leader] = m

Prompt == prompt => Punctual /\ Holds /\ Fired

LEMMA PromptInit == Init => Prompt
  <1>1. \A m \in Minutes : ~(0 >= 1)
    OBVIOUS
  <1>2. Nobody \notin Workers
    BY SchedulerAssumption
  <1> QED
    BY <1>1, <1>2 DEF Init, Prompt, Punctual, Holds, Fired, Leading

\* An action that leaves the row, the clock and the firing alone.
LEMMA PromptLocal ==
  ASSUME Inv, prompt, Punctual, Holds, Fired, NEW w \in Workers,
         UNCHANGED <<clock, row, lastFired, fires, prompt>>,
         \A v \in Workers \ {w} : UNCHANGED <<pc[v], now[v], minute[v]>>,
         Alive(w)' => Alive(w),
         pc'[w] \notin {"idle", "dead"} => now'[w] = clock,
         pc'[w] = "refresh" => leader = w,
         Leading(w)' => leader = w /\ expiresAt = Expiry(w)',
         pc'[w] = "firing" => minute'[w] = MinuteOf(clock)
  PROVE  Prompt'
  <1>1. Punctual'
    BY DEF Punctual
  <1>2. Holds'
    BY DEF Holds, Leading, Alive, Expiry, row
  <1>3. Fired'
    BY DEF Fired, row
  <1> QED
    BY <1>1, <1>2, <1>3 DEF Prompt

\* A takeover of a row whose holder is dead or is nobody, under a lease that
\* begins now.
LEMMA PromptTaken ==
  ASSUME Minute <= LeaseSec, Inv, prompt, Punctual, Holds, Fired, NEW w \in Workers,
         UNCHANGED <<clock, now, minute, lastFired, fires, prompt>>,
         pc[w] \in {"insert", "takeover"},
         pc' \in [Workers -> PC], pc'[w] \in {"read", "leading"},
         \A v \in Workers \ {w} : pc'[v] = pc[v],
         leader \notin Workers \/ expiresAt <= clock,
         leader' = w, expiresAt' = Expiry(w)
  PROVE  Prompt'
  <1>1. clock \in Nat /\ expiresAt \in Nat /\ now[w] = clock
    BY SchedulerAssumption DEF Inv, TypeOK, Punctual
  <1>2. Minute \in Nat \ {0} /\ LeaseSec \in Nat \ {0}
    BY SchedulerAssumption
  <1>3. \A v \in Workers : ~(pc[v] = "refresh" \/ Leading(v))
    <2> SUFFICES ASSUME NEW v \in Workers, pc[v] = "refresh" \/ Leading(v)
                 PROVE  FALSE
      OBVIOUS
    <2>1. leader = v /\ Alive(v)
      BY DEF Holds, Leading, Alive
    <2> QED
      BY <1>1, <2>1 DEF Holds
  <1>4. Punctual'
    BY <1>1 DEF Punctual
  <1>5. Holds'
    BY <1>1, <1>2, <1>3 DEF Holds, Leading, Expiry
  <1>6. ASSUME NEW m \in Minutes, fires[m] >= 1
        PROVE  /\ m <= clock /\ expiresAt' >= m + LeaseSec
               /\ m # MinuteOf(clock)
    <2>1. m \in Int
      <3>1. PICK t \in Start .. MaxClock : m = MinuteOf(t)
        BY DEF Minutes
      <3>2. t \in Nat
        BY SchedulerAssumption
      <3> QED
        BY <3>1, <3>2, MinuteBounds
    <2>2. m <= clock /\ expiresAt >= m + LeaseSec /\ expiresAt <= clock
      BY <1>6 DEF Fired
    <2>3. clock < MinuteOf(clock) + Minute /\ MinuteOf(clock) \in Int
      BY <1>1, MinuteBounds
    <2> QED
      BY <1>1, <1>2, <2>1, <2>2, <2>3 DEF Expiry
  <1>7. Fired'
    <2>1. pc'[w] # "firing"
      OBVIOUS
    <2> QED
      BY <1>6, <2>1 DEF Fired
  <1> QED
    BY <1>4, <1>5, <1>7 DEF Prompt

LEMMA PromptStep ==
  ASSUME Minute <= LeaseSec, Inv, Prompt, [Next]_vars
  PROVE  Prompt'
  <1> SUFFICES ASSUME prompt' PROVE Prompt'
    BY DEF Prompt
  <1>0. clock \in Nat /\ expiresAt \in Nat /\ LeaseSec \in Nat \ {0}
    BY SchedulerAssumption DEF Inv, TypeOK
  <1>1. prompt /\ Punctual /\ Holds /\ Fired
    <2>1. prompt
      BY DEF Next, Pass, TickOf, Look, InsertRow, Read, StandDown, Refresh,
         Takeover, TakeoverLost, ReadMinute, Fire, Crash, vars
    <2> QED
      BY <2>1 DEF Prompt
  <1>2. ASSUME NEW w \in Workers, Look(w) PROVE Prompt'
    <2>1. /\ UNCHANGED <<clock, row, lastFired, fires, prompt, minute>>
          /\ pc' = [pc EXCEPT ![w] = IF leader = Nobody THEN "insert" ELSE "read"]
          /\ now' = [now EXCEPT ![w] = clock]
          /\ pc[w] = "idle"
      BY <1>2 DEF Look, Goto
    <2>2. /\ \A v \in Workers \ {w} : UNCHANGED <<pc[v], now[v], minute[v]>>
          /\ pc'[w] \in {"insert", "read"} /\ now'[w] = clock
      BY <2>1 DEF Inv, TypeOK
    <2> QED
      BY <1>1, <2>1, <2>2, PromptLocal DEF Leading, Alive
  <1>3. ASSUME NEW w \in Workers, InsertRow(w) PROVE Prompt'
    <2>1. /\ UNCHANGED <<clock, now, minute, lastFired, fires, prompt>>
          /\ pc[w] = "insert" /\ pc' = [pc EXCEPT ![w] = "read"]
      BY <1>3 DEF InsertRow, Goto
    <2>2. /\ \A v \in Workers \ {w} : UNCHANGED <<pc[v], now[v], minute[v]>>
          /\ pc'[w] = "read" /\ pc' \in [Workers -> PC] /\ now[w] = clock
      BY <1>1, <2>1 DEF Inv, TypeOK, PC, Punctual
    <2>3. CASE leader = Nobody
      <3>1. leader' = w /\ expiresAt' = Expiry(w) /\ leader \notin Workers
        BY <1>3, <2>3, SchedulerAssumption DEF InsertRow
      <3> QED
        BY <1>1, <2>1, <2>2, <3>1, PromptTaken
    <2>4. CASE leader # Nobody
      <3>1. UNCHANGED row
        BY <1>3, <2>4 DEF InsertRow
      <3> QED
        BY <1>1, <2>1, <2>2, <3>1, PromptLocal DEF Leading, Alive
    <2> QED
      BY <2>3, <2>4
  <1>4. ASSUME NEW w \in Workers, Read(w) PROVE Prompt'
    <2>1. /\ UNCHANGED <<clock, row, lastFired, fires, prompt, minute, now>>
          /\ pc[w] = "read"
          /\ \/ leader = w /\ pc' = [pc EXCEPT ![w] = "refresh"]
             \/ pc' = [pc EXCEPT ![w] = "takeover"]
      BY <1>4 DEF Read
    <2>2. /\ \A v \in Workers \ {w} : UNCHANGED <<pc[v], now[v], minute[v]>>
          /\ pc'[w] \in {"refresh", "takeover"} /\ now'[w] = clock
          /\ pc'[w] = "refresh" => leader = w
      BY <1>1, <2>1 DEF Inv, TypeOK, Punctual
    <2> QED
      BY <1>1, <2>1, <2>2, PromptLocal DEF Leading, Alive
  <1>5. ASSUME NEW w \in Workers, StandDown(w) \/ TakeoverLost(w) PROVE Prompt'
    <2>1. /\ UNCHANGED <<clock, row, lastFired, fires, prompt, minute>>
          /\ pc[w] # "dead" /\ pc' = [pc EXCEPT ![w] = "idle"]
          /\ now' = [now EXCEPT ![w] = 0]
      BY <1>5 DEF StandDown, TakeoverLost, Return
    <2>2. /\ \A v \in Workers \ {w} : UNCHANGED <<pc[v], now[v], minute[v]>>
          /\ pc'[w] = "idle"
      BY <2>1 DEF Inv, TypeOK
    <2> QED
      BY <1>1, <2>1, <2>2, PromptLocal DEF Leading, Alive
  <1>6. ASSUME NEW w \in Workers, Refresh(w) PROVE Prompt'
    <2>1. /\ UNCHANGED <<clock, leader, now, minute, lastFired, fires, prompt>>
          /\ pc[w] = "refresh" /\ pc' = [pc EXCEPT ![w] = "leading"]
          /\ leader = w /\ now[w] = clock /\ expiresAt' = clock + LeaseSec
      BY <1>1, <1>6 DEF Refresh, RefreshGuard, Goto, Holds, Punctual, Expiry
    <2>2. \A v \in Workers \ {w} : UNCHANGED pc[v] /\ ~Leading(v)
      BY <1>1, <2>1 DEF Inv, TypeOK, Holds
    <2>3. pc'[w] = "leading"
      BY <2>1 DEF Inv, TypeOK
    <2>4. Punctual'
      BY <1>1, <2>1, <2>2 DEF Punctual
    <2>5. Holds'
      BY <1>0, <1>1, <2>1, <2>2, <2>3 DEF Holds, Leading, Expiry
    <2>6. Fired'
      <3>1. \A m \in Minutes : m \in Int
        <4>1. \A t \in Start .. MaxClock : t \in Nat
          BY SchedulerAssumption
        <4> QED
          BY <4>1, MinuteBounds DEF Minutes
      <3>2. \A m \in Minutes : fires[m] >= 1 => expiresAt' >= m + LeaseSec
        BY <1>0, <1>1, <2>1, <3>1 DEF Fired
      <3> QED
        BY <1>1, <2>1, <2>2, <2>3, <3>2 DEF Fired
    <2> QED
      BY <2>4, <2>5, <2>6 DEF Prompt
  <1>7. ASSUME NEW w \in Workers, Takeover(w) PROVE Prompt'
    <2>1. /\ UNCHANGED <<clock, now, minute, lastFired, fires, prompt>>
          /\ pc[w] = "takeover" /\ pc' = [pc EXCEPT ![w] = "leading"]
          /\ expiresAt = seen[w].expiresAt
          /\ leader' = w /\ expiresAt' = Expiry(w)
      BY <1>7 DEF Takeover, TakeoverGuard, Goto
    <2>2. expiresAt <= clock
      BY <1>1, <2>1 DEF Inv, Patient, Punctual
    <2>3. /\ pc' \in [Workers -> PC] /\ pc'[w] = "leading"
          /\ \A v \in Workers \ {w} : pc'[v] = pc[v]
      BY <2>1 DEF Inv, TypeOK, PC
    <2> QED
      BY <1>1, <2>1, <2>2, <2>3, PromptTaken
  <1>8. ASSUME NEW w \in Workers, ReadMinute(w) PROVE Prompt'
    <2>1. /\ UNCHANGED <<clock, row, lastFired, fires, prompt, now>>
          /\ pc[w] = "leading" /\ pc' = [pc EXCEPT ![w] = "firing"]
          /\ minute' = [minute EXCEPT ![w] = MinuteOf(clock)]
      BY <1>8 DEF ReadMinute, Goto, CurrentMinute
    <2>2. /\ \A v \in Workers \ {w} : UNCHANGED <<pc[v], now[v], minute[v]>>
          /\ pc'[w] = "firing" /\ now'[w] = clock /\ minute'[w] = MinuteOf(clock)
      BY <1>1, <2>1 DEF Inv, TypeOK, Punctual
    <2>3. leader = w /\ expiresAt = Expiry(w)'
      BY <1>1, <2>1 DEF Holds, Leading, Expiry
    <2> QED
      BY <1>1, <2>1, <2>2, <2>3, PromptLocal DEF Leading, Alive
  <1>9. ASSUME NEW w \in Workers, Fire(w) PROVE Prompt'
    <2>1. /\ UNCHANGED <<clock, row, prompt>>
          /\ pc[w] = "firing" /\ pc' = [pc EXCEPT ![w] = "idle"]
          /\ now' = [now EXCEPT ![w] = 0] /\ minute' = [minute EXCEPT ![w] = 0]
          /\ lastFired' = [lastFired EXCEPT ![w] = minute[w]]
      BY <1>9 DEF Fire, Return
    <2>2. /\ \A v \in Workers \ {w} : UNCHANGED <<pc[v], now[v], minute[v], lastFired[v]>>
          /\ pc'[w] = "idle" /\ lastFired'[w] = minute[w]
      BY <2>1 DEF Inv, TypeOK
    <2>3. /\ leader = w /\ now[w] = clock /\ expiresAt = clock + LeaseSec
          /\ minute[w] = MinuteOf(clock)
      BY <1>1, <2>1 DEF Holds, Leading, Expiry, Fired, Punctual
    <2>4. Punctual' /\ Holds'
      BY <1>1, <2>1, <2>2 DEF Punctual, Holds, Leading, Alive, Expiry, row
    <2>5. ASSUME NEW m \in Minutes, fires'[m] >= 1, m # MinuteOf(clock)
          PROVE  fires'[m] = fires[m]
      <3>1. \/ fires' = fires
            \/ fires' = [fires EXCEPT ![minute[w]] = fires[minute[w]] + 1]
        BY <1>9, Zenon DEF Fire
      <3> QED
        BY <2>3, <2>5, <3>1 DEF Inv, TypeOK
    <2>6. ASSUME NEW m \in Minutes, fires'[m] >= 1, m = MinuteOf(clock)
          PROVE  fires'[m] = 1
      <3>1. fires[m] \in Nat
        BY DEF Inv, TypeOK
      <3>2. CASE lastFired[w] = minute[w]
        BY <1>1, <1>9, <2>6, <3>2 DEF Fire, Fired
      <3>3. CASE lastFired[w] # minute[w]
        <4>1. fires' = [fires EXCEPT ![minute[w]] = fires[minute[w]] + 1]
          BY <1>9, <3>3, Zenon DEF Fire
        <4>2. ~(fires[m] >= 1)
          BY <1>1, <2>3, <2>6, <3>3 DEF Fired
        <4> QED
          BY <2>3, <2>6, <3>1, <4>1, <4>2 DEF Inv, TypeOK
      <3> QED
        BY <3>2, <3>3
    <2>7. MinuteOf(clock) \in Int /\ MinuteOf(clock) <= clock
      BY <1>0, MinuteBounds
    <2>8. Fired'
      BY <1>0, <1>1, <2>1, <2>2, <2>3, <2>5, <2>6, <2>7 DEF Fired, row
    <2> QED
      BY <2>4, <2>8 DEF Prompt
  <1>10. ASSUME NEW w \in Workers, Crash(w) PROVE Prompt'
    <2>1. /\ UNCHANGED <<clock, row, lastFired, fires, prompt>>
          /\ pc' = [pc EXCEPT ![w] = "dead"] /\ now' = [now EXCEPT ![w] = 0]
          /\ minute' = [minute EXCEPT ![w] = 0]
      BY <1>10 DEF Crash
    <2>2. /\ \A v \in Workers \ {w} : UNCHANGED <<pc[v], now[v], minute[v]>>
          /\ pc'[w] = "dead"
      BY <2>1 DEF Inv, TypeOK
    <2> QED
      BY <1>1, <2>1, <2>2, PromptLocal DEF Leading, Alive
  <1>11. ASSUME Pass PROVE Prompt'
    <2>1. /\ UNCHANGED <<row, pc, now, minute, lastFired, fires>>
          /\ clock' = clock + 1
          /\ \A w \in Workers : pc[w] \in {"idle", "dead"}
          /\ leader \in Workers \ Dead => clock + 1 < expiresAt
      BY <1>11 DEF Pass, InTime
    <2>2. Punctual' /\ Holds'
      BY <1>1, <2>1 DEF Punctual, Holds, Leading, Alive, Dead, row
    <2>3. ASSUME NEW m \in Minutes, fires[m] >= 1, m = MinuteOf(clock + 1)
          PROVE  m = MinuteOf(clock)
      BY <1>0, <1>1, <2>3, SameMinute DEF Fired
    <2>4. ASSUME NEW m \in Minutes, fires[m] >= 1
          PROVE  m <= clock + 1
      <3>1. m \in Int
        <4>1. \A t \in Start .. MaxClock : t \in Nat
          BY SchedulerAssumption
        <4> QED
          BY <4>1, MinuteBounds DEF Minutes
      <3> QED
        BY <1>0, <1>1, <2>4, <3>1 DEF Fired
    <2>5. Fired'
      BY <1>1, <2>1, <2>3, <2>4 DEF Fired, row
    <2> QED
      BY <2>2, <2>5 DEF Prompt
  <1>12. ASSUME UNCHANGED vars PROVE Prompt'
    BY <1>12 DEF vars, row, Prompt, Punctual, Holds, Fired, Leading, Alive, Expiry
  <1> QED
    BY <1>2, <1>3, <1>4, <1>5, <1>6, <1>7, <1>8, <1>9, <1>10, <1>11, <1>12
       DEF Next, TickOf

\* Under a lease of at least a minute, workers whose ticks are prompt fire a
\* task at most once in a minute, whoever dies.
THEOREM FiresOnce ==
  ASSUME Minute <= LeaseSec
  PROVE  Spec => []AtMostOncePerMinute
  <1>1. Init => Prompt
    BY PromptInit
  <1>2. Inv /\ Prompt /\ [Next]_vars => Prompt'
    BY PromptStep
  <1>3. Inv /\ Prompt => AtMostOncePerMinute
    BY DEF Inv, TypeOK, Prompt, Fired, AtMostOncePerMinute
  <1> QED
    BY <1>1, <1>2, <1>3, InvAlways, PTL DEF Spec

\* The state has its type.
THEOREM TypeCorrect == Spec => []TypeOK
  BY InvAlways, PTL DEF Inv
=============================================================================
