---------------------------- MODULE MCJobQueue ----------------------------
(* Instances of JobQueue for TLC.                                          *)
EXTENDS JobQueue, TLC

CONSTANTS j1, j2, w1, w2, p1, p2, n1, n2, k1

Req(key, priority) ==
  [name |-> n1, key |-> key, priority |-> priority, delay |-> 0]

MCJobs        == {j1, j2}
MCOneJob      == {j1}
MCWorkers     == {w1, w2}
MCOneWorker   == {w1}
MCNone        == {}
MCProducers   == {p1, p2}
MCOneProducer == {p1}
MCNames       == {n1, n2}
MCKeys        == {k1}
MCPriorities  == {"high", "default"}
MCOneQueue    == <<"default">>
MCTwoQueues   == <<"high", "default">>
MCNoFilter    == [w \in MCWorkers |-> {}]
MCFilter      == [w \in MCWorkers |-> IF w = w1 THEN {n1} ELSE {}]
\* w2 never finds a job of its own: it only sweeps.
MCSweeper     == [w \in MCWorkers |-> IF w = w1 THEN {} ELSE {n2}]
\* Two attempts; n2 has no handler.
MCHandler     == [n \in MCNames |-> IF n = n1 THEN 2 ELSE 0]
MCBackoff     == <<1>>

MCKeyed       == {Req(k1, "default")}
\* Both priorities, and a job without a handler.
MCMixed       == {Req(NoKey, "high"), Req(NoKey, "default"),
                  [Req(NoKey, "default") EXCEPT !.name = n2]}

\* With the partial index, or with and without it.
MCIndexed     == {TRUE}
MCEither      == BOOLEAN

MCSymmetry == Permutations(MCJobs) \cup Permutations(MCProducers)
=============================================================================
