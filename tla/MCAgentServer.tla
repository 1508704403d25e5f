--------------------------- MODULE MCAgentServer ---------------------------
(* Small instances of the Agent Server's run queue.                        *)
EXTENDS AgentServer, TLC

CONSTANTS t1, t2, r1, r2, r3, w1, w2

OneThread == {t1}
TwoThreads == {t1, t2}
TwoRuns == {r1, r2}
ThreeRuns == {r1, r2, r3}
TwoWorkers == {w1, w2}

Sym == Permutations(ThreeRuns) \cup Permutations(TwoWorkers)
=============================================================================
