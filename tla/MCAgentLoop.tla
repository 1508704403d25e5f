---------------------------- MODULE MCAgentLoop ----------------------------
(* Kinds of tool calls for the instances of AgentLoop. *)
EXTENDS AgentLoop

Plain == [hook |-> 0, asks |-> FALSE, direct |-> FALSE]
Direct == [Plain EXCEPT !.direct = TRUE]
Asking == [Plain EXCEPT !.asks = TRUE]
Filesystem == [Plain EXCEPT !.hook = 1]
Approval == [Plain EXCEPT !.hook = 2]

MCKinds == {Direct, Asking, Filesystem}
MCHooks == {Filesystem, Approval}

\* A tool that needs approval and interrupts itself, as a gated subagent does.
MCGatedAsking == {[Approval EXCEPT !.asks = TRUE]}
=============================================================================
