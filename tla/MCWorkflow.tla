----------------------------- MODULE MCWorkflow -----------------------------
(* Instances of Workflow for TLC. *)
EXTENDS Workflow

\* Two items in two stages: 3 is the second stage of 1, and 4 of 2.  Nothing
\* catches what 4 throws.
Pipeline ==
    [earlier |-> [s \in Sites |-> IF s > 2 THEN {s - 2} ELSE {}],
     key |-> [s \in Sites |-> <<"request", s>>], invalid |-> {}, strict |-> {4}]

Edited == [Pipeline EXCEPT !.key[2] = <<"edited", 2>>]
Refused == [Pipeline EXCEPT !.invalid = {1}]

MCScripts == {Pipeline}
MCEdited == {Pipeline, Edited}
MCRefused == {Refused}
=============================================================================
