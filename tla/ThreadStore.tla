---------------------------- MODULE ThreadStore ----------------------------
(***************************************************************************)
(* What a durable thread promises (the Saver interface of                  *)
(* dacheckpoint/checkpoint.go as the graph executor relies on it): a       *)
(* checkpoint restores to the state its run had when it stored it, and     *)
(* keeps doing so for as long as it is stored, whatever else happens to    *)
(* this thread or to others.  How states are stored is not said here.      *)
(*                                                                         *)
(* A run whose checkpoint was removed under it is unsound: what it stores  *)
(* afterwards is not promised to restore to its state.                     *)
(***************************************************************************)
EXTENDS Integers

CONSTANTS Threads, Ids, Empty, Idle

VARIABLES
    stored, \* stored[t]: the ids of the checkpoints of t
    states, \* states[t]: id -> the state the checkpoint restores to
    runs    \* runs[t]: Idle, or [base, state, sound] of the run of t

storeVars == <<stored, runs, states>>

Init ==
    /\ stored = [t \in Threads |-> {}]
    /\ states = [t \in Threads |-> [id \in {} |-> Empty]]
    /\ runs = [t \in Threads |-> Idle]

Newest(t, id) == \A c \in stored[t] : c <= id

Others(t) == \A u \in Threads \ {t} : runs'[u] = runs[u]

\* A run starts from a stored checkpoint, in the state it was stored with, or
\* from nothing; a restore disturbed by a removal gives no promise.
Begin(t) ==
    /\ runs[t] = Idle
    /\ runs'[t] # Idle
    /\ runs'[t].sound =>
         \/ runs'[t].base = 0 /\ runs'[t].state = Empty
         \/ runs'[t].base \in stored[t] /\ runs'[t].state = states[t][runs'[t].base]
    /\ Others(t)
    /\ UNCHANGED <<stored, states>>

\* The run stores its next state under a new id, the newest of its thread.
Save(t) ==
    /\ runs[t] # Idle
    /\ runs'[t] # Idle
    /\ runs'[t].sound = runs[t].sound
    /\ Others(t)
    /\ \E id \in Ids \ stored[t] :
         /\ Newest(t, id)
         /\ runs'[t].base = id
         /\ stored' = [stored EXCEPT ![t] = @ \cup {id}]
         /\ \E state \in {states'[t][id]} :
              /\ runs[t].sound => state = runs'[t].state
              /\ states' = [states EXCEPT ![t] =
                     [c \in stored'[t] |-> IF c = id THEN state ELSE @[c]]]

End(t) ==
    /\ runs[t] # Idle
    /\ runs' = [runs EXCEPT ![t] = Idle]
    /\ UNCHANGED <<stored, states>>

\* The checkpoints of t that are not kept go; the others restore as before.
Remove(t, kept) ==
    /\ kept # stored[t]
    /\ stored' = [stored EXCEPT ![t] = kept]
    /\ runs' = [runs EXCEPT ![t] =
           IF @ # Idle /\ @.base \notin kept \cup {0} THEN [@ EXCEPT !.sound = FALSE] ELSE @]
    /\ states' = [states EXCEPT ![t] = [id \in kept |-> @[id]]]

Delete(t) == Remove(t, {})

\* Never the newest.
Prune(t) ==
    \E kept \in SUBSET stored[t] :
        /\ \A id \in stored[t] : Newest(t, id) => id \in kept
        /\ Remove(t, kept)

\* A thread without checkpoints becomes the other one, as it was at some
\* moment of the copy.
Copy(source, target) ==
    /\ stored[target] = {}
    /\ \E last \in stored[source] :
         /\ stored' = [stored EXCEPT ![target] = {id \in stored[source] : id <= last}]
         /\ states' = [states EXCEPT ![target] = [id \in stored'[target] |-> states[source][id]]]
    /\ UNCHANGED runs

Next == \E t \in Threads :
    \/ Begin(t)
    \/ Save(t)
    \/ End(t)
    \/ Delete(t)
    \/ Prune(t)
    \/ \E source \in Threads \ {t} : Copy(source, t)

Spec == Init /\ [][Next]_storeVars
=============================================================================
