---------------------------- MODULE StageContract ----------------------------
(***************************************************************************)
(* What a stage of the pipeline promises for the messages it is given: it  *)
(* takes each one in once and lets it out once, possibly marked as failed, *)
(* in any order, and never clears a mark an earlier stage has set.         *)
(***************************************************************************)
EXTENDS Naturals

CONSTANT Messages

VARIABLES
  outside,  \* messages the stage has not taken in yet
  inside,   \* messages the stage is working on
  exits,    \* how often each message has left the stage
  marked    \* messages marked as failed

vars == <<outside, inside, exits, marked>>

Init ==
  /\ outside = Messages /\ inside = {}
  /\ exits = [m \in Messages |-> 0]
  /\ marked \in SUBSET Messages

Enter(m) ==
  /\ m \in outside
  /\ outside' = outside \ {m}
  /\ inside' = inside \cup {m}
  /\ UNCHANGED <<exits, marked>>

\* The message leaves, as it came or with its mark set now.
Leave(m) ==
  /\ m \in inside
  /\ inside' = inside \ {m}
  /\ exits' = [exits EXCEPT ![m] = @ + 1]
  /\ marked' \in {marked, marked \cup {m}}
  /\ UNCHANGED outside

Next == \E m \in Messages : Enter(m) \/ Leave(m)

Spec == Init /\ [][Next]_vars

-----------------------------------------------------------------------------
\* Each message is waiting, inside, or has left once.
Once ==
  \A m \in Messages :
    \/ m \in outside /\ m \notin inside /\ exits[m] = 0
    \/ m \notin outside /\ m \in inside /\ exits[m] = 0
    \/ m \notin outside /\ m \notin inside /\ exits[m] = 1
=============================================================================
