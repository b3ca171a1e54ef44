-------------------------------- MODULE KeySet --------------------------------
(***************************************************************************)
(* What the controllers rely on of their work queues, and what the modules *)
(* of the controllers assume: a set of keys that wait, of which one at a   *)
(* time is worked on.  An added key waits once however often it is added,  *)
(* a key added during its own pass waits for another, a failed one waits   *)
(* again, and every key that waits gets its turn.                          *)
(***************************************************************************)
CONSTANT Keys

VARIABLES
  pending,  \* the keys that wait
  busy      \* the keys worked on, one at most

Init == pending = {} /\ busy = {}

AddKey(k) == pending' = pending \cup {k} /\ busy' = busy

\* A retry that is on its timer may outlive a pass that another event brought
\* about: the key that is taken may go on waiting.
Take(k) ==
  /\ k \in pending /\ busy = {}
  /\ pending' \in {pending, pending \ {k}}
  /\ busy' = {k}

Finish(k) ==
  /\ k \in busy
  /\ pending' \in {pending, pending \cup {k}}
  /\ busy' = busy \ {k}

\* The process dies.
Reset == pending' = {} /\ busy' = {}

Next == (\E k \in Keys : AddKey(k) \/ Take(k) \/ Finish(k)) \/ Reset

setVars == <<pending, busy>>

Safe == Init /\ [][Next]_setVars
Spec == Safe /\ \A k \in Keys : SF_setVars(Take(k)) /\ WF_setVars(Finish(k))
===============================================================================
