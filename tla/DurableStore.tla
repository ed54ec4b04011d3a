---------------------------- MODULE DurableStore ----------------------------
(* What the file store promises the rest of the controller: a call either    *)
(* takes effect for good or not at all.  A call that reports an error has    *)
(* changed nothing; one that is cut off by a crash may have taken effect.    *)
CONSTANTS Keys, Contents

VARIABLES
  stored,  \* key -> content, as the next reader or the next start finds it
  asked    \* the call in progress: the content it is to leave behind, or None

None == <<>>
States == [Keys -> Contents]

Init == stored \in States /\ asked = None

Ask(new) == asked = None /\ asked' = <<new>> /\ UNCHANGED stored
Succeed == asked # None /\ stored' = asked[1] /\ asked' = None
Refuse == asked # None /\ asked' = None /\ UNCHANGED stored

\* A crash forgets the call, which took effect or did not.
Crash == asked' = None /\ (UNCHANGED stored \/ (asked # None /\ stored' = asked[1]))

Next == (\E new \in States : Ask(new)) \/ Succeed \/ Refuse \/ Crash

vars == <<stored, asked>>

Spec == Init /\ [][Next]_vars
=============================================================================
