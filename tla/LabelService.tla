---------------------------- MODULE LabelService ----------------------------
(***************************************************************************)
(* What the labelling half of a node promises: a content id it is asked    *)
(* about is settled in the end, and it counts as labelled only once the    *)
(* club has a label for it.  Nothing is said of workers, leases, retries,  *)
(* restarts or of the way a label takes to the catalog.                    *)
(***************************************************************************)
CONSTANT Cids

VARIABLES
    asked,      \* cids waiting for a label
    known,      \* cids the club has had a label for
    labelled    \* cids this node holds to be labelled

vars == <<asked, known, labelled>>

Init == asked \subseteq Cids /\ known = {} /\ labelled = {}

\* Some cids are asked for, be it for the first time or again.
Ask(S) ==
    /\ asked' = asked \cup S
    /\ labelled' = labelled \ S
    /\ known' = known

\* A label for c becomes known, from this node or from another.
Know(c) == known' = known \cup {c} /\ UNCHANGED <<asked, labelled>>

Label(c) ==
    /\ c \in known
    /\ labelled' = labelled \cup {c}
    /\ asked' = asked \ {c}
    /\ known' = known

\* c has no text, is out of scope, or cannot be had.
GiveUp(c) ==
    /\ asked' = asked \ {c}
    /\ labelled' = labelled \ {c}
    /\ known' = known

Settle(c) == c \in asked /\ (Label(c) \/ GiveUp(c))

Next ==
    \/ \E S \in SUBSET Cids : Ask(S)
    \/ \E c \in Cids : Know(c) \/ Label(c) \/ GiveUp(c)

Safety == Init /\ [][Next]_vars
Spec == Safety /\ \A c \in Cids : WF_vars(Settle(c))
=============================================================================
