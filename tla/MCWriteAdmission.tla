-------------------------- MODULE MCWriteAdmission --------------------------
(* Instances of WriteAdmission for TLC.                                    *)
EXTENDS WriteAdmission

Ask(mode, priority) == [mode |-> mode, priority |-> priority]

\* The calls that delay one another, at the priorities that outrank one
\* another: live ingress and interactive edits over preemptible publication.
MCAsks == {Ask("acquire_preemptible", 3), Ask("acquire_for", 0),
           Ask("reserve", 1), Ask("try_acquire", 3)}
=============================================================================
