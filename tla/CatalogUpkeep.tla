---------------------------- MODULE CatalogUpkeep ----------------------------
(***************************************************************************)
(* What the catalog session relies on from whoever maintains the catalog:  *)
(* one attempt at a time, which asks for the session, works, gives it back *)
(* on every way out, and which an interruption stops.  CatalogReclamation  *)
(* implements this with its registry and its worker threads;               *)
(* CatalogSession puts it beside the callers of the session.               *)
(***************************************************************************)

VARIABLE upkeep     \* the attempt that reserves the catalog session; once it has
                    \* returned, only what its release depends on

Structural  == "structural"     \* CatalogMaintenanceKind::Structural
Incremental == "incremental"    \* CatalogMaintenanceKind::IncrementalReclamation

UpkeepOutcomes == {"none", "completed", "busy", "interrupted", "error", "unwind"}

UpkeepTypeOK ==
    upkeep \in [pc : {"idle", "reserve", "attempt", "release", "announce", "ended"},
                kind : {Structural, Incremental}, interrupted : BOOLEAN,
                outcome : UpkeepOutcomes]

At(pc, kind, interrupted, outcome) ==
    [pc |-> pc, kind |-> kind, interrupted |-> interrupted, outcome |-> outcome]

\* An attempt that the session does not depend on.
Past(pc) == At(pc, Structural, FALSE, "none")

NoUpkeep == Past("idle")

UpkeepInit == upkeep = NoUpkeep

\* An attempt begins with a control of its own; the operation it belongs to
\* may have been cancelled already.
BeginUpkeep ==
    /\ upkeep.pc = "idle"
    /\ \E kind \in {Structural, Incremental}, cancelled \in BOOLEAN :
        upkeep' = At("reserve", kind, cancelled, "none")

\* with_reserved_catalog_maintenance: the session is reserved, or is in use.
ReserveSession ==
    /\ upkeep.pc = "reserve"
    /\ upkeep' = At("attempt", upkeep.kind, upkeep.interrupted, "none")

RefuseSession ==
    /\ upkeep.pc = "reserve"
    /\ upkeep' = Past("ended")

\* A cancellation or a preemption reaches the attempt while it matters.
InterruptUpkeep ==
    /\ upkeep.pc \in {"reserve", "attempt"}
    /\ upkeep' = At(upkeep.pc, upkeep.kind, TRUE, "none")

\* The maintenance call returns or unwinds.  Nothing is reported as completed
\* once the attempt has been interrupted.
AttemptUpkeep(outcome) ==
    /\ upkeep.pc = "attempt"
    /\ outcome \in {"busy", "error", "unwind"}
            \cup (IF upkeep.interrupted THEN {"interrupted"} ELSE {"completed"})
    /\ upkeep' = At("release", upkeep.kind, FALSE, outcome)

\* CatalogMaintenanceReservation::drop, under the session lock and after it.
ReleaseSession ==
    /\ upkeep.pc = "release"
    /\ upkeep' = At("announce", Structural, FALSE,
                    IF upkeep.outcome = "unwind" THEN "unwind" ELSE "none")

AnnounceRelease ==
    /\ upkeep.pc = "announce"
    /\ upkeep' = IF upkeep.outcome = "unwind" THEN NoUpkeep
                 ELSE Past("ended")

\* finish_attempt.
EndUpkeep ==
    /\ upkeep.pc = "ended"
    /\ upkeep' = NoUpkeep

UpkeepReturns == \E outcome \in UpkeepOutcomes : AttemptUpkeep(outcome)

UpkeepNext ==
    \/ BeginUpkeep \/ ReserveSession \/ RefuseSession \/ InterruptUpkeep
    \/ UpkeepReturns \/ ReleaseSession \/ AnnounceRelease \/ EndUpkeep

(* The maintaining thread runs.  Nothing bounds how long SQLite works on   *)
(* an attempt, but its progress handler and its interrupt handle end one   *)
(* that has been interrupted.                                              *)
UpkeepFairness ==
    /\ WF_upkeep(ReserveSession \/ RefuseSession \/ ReleaseSession
                    \/ AnnounceRelease \/ EndUpkeep)
    /\ WF_upkeep(upkeep.interrupted /\ UpkeepReturns)

UpkeepSteps == UpkeepInit /\ [][UpkeepNext]_upkeep

UpkeepSpec == UpkeepSteps /\ UpkeepFairness
=============================================================================
