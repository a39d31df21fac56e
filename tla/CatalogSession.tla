---------------------------- MODULE CatalogSession ----------------------------
(***************************************************************************)
(* The reusable catalog session of one catalog, and who may renew it:      *)
(* application/catalog_session.rs, catalog_session/maintenance.rs and the  *)
(* scan registry of scan_library/execution_registry.rs, beside the upkeep  *)
(* that reserves the session (CatalogUpkeep).                              *)
(*                                                                         *)
(* A caller is a thread inside one of the entry points: a foreground scan  *)
(* or the cancellation of a retained scan (open_catalog_for_foreground_    *)
(* scan), an ordinary use (open_catalog), or the recovery of interrupted   *)
(* scans (with_recovery_catalog_if_idle), which runs under the session     *)
(* lock.  The identity of a validated session (an Arc) is used in one way  *)
(* only: it is compared with the one in the slot.  A call therefore        *)
(* records whether the session it holds is the slot's or its own.          *)
(***************************************************************************)
EXTENDS Naturals, CatalogUpkeep

CONSTANTS
    Callers,            \* threads that open the catalog
    Scans,              \* scan identifiers
    Roles,              \* what each caller may do, and with which scan
    MaxReplacements,    \* bound: how often the catalog file is replaced
    NoCaller, NoScan

Kinds == {"scan", "cancel", "open", "recover"}

ASSUME SessionAssumption ==
    /\ Roles \in [Callers -> SUBSET (Kinds \X (Scans \cup {NoScan}))]
    /\ NoCaller \notin Callers /\ NoScan \notin Scans
    /\ MaxReplacements \in Nat

VARIABLES
    slot,           \* CatalogSessionState, or what a reservation set aside
    lock,           \* the caller that holds the session lock across steps
    scans,          \* ACTIVE_SCANS
    calls,          \* each caller's place in its entry point
    replacements    \* how often the catalog file was replaced

session == <<slot, lock, scans, calls, replacements>>
vars    == <<upkeep, session>>

CallPlaces == {"idle", "bind", "idle_check", "session", "preempt", "fire",
               "await_upkeep", "await_proof", "validate", "install", "announce",
               "open", "reopen", "protect", "enter", "recover", "using"}

\* How the catalog has outgrown a session, if it has: its file was replaced,
\* or its schema rewritten.
Staleness == {"no", "replaced", "altered"}

SessionTypeOK ==
    /\ UpkeepTypeOK
    /\ slot \in [state : {"Empty", "Validating", "Maintaining", "Ready", "Failed"},
                 stale : Staleness, owner : Callers \cup {NoCaller},
                 previous : {"Empty", "Ready", "Failed"}]
    /\ lock \in Callers \cup {NoCaller}
    /\ scans \in [Scans -> [owner : {"none", "executing", "retained"},
                            bound : BOOLEAN, protects : BOOLEAN]]
    /\ calls \in [Callers -> [kind : Kinds, pc : CallPlaces, scan : Scans \cup {NoScan},
                              held : {"none", "slot", "own"},
                              stale : Staleness, refresh : BOOLEAN,
                              flight : Callers \cup {NoCaller}, waiting : BOOLEAN,
                              aimed : BOOLEAN]]
    /\ replacements \in 0..MaxReplacements

EmptySlot == [state |-> "Empty", stale |-> "no", owner |-> NoCaller, previous |-> "Empty"]

Unregistered == [owner |-> "none", bound |-> FALSE, protects |-> FALSE]

IdleCall == [kind |-> "open", pc |-> "idle", scan |-> NoScan, held |-> "none",
             stale |-> "no", refresh |-> FALSE, flight |-> NoCaller, waiting |-> FALSE,
             aimed |-> FALSE]

SessionInit ==
    /\ slot = EmptySlot
    /\ lock = NoCaller
    /\ scans = [s \in Scans |-> Unregistered]
    /\ calls = [t \in Callers |-> IdleCall]
    /\ replacements = 0

Foreground(t) == calls[t].kind \in {"scan", "cancel"}

\* The session lock is free: it is held across steps by a recovery only.
Unlocked == lock = NoCaller

\* The slot is ready with the very session the caller holds.
ReadyWithHeld(t) == slot.state = "Ready" /\ calls[t].held = "slot"

\* How stale the session is that the caller holds; open_in_lane refuses one
\* whose file or schema cookie has changed.
HeldStaleness(t) == IF calls[t].held = "slot" THEN slot.stale ELSE calls[t].stale

Current(t) == HeldStaleness(t) = "no"

\* The calls, when the session in the slot is given up: those that hold it
\* keep it as their own.
Orphaned ==
    [t \in Callers |-> IF calls[t].held = "slot"
                       THEN [calls[t] EXCEPT !.held = "own", !.stale = slot.stale]
                       ELSE calls[t]]

\* The calls and the slot, when the catalog outgrows every session.
Outgrown(old, how) == IF old = "altered" THEN old ELSE how

CallsOutgrown(how) ==
    [t \in Callers |-> IF calls[t].held = "own"
                       THEN [calls[t] EXCEPT !.stale = Outgrown(@, how)] ELSE calls[t]]

HasSession == slot.state = "Ready" \/ (slot.state = "Maintaining" /\ slot.previous = "Ready")

SlotOutgrown(how) == IF HasSession THEN [slot EXCEPT !.stale = Outgrown(@, how)] ELSE slot

\* catalog_has_active_scan.
catalog_has_active_scan(exempt) ==
    \E s \in Scans \ {exempt} : scans[s].protects /\ scans[s].bound

-----------------------------------------------------------------------------
(* Beginning and ending a call.                                            *)

\* The call returns; the drop of its registration frees the scan identifier.
Leave(t) ==
    /\ calls' = [calls EXCEPT ![t] = IdleCall]
    /\ scans' = IF calls[t].scan = NoScan THEN scans
                ELSE [scans EXCEPT ![calls[t].scan] = Unregistered]

Begin(t, kind, scan, pc) ==
    /\ <<kind, scan>> \in Roles[t]
    /\ calls[t].pc = "idle"
    /\ calls' = [calls EXCEPT ![t].kind = kind, ![t].scan = scan, ![t].pc = pc]
    /\ UNCHANGED <<slot, lock, replacements>>

\* register_scan, for an identifier that is not in use.
StartScan(t, s) ==
    /\ scans[s].owner = "none"
    /\ Begin(t, "scan", s, "bind")
    /\ scans' = [scans EXCEPT ![s].owner = "executing"]

\* resolve_storage and bind_scan_catalog.
BindCatalog(t) ==
    /\ calls[t].pc = "bind"
    /\ \/ /\ scans' = [scans EXCEPT ![calls[t].scan].bound = TRUE]
          /\ calls' = [calls EXCEPT ![t].pc = "session"]
       \/ Leave(t)
    /\ UNCHANGED <<slot, lock, replacements>>

\* cancel_retained_scan: reserve_retained_cancellation.
CancelRetained(t, s) ==
    /\ scans[s].owner = "none"
    /\ Begin(t, "cancel", s, "session")
    /\ scans' = [scans EXCEPT ![s] = [owner |-> "retained", bound |-> TRUE,
                                      protects |-> FALSE]]

OpenCatalog(t) == Begin(t, "open", NoScan, "session") /\ UNCHANGED scans

RecoverIfIdle(t) == Begin(t, "recover", NoScan, "idle_check") /\ UNCHANGED scans

\* with_recovery_catalog_if_idle: the check before the session is looked up.
IdleCheck(t) ==
    /\ calls[t].pc = "idle_check"
    /\ IF catalog_has_active_scan(NoScan)
       THEN Leave(t)
       ELSE calls' = [calls EXCEPT ![t].pc = "session"] /\ UNCHANGED scans
    /\ UNCHANGED <<slot, lock, replacements>>

-----------------------------------------------------------------------------
(* validated_catalog_session_with_exemption.                               *)

\* A validated session is returned to its caller.  A foreground scan and a
\* recovery only renew the session here and look it up again.
Returned(call, held, age) ==
    IF call.refresh /\ call.kind # "open"
    THEN [call EXCEPT !.pc = IF call.kind = "recover" THEN "idle_check" ELSE "session",
                      !.held = "none", !.stale = "no", !.refresh = FALSE]
    ELSE [call EXCEPT !.pc = IF call.kind = "recover" THEN "enter"
                             ELSE IF call.refresh THEN "reopen" ELSE "open",
                      !.held = held, !.stale = age, !.refresh = FALSE]

\* The state is looked at under the lock.
Deciding(t) == calls[t].pc = "session" /\ Unlocked

\* The session is usable for this call: ready, and not the one it found stale.
Usable(t) == slot.state = "Ready" /\ ~(calls[t].refresh /\ calls[t].held = "slot")

Renewable(t) ==
    \/ slot.state \in {"Empty", "Failed"}
    \/ slot.state = "Ready" /\ ~Usable(t)

\* Variant: nobody is asked to make way.
AwaitUpkeepPatiently(t) ==
    /\ Deciding(t)
    /\ slot.state = "Maintaining"
    /\ calls' = [calls EXCEPT ![t].waiting = TRUE, ![t].pc = "await_upkeep"]
    /\ UNCHANGED <<slot, lock, scans, replacements>>

AwaitUpkeep(t) ==
    /\ Deciding(t)
    /\ slot.state = "Maintaining"
    /\ calls' = [calls EXCEPT ![t].waiting = TRUE,
                    ![t].pc = IF Foreground(t) THEN "preempt" ELSE "await_upkeep"]
    /\ UNCHANGED <<slot, lock, scans, replacements>>

TakeReady(t) ==
    /\ Deciding(t)
    /\ Usable(t)
    /\ calls' = [calls EXCEPT ![t] = Returned(calls[t], "slot", "no")]
    /\ UNCHANGED <<slot, lock, scans, replacements>>

AwaitProof(t) ==
    /\ Deciding(t)
    /\ slot.state = "Validating"
    /\ calls' = [calls EXCEPT ![t].waiting = TRUE, ![t].flight = slot.owner,
                    ![t].pc = "await_proof"]
    /\ UNCHANGED <<slot, lock, scans, replacements>>

\* A recent failure is repeated to its callers until retry_after.
RepeatFailure(t) ==
    /\ Deciding(t)
    /\ slot.state = "Failed"
    /\ Leave(t)
    /\ UNCHANGED <<slot, lock, replacements>>

\* catalog_validated_session_stale_while_scan_active.
DeferRenewal(t) ==
    /\ Deciding(t)
    /\ Renewable(t)
    /\ catalog_has_active_scan(calls[t].scan)
    /\ Leave(t)
    /\ UNCHANGED <<slot, lock, replacements>>

BeginValidation(t) ==
    /\ Deciding(t)
    /\ Renewable(t)
    /\ ~catalog_has_active_scan(calls[t].scan)
    /\ slot' = [EmptySlot EXCEPT !.state = "Validating", !.owner = t]
    /\ calls' = [Orphaned EXCEPT ![t].pc = "validate"]
    /\ UNCHANGED <<lock, scans, replacements>>

\* SqliteCatalogSession::validate, which may fail or unwind.
Validate(t) ==
    /\ calls[t].pc = "validate"
    /\ \E held \in {"own", "none"} :
        calls' = [calls EXCEPT ![t].pc = "install", ![t].held = held, ![t].stale = "no"]
    /\ UNCHANGED <<slot, lock, scans, replacements>>

Install(t) ==
    /\ calls[t].pc = "install"
    /\ Unlocked
    /\ IF slot.state = "Validating" /\ slot.owner = t
       THEN /\ slot' = [EmptySlot EXCEPT !.stale = calls[t].stale, !.state =
                            IF calls[t].held = "none" THEN "Failed" ELSE "Ready"]
            /\ calls' = [calls EXCEPT ![t].pc = "announce", ![t].stale = "no", ![t].held =
                            IF @ = "none" THEN "none" ELSE "slot"]
       ELSE /\ calls' = [calls EXCEPT ![t].pc = "announce", ![t].held = "none"]
            /\ UNCHANGED slot
    /\ UNCHANGED <<lock, scans, replacements>>

\* Variant: a validation that failed is not announced.
AnnounceSuccessOnly(t) ==
    /\ calls[t].pc = "announce"
    /\ IF calls[t].held = "none"
       THEN Leave(t)
       ELSE /\ calls' = [u \in Callers |->
                            IF u = t THEN Returned(calls[t], calls[t].held, calls[t].stale)
                            ELSE IF calls[u].waiting /\ calls[u].flight = t
                            THEN [calls[u] EXCEPT !.waiting = FALSE, !.flight = NoCaller,
                                                  !.held = calls[t].held,
                                                  !.stale = calls[t].stale]
                            ELSE calls[u]]
            /\ UNCHANGED scans
    /\ UNCHANGED <<slot, lock, replacements>>

\* CatalogValidationFlight::complete, and the return of the validating call.
Announce(t) ==
    LET told == [u \in Callers |->
                    IF calls[u].waiting /\ calls[u].flight = t
                    THEN [calls[u] EXCEPT !.waiting = FALSE, !.flight = NoCaller,
                                          !.held = calls[t].held,
                                          !.stale = calls[t].stale]
                    ELSE calls[u]]
    IN  /\ calls[t].pc = "announce"
        /\ IF calls[t].held = "none"
           THEN /\ calls' = [told EXCEPT ![t] = IdleCall]
                /\ scans' = IF calls[t].scan = NoScan THEN scans
                            ELSE [scans EXCEPT ![calls[t].scan] = Unregistered]
           ELSE /\ calls' = [told EXCEPT ![t] =
                                Returned(calls[t], calls[t].held, calls[t].stale)]
                /\ UNCHANGED scans
        /\ UNCHANGED <<slot, lock, replacements>>

\* CatalogValidationFlight::wait returns.
ResumeWithProof(t) ==
    /\ calls[t].pc = "await_proof"
    /\ ~calls[t].waiting
    /\ IF calls[t].held = "none"
       THEN Leave(t)
       ELSE /\ calls' = [calls EXCEPT ![t] = Returned(calls[t], calls[t].held, calls[t].stale)]
            /\ UNCHANGED scans
    /\ UNCHANGED <<slot, lock, replacements>>
-----------------------------------------------------------------------------
(* Using the session.                                                      *)

Open(t) ==
    /\ calls[t].pc = "open"
    /\ \/ /\ ~Current(t)
          /\ calls' = [calls EXCEPT ![t].pc = "session", ![t].refresh = TRUE]
          /\ UNCHANGED scans
       \/ /\ Current(t)
          /\ calls' = [calls EXCEPT ![t].pc = IF Foreground(t) THEN "protect" ELSE "using"]
          /\ UNCHANGED scans
       \/ Leave(t)
    /\ UNCHANGED <<slot, lock, replacements>>

\* open_catalog after one renewal: a second stale proof is an error.
Reopen(t) ==
    /\ calls[t].pc = "reopen"
    /\ \/ /\ Current(t)
          /\ calls' = [calls EXCEPT ![t].pc = "using"]
          /\ UNCHANGED scans
       \/ Leave(t)
    /\ UNCHANGED <<slot, lock, replacements>>

\* open_catalog_for_foreground_scan: under the lock, the scan takes the
\* session it opened under its protection, or starts over.
Protect(t) ==
    /\ calls[t].pc = "protect"
    /\ Unlocked
    /\ IF ReadyWithHeld(t)
       THEN /\ scans' = [scans EXCEPT ![calls[t].scan].protects = TRUE]
            /\ calls' = [calls EXCEPT ![t].pc = "using"]
       ELSE /\ calls' = [calls EXCEPT ![t].pc = "session", ![t].held = "none",
                                      ![t].stale = "no"]
            /\ UNCHANGED scans
    /\ UNCHANGED <<slot, lock, replacements>>

\* Variant: the check before the lock has to do.
EnterRecoveryUnchecked(t) ==
    /\ calls[t].pc = "enter"
    /\ Unlocked
    /\ IF ~ReadyWithHeld(t)
       THEN /\ calls' = [calls EXCEPT ![t].pc = "idle_check", ![t].held = "none",
                                      ![t].stale = "no"]
            /\ UNCHANGED lock
       ELSE IF ~Current(t)
       THEN /\ calls' = [calls EXCEPT ![t].pc = "session", ![t].refresh = TRUE]
            /\ UNCHANGED lock
       ELSE /\ calls' = [calls EXCEPT ![t].pc = "recover"]
            /\ lock' = t
    /\ UNCHANGED <<slot, scans, replacements>>

\* with_recovery_catalog_if_idle from its lock to its operation.
EnterRecovery(t) ==
    /\ calls[t].pc = "enter"
    /\ Unlocked
    /\ \/ /\ ~ReadyWithHeld(t)
          /\ calls' = [calls EXCEPT ![t].pc = "idle_check", ![t].held = "none",
                                      ![t].stale = "no"]
          /\ UNCHANGED <<scans, lock>>
       \/ /\ ReadyWithHeld(t)
          /\ ~catalog_has_active_scan(NoScan)
          /\ IF ~Current(t)
             THEN /\ calls' = [calls EXCEPT ![t].pc = "session", ![t].refresh = TRUE]
                  /\ UNCHANGED lock
             ELSE /\ calls' = [calls EXCEPT ![t].pc = "recover"]
                  /\ lock' = t
          /\ UNCHANGED scans
       \/ /\ ReadyWithHeld(t)    \* a scan is active, or the open fails
          /\ Leave(t)
          /\ UNCHANGED lock
    /\ UNCHANGED <<slot, replacements>>

\* The scan, the cancellation or the ordinary use is over.
Done(t) ==
    /\ calls[t].pc = "using"
    /\ Leave(t)
    /\ UNCHANGED <<slot, lock, replacements>>

\* The recovery operation is over and its guard dropped.
RecoveryDone(t) ==
    /\ calls[t].pc = "recover"
    /\ lock' = NoCaller
    /\ Leave(t)
    /\ UNCHANGED <<slot, replacements>>

\* The catalog file is replaced from outside.  An open connection and its
\* identity guard deny that.
ReplaceCatalog ==
    /\ replacements < MaxReplacements
    /\ \A t \in Callers : calls[t].pc \notin {"protect", "using", "recover"}
    /\ upkeep.pc # "attempt"
    /\ slot' = SlotOutgrown("replaced")
    /\ calls' = CallsOutgrown("replaced")
    /\ replacements' = replacements + 1
    /\ UNCHANGED <<lock, scans, upkeep>>

-----------------------------------------------------------------------------
(* Upkeep at the session, and a scan that finds the session reserved.      *)

\* Variant: a scan at work does not keep the session.
SessionBetweenUses == slot.state \in {"Validating", "Maintaining"}

\* Variant: a validation under way does not keep the session.
SessionWithoutScans == slot.state = "Maintaining" \/ catalog_has_active_scan(NoScan)

\* with_reserved_catalog_maintenance refuses.
SessionInUse ==
    slot.state \in {"Validating", "Maintaining"} \/ catalog_has_active_scan(NoScan)

Reserve ==
    /\ Unlocked
    /\ IF SessionInUse
       THEN RefuseSession /\ UNCHANGED slot
       ELSE /\ ReserveSession
            /\ slot' = [slot EXCEPT !.state = "Maintaining", !.previous = slot.state]
    /\ UNCHANGED <<lock, scans, calls, replacements>>

\* A conversion that was not refused may have rewritten the catalog.
Maintain(outcome) ==
    /\ AttemptUpkeep(outcome)
    /\ \/ UNCHANGED <<slot, calls>>
       \/ /\ upkeep.kind = Structural /\ outcome # "busy"
          /\ slot' = SlotOutgrown("altered")
          /\ calls' = CallsOutgrown("altered")
    /\ UNCHANGED <<lock, scans, replacements>>

\* Variant: every attempt that ends normally gives the proof back.
RetainAfterAny ==
    \/ upkeep.outcome = "busy"
    \/ upkeep.outcome \in {"completed", "interrupted"} /\ slot.previous = "Ready"

retain_previous ==
    \/ upkeep.outcome = "busy"
    \/ /\ upkeep.outcome \in {"completed", "interrupted"}
       /\ upkeep.kind = Incremental /\ slot.previous = "Ready"

\* CatalogMaintenanceReservation::drop under the lock.
Release ==
    /\ Unlocked
    /\ ReleaseSession
    /\ IF retain_previous
       THEN /\ slot' = [slot EXCEPT !.state = slot.previous, !.previous = "Empty"]
            /\ UNCHANGED calls
       ELSE slot' = EmptySlot /\ calls' = Orphaned
    /\ UNCHANGED <<lock, scans, replacements>>

AtUpkeep(t) == calls[t].pc \in {"preempt", "fire", "await_upkeep"}

\* CatalogMaintenanceFlight::finish.
FinishFlight ==
    /\ AnnounceRelease
    /\ calls' = [t \in Callers |-> IF AtUpkeep(t)
                                   THEN [calls[t] EXCEPT !.waiting = FALSE] ELSE calls[t]]
    /\ UNCHANGED <<slot, lock, scans, replacements>>

\* begin_attempt and finish_attempt.  A preemption that was captured before an
\* attempt begins is not aimed at that attempt.
BeginAttempt ==
    /\ BeginUpkeep
    /\ calls' = [t \in Callers |-> [calls[t] EXCEPT !.aimed = FALSE]]
    /\ UNCHANGED <<slot, lock, scans, replacements>>

FinishAttempt == EndUpkeep /\ UNCHANGED session

\* A user cancels the operation, or a writer of higher priority preempts it.
Interrupt == InterruptUpkeep /\ UNCHANGED session

\* preempt_catalog_reclamation: the control of the attempt is captured under
\* the registry's lock and used after it.
PreemptUpkeep(t) ==
    /\ calls[t].pc = "preempt"
    /\ calls' = IF upkeep.pc = "idle"
                THEN [calls EXCEPT ![t].pc = "await_upkeep"]
                ELSE [calls EXCEPT ![t].pc = "fire", ![t].aimed = TRUE]
    /\ UNCHANGED <<slot, lock, scans, replacements, upkeep>>

FireAtUpkeep(t) ==
    /\ calls[t].pc = "fire"
    /\ \/ calls[t].aimed /\ InterruptUpkeep
       \/ ~(calls[t].aimed /\ upkeep.pc \in {"reserve", "attempt"}) /\ UNCHANGED upkeep
    /\ calls' = [calls EXCEPT ![t].pc = "await_upkeep", ![t].aimed = FALSE]
    /\ UNCHANGED <<slot, lock, scans, replacements>>

\* CatalogMaintenanceFlight::wait returns, and the state is looked at again.
ResumeAfterUpkeep(t) ==
    /\ calls[t].pc = "await_upkeep"
    /\ ~calls[t].waiting
    /\ calls' = [calls EXCEPT ![t].pc = "session"]
    /\ UNCHANGED <<slot, lock, scans, replacements>>

-----------------------------------------------------------------------------

Decide(t) ==
    \/ AwaitUpkeep(t) \/ TakeReady(t) \/ AwaitProof(t) \/ RepeatFailure(t)
    \/ DeferRenewal(t) \/ BeginValidation(t)

StartCall(t) ==
    \/ \E s \in Scans : StartScan(t, s) \/ CancelRetained(t, s)
    \/ OpenCatalog(t)
    \/ RecoverIfIdle(t)

\* The steps of a call, but for the two at the reclamation registry.
CallStep(t) ==
    /\ \/ BindCatalog(t) \/ IdleCheck(t) \/ Decide(t)
       \/ Validate(t) \/ Install(t) \/ Announce(t) \/ ResumeWithProof(t)
       \/ Open(t) \/ Reopen(t) \/ Protect(t) \/ EnterRecovery(t) \/ RecoveryDone(t)
       \/ ResumeAfterUpkeep(t)
    /\ UNCHANGED upkeep

PreemptStep(t) == PreemptUpkeep(t) \/ FireAtUpkeep(t)

UpkeepStep == Reserve \/ Release \/ FinishFlight \/ FinishAttempt

Maintains == \E outcome \in UpkeepOutcomes : Maintain(outcome)

Next ==
    \/ \E t \in Callers : (StartCall(t) \/ Done(t)) /\ UNCHANGED upkeep
    \/ \E t \in Callers : CallStep(t) \/ PreemptStep(t)
    \/ BeginAttempt \/ UpkeepStep \/ Maintains \/ Interrupt
    \/ ReplaceCatalog

Init == UpkeepInit /\ SessionInit

(* Threads run, a recovery operation ends, and an interrupted attempt      *)
(* ends; a scan may run for ever and so may an attempt nobody interrupts.  *)
Fairness ==
    /\ \A t \in Callers : WF_vars(CallStep(t)) /\ WF_vars(PreemptStep(t))
    /\ WF_vars(UpkeepStep)
    /\ WF_vars(upkeep.interrupted /\ Maintains)

Spec == Init /\ [][Next]_vars /\ Fairness

-----------------------------------------------------------------------------
(* Properties.                                                             *)

\* The catalog a foreground scan works on stays the one it was admitted to:
\* from its protection to its end the session slot holds the very proof the
\* scan opened, nobody validates or maintains the catalog, and the catalog
\* still has the schema and the file that proof is about.
ScanKeepsItsSession ==
    \A t \in Callers :
        calls[t].pc = "using" /\ Foreground(t) =>
            ReadyWithHeld(t) /\ Current(t)

\* Recovery of interrupted scans runs alone: no foreground scan protects the
\* catalog, nothing maintains or validates it, and the session is current.
RecoveryRunsAlone ==
    \A t \in Callers :
        calls[t].pc = "recover" =>
            /\ lock = t
            /\ ReadyWithHeld(t) /\ Current(t)
            /\ \A s \in Scans : ~scans[s].protects

\* A session that is offered for reuse was validated after the last rewrite of
\* the catalog's structure: only page reclamation, and attempts that were
\* refused, give a proof back.
ReadySessionSurvivesUpkeep ==
    slot.state = "Ready" => slot.stale # "altered"

\* Whoever waits for a validation or for maintenance waits for a thread that is
\* still going to wake it, on every way out of that thread.
WaiterHasWaker ==
    \A t \in Callers : calls[t].waiting =>
        IF calls[t].pc = "await_proof"
        THEN calls[calls[t].flight].pc \in {"validate", "install", "announce"}
        ELSE upkeep.pc \in {"attempt", "release", "announce"}

\* A foreground scan never waits for ever: neither for a reservation held by
\* an attempt that would otherwise run on, nor for another caller's validation.
ForegroundWaitEnds ==
    \A t \in Callers : Foreground(t) /\ calls[t].waiting ~> ~calls[t].waiting
=============================================================================
