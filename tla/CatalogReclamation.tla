-------------------------- MODULE CatalogReclamation --------------------------
(***************************************************************************)
(* The background reclamation of catalog pages: the per-catalog registry   *)
(* of application/catalog_reclamation/operation_registry.rs, the worker    *)
(* loop of catalog_reclamation.rs and execution.rs, and the control of one *)
(* maintenance attempt (ports.rs).                                         *)
(*                                                                         *)
(* A token is the identity of one execution (Arc<RunToken>).  An execution *)
(* whose thread is gone frees its token for a later one, unless the thread *)
(* unwound: nothing in the registry learns of that.  The sizes the policy  *)
(* compares are left out, and with them the phase CheckingCapacity, so a   *)
(* stage may be followed by any stage that some sizes lead to.  Whether    *)
(* the catalog session can be reserved, which conversion and page          *)
(* reclamation ask for, is left open here: the session is modelled beside  *)
(* CatalogUpkeep, which this module implements.                            *)
(***************************************************************************)
CONSTANTS
    Tokens,         \* the identities of executions
    Operations,     \* the identifiers requests carry
    Clients,        \* the threads that request, cancel and preempt
    NoToken,
    NoOperation

ASSUME TokensAssumption ==
    /\ NoToken \notin Tokens
    /\ NoOperation \notin Operations
    /\ \E v, w \in Tokens : v # w

VARIABLES
    registry,       \* the registry entry of the catalog: Entry and State
    runs,           \* each execution: its thread's place and its control
    clients,        \* what each client thread carries between two lock holds
    cancels         \* history: the operations cancelled since they last started

reclamation == <<registry, runs, clients, cancels>>

Stages == {"discard", "inspect", "convert", "reclaim", "checkpoint"}

\* The stages whose attempts reserve the catalog session.
Reserving == {"convert", "reclaim"}

Terminal == {"Completed", "Cancelled", "Failed"}

Phases == {"Idle", "Queued", "Inspecting", "Converting", "Reclaiming",
           "WaitingForIdle"} \cup Terminal

Places == {"none", "spawn", "enter", "check", "inspect", "begin", "reserve",
           "attempt", "release", "announce", "ended", "backoff", "finish", "dead"}

\* From begin_attempt to finish_attempt.
AttemptPlaces == {"reserve", "attempt", "release", "announce", "ended"}

Outcomes == {"none", "completed", "busy", "interrupted", "error", "unwind"}

Entries == [known : BOOLEAN, run : Tokens \cup {NoToken},
            pending : Operations \cup {NoOperation},
            operation : Operations \cup {NoOperation},
            phase : Phases, control : Tokens \cup {NoToken}]

Runs == [pc : Places, stage : Stages, cancelled : BOOLEAN,
         preempted : BOOLEAN, outcome : Outcomes]

ClientStates == [pc : {"idle", "spawn", "fire"}, token : Tokens \cup {NoToken}]

ReclamationTypeOK ==
    /\ registry \in Entries
    /\ runs \in [Tokens -> Runs]
    /\ clients \in [Clients -> ClientStates]
    /\ cancels \subseteq Operations

NoRun == [pc |-> "none", stage |-> "discard", cancelled |-> FALSE,
          preempted |-> FALSE, outcome |-> "none"]

IdleClient == [pc |-> "idle", token |-> NoToken]

ReclamationInit ==
    /\ registry = [known |-> FALSE, run |-> NoToken, pending |-> NoOperation,
                   operation |-> NoOperation, phase |-> "Idle", control |-> NoToken]
    /\ runs = [w \in Tokens |-> NoRun]
    /\ clients = [c \in Clients |-> IdleClient]
    /\ cancels = {}

-----------------------------------------------------------------------------
(* The registry.                                                           *)

owns(w) == registry.run = w

\* State::start, on the entry r.
start(r, w, op) ==
    [r EXCEPT !.operation = op, !.phase = "Queued", !.run = w, !.control = NoToken]

NewRun(pc) == [NoRun EXCEPT !.pc = pc]

Unused(w) == runs[w].pc = "none"

\* Clients that hold the control of an attempt of w are left with the control
\* of an attempt that is over.
Retired(w) ==
    [c \in Clients |-> IF clients[c].pc = "fire" /\ clients[c].token = w
                       THEN [clients[c] EXCEPT !.token = NoToken] ELSE clients[c]]

\* CatalogReclamationOperation::update of the phase.
update(w, phase) ==
    IF owns(w) THEN [registry EXCEPT !.phase = phase] ELSE registry

\* CatalogReclamationRegistry::admit, while an execution owns the entry.
AdmitBehind(c, op, replace) ==
    /\ clients[c].pc = "idle"
    /\ registry.run # NoToken
    /\ registry' = [registry EXCEPT !.pending = IF replace THEN op ELSE @]
    /\ UNCHANGED <<runs, clients, cancels>>

\* Variant: a worker that waits for an idle catalog is taken for retired.
AdmitBesideWaiting(c, op, replace) ==
    /\ clients[c].pc = "idle"
    /\ registry.run = NoToken \/ registry.phase = "WaitingForIdle"
    /\ ~registry.known \/ replace
    /\ \E w \in Tokens :
        /\ Unused(w)
        /\ registry' = [start(registry, w, op) EXCEPT !.known = TRUE]
        /\ runs' = [runs EXCEPT ![w] = NewRun("spawn")]
        /\ clients' = [clients EXCEPT ![c] = [pc |-> "spawn", token |-> w]]
    /\ cancels' = cancels \ {op}

\* admit, when this request starts the execution the caller then spawns.
AdmitFirst(c, op, replace) ==
    /\ clients[c].pc = "idle"
    /\ registry.run = NoToken
    /\ ~registry.known \/ replace
    /\ \E w \in Tokens :
        /\ Unused(w)
        /\ registry' = [start(registry, w, op) EXCEPT !.known = TRUE]
        /\ runs' = [runs EXCEPT ![w] = NewRun("spawn")]
        /\ clients' = [clients EXCEPT ![c] = [pc |-> "spawn", token |-> w]]
    /\ cancels' = cancels \ {op}

\* schedule: the thread is created.
Spawned(c) ==
    /\ clients[c].pc = "spawn"
    /\ runs' = [runs EXCEPT ![clients[c].token].pc = "enter"]
    /\ clients' = [clients EXCEPT ![c] = IdleClient]
    /\ UNCHANGED <<registry, cancels>>

\* Variant: the lost worker stays the owner.
WorkerStaysOwner(w) ==
    IF ~owns(w) THEN registry
    ELSE [registry EXCEPT
            !.operation = IF registry.pending = NoOperation THEN @ ELSE registry.pending,
            !.pending = NoOperation, !.control = NoToken, !.phase = "Failed"]

\* CatalogReclamationOperation::worker_unavailable: the request that waits
\* behind the lost worker fails with it.
worker_unavailable(w) ==
    IF ~owns(w) THEN registry
    ELSE [registry EXCEPT
            !.operation = IF registry.pending = NoOperation THEN @ ELSE registry.pending,
            !.pending = NoOperation, !.run = NoToken, !.control = NoToken,
            !.phase = "Failed"]

\* schedule: the thread cannot be created.
SpawnFails(c) ==
    /\ clients[c].pc = "spawn"
    /\ registry' = worker_unavailable(clients[c].token)
    /\ runs' = [runs EXCEPT ![clients[c].token] = NoRun]
    /\ clients' = [Retired(clients[c].token) EXCEPT ![c] = IdleClient]
    /\ UNCHANGED cancels

\* Variant: an operation that is over is marked as cancelled.
CancelAfterTheEnd(op) ==
    /\ registry.operation = op
    /\ \/ /\ registry.run # NoToken
          /\ runs' = [runs EXCEPT ![registry.run].cancelled = TRUE]
          /\ cancels' = cancels \cup {op}
          /\ UNCHANGED registry
       \/ /\ registry.run = NoToken
          /\ registry' = [registry EXCEPT !.phase = "Cancelled"]
          /\ UNCHANGED <<runs, cancels>>
    /\ UNCHANGED clients

\* CatalogReclamationRegistry::cancel, when it finds the operation running.
Cancel(op) ==
    /\ registry.operation = op
    /\ registry.run # NoToken
    /\ runs' = [runs EXCEPT ![registry.run].cancelled = TRUE]
    /\ cancels' = cancels \cup {op}
    /\ UNCHANGED <<registry, clients>>

\* CatalogReclamationRegistry::preempt, first half: the control of the
\* current attempt is taken under the lock and used after it.
CapturePreempt(c) ==
    /\ clients[c].pc = "idle"
    /\ registry.control # NoToken
    /\ clients' = [clients EXCEPT ![c] = [pc |-> "fire", token |-> registry.control]]
    /\ UNCHANGED <<registry, runs, cancels>>

FirePreempt(c) ==
    /\ clients[c].pc = "fire"
    /\ runs' = IF clients[c].token = NoToken THEN runs
               ELSE [runs EXCEPT ![clients[c].token].preempted = TRUE]
    /\ clients' = [clients EXCEPT ![c] = IdleClient]
    /\ UNCHANGED <<registry, cancels>>
-----------------------------------------------------------------------------
(* The worker.                                                             *)

\* The phase retry_controlled_maintenance shows while a stage is attempted.
active_phase(stage) ==
    CASE stage = "inspect" -> registry.phase
      [] stage = "convert" -> "Converting"
      [] OTHER -> "Reclaiming"

\* run_reclamation_inner up to the first stage of execution::run.
Enter(w) ==
    /\ runs[w].pc = "enter"
    /\ registry' = update(w, "Inspecting")
    /\ runs' = [runs EXCEPT ![w].pc = "check", ![w].stage = "discard"]
    /\ UNCHANGED <<clients, cancels>>

\* The head of a retry loop.
Check(w) ==
    /\ runs[w].pc = "check"
    /\ IF runs[w].cancelled
       THEN /\ runs' = [runs EXCEPT ![w].pc = "finish", ![w].outcome = "interrupted"]
            /\ UNCHANGED registry
       ELSE /\ runs' = [runs EXCEPT ![w].pc =
                            IF runs[w].stage = "inspect" THEN "inspect" ELSE "begin"]
            /\ registry' = update(w, active_phase(runs[w].stage))
    /\ UNCHANGED <<clients, cancels>>

\* Variant: the control is not put into the entry.
BeginUnregisteredAttempt(w) ==
    /\ runs[w].pc = "begin"
    /\ runs' = [runs EXCEPT ![w].preempted = FALSE, ![w].pc =
                    IF runs[w].stage \in Reserving THEN "reserve" ELSE "attempt"]
    /\ clients' = Retired(w)
    /\ UNCHANGED <<registry, cancels>>

\* begin_attempt: a new control, whose preemption no earlier caller holds.
BeginAttempt(w) ==
    /\ runs[w].pc = "begin"
    /\ IF owns(w)
       THEN /\ registry' = [registry EXCEPT !.control = w]
            /\ runs' = [runs EXCEPT ![w].preempted = FALSE, ![w].pc =
                            IF runs[w].stage \in Reserving THEN "reserve" ELSE "attempt"]
            /\ clients' = Retired(w)
       ELSE /\ runs' = [runs EXCEPT ![w].pc = "finish", ![w].outcome = "error"]
            /\ UNCHANGED <<registry, clients>>
    /\ UNCHANGED cancels

\* with_reserved_catalog_maintenance: the session is reserved, or is in use.
ReserveSession(w) ==
    /\ runs[w].pc = "reserve"
    /\ runs' = [runs EXCEPT ![w].pc = "attempt"]
    /\ UNCHANGED <<registry, clients, cancels>>

SessionBusy(w) ==
    /\ runs[w].pc = "reserve"
    /\ runs' = [runs EXCEPT ![w].pc = "ended", ![w].outcome = "busy"]
    /\ UNCHANGED <<registry, clients, cancels>>

\* Variant: a user's cancellation is looked for between the attempts only.
IsPreempted(w) == runs[w].preempted

\* CatalogMaintenanceControl::is_interrupted.
is_interrupted(w) == runs[w].cancelled \/ runs[w].preempted

\* What SQLite and the checks around it can return: nothing is reported as
\* completed once the attempt has been interrupted.
AttemptOutcomes(w) ==
    {"busy", "error", "unwind"}
        \cup (IF is_interrupted(w) THEN {"interrupted"} ELSE {"completed"})

\* Variant: an unwinding attempt keeps its reservation.
AttemptLeaksReservation(w, outcome) ==
    /\ runs[w].pc = "attempt"
    /\ outcome \in AttemptOutcomes(w)
    /\ runs' = [runs EXCEPT ![w].outcome = outcome, ![w].pc =
                    IF outcome = "unwind" THEN "dead"
                    ELSE IF runs[w].stage \in Reserving THEN "release" ELSE "ended"]
    /\ UNCHANGED <<registry, clients, cancels>>

\* The maintenance call returns, or its thread unwinds; the reservation of the
\* session, if there is one, is dropped on both ways out.
Attempt(w, outcome) ==
    /\ runs[w].pc = "attempt"
    /\ outcome \in AttemptOutcomes(w)
    /\ runs' = [runs EXCEPT ![w].outcome = outcome, ![w].pc =
                    IF runs[w].stage \in Reserving THEN "release"
                    ELSE IF outcome = "unwind" THEN "dead" ELSE "ended"]
    /\ UNCHANGED <<registry, clients, cancels>>

\* A writer of higher priority preempts the holder of the write permit through
\* the callback try_open_write registered.
WriterPreempts(w) ==
    /\ runs[w].pc = "attempt"
    /\ runs' = [runs EXCEPT ![w].preempted = TRUE]
    /\ UNCHANGED <<registry, clients, cancels>>

\* CatalogMaintenanceReservation::drop, under the session lock and after it.
ReleaseSession(w) ==
    /\ runs[w].pc = "release"
    /\ runs' = [runs EXCEPT ![w].pc = "announce"]
    /\ UNCHANGED <<registry, clients, cancels>>

AnnounceRelease(w) ==
    /\ runs[w].pc = "announce"
    /\ runs' = [runs EXCEPT ![w].pc =
                    IF runs[w].outcome = "unwind" THEN "dead" ELSE "ended"]
    /\ UNCHANGED <<registry, clients, cancels>>

\* execution::run: the stages some sizes make follow a completed one.
NextStages(stage) ==
    CASE stage = "discard" -> {"discard", "inspect"}
      [] stage = "inspect" -> {"convert", "reclaim", "checkpoint"}
      [] stage = "convert" -> {"reclaim", "checkpoint"}
      [] OTHER -> {"reclaim", "checkpoint"}

\* The place and stage after a completed stage.  A conversion for which the
\* disk is too small, and a batch that releases nothing, are errors.
Advanced(run) ==
    IF run.stage = "checkpoint" THEN {[run EXCEPT !.pc = "finish"]}
    ELSE {[run EXCEPT !.pc = "check", !.stage = s] : s \in NextStages(run.stage)}
         \cup (IF run.stage \in {"inspect", "reclaim"}
               THEN {[run EXCEPT !.pc = "finish", !.outcome = "error"]} ELSE {})

\* finish_attempt, and what the retry loop makes of the result.
EndAttempt(w) ==
    LET run == runs[w]
        closed == IF owns(w) THEN [registry EXCEPT !.control = NoToken] ELSE registry
    IN  /\ run.pc = "ended"
        /\ CASE run.outcome = "completed" ->
                    /\ \E next \in Advanced(run) : runs' = [runs EXCEPT ![w] = next]
                    /\ registry' = closed
             [] run.outcome = "error" \/ (run.outcome = "interrupted" /\ run.cancelled) ->
                    /\ runs' = [runs EXCEPT ![w].pc = "finish"]
                    /\ registry' = closed
             [] OTHER ->
                    /\ runs' = [runs EXCEPT ![w].pc = "backoff"]
                    /\ registry' = IF owns(w) THEN [closed EXCEPT !.phase = "WaitingForIdle"]
                                   ELSE closed
        /\ UNCHANGED <<clients, cancels>>

\* inspect_with_retry after its check: no attempt is begun.
Inspect(w, outcome) ==
    /\ runs[w].pc = "inspect"
    /\ CASE outcome = "completed" ->
                /\ \E next \in Advanced(runs[w]) : runs' = [runs EXCEPT ![w] = next]
                /\ UNCHANGED registry
         [] outcome = "busy" ->
                /\ runs' = [runs EXCEPT ![w].pc = "backoff"]
                /\ registry' = update(w, "WaitingForIdle")
         [] outcome = "error" ->
                /\ runs' = [runs EXCEPT ![w].pc = "finish", ![w].outcome = "error"]
                /\ UNCHANGED registry
         [] OTHER -> /\ runs' = [runs EXCEPT ![w].pc = "dead"]
                     /\ UNCHANGED registry
    /\ UNCHANGED <<clients, cancels>>

\* wait_with_cancellation.
Backoff(w) ==
    /\ runs[w].pc = "backoff"
    /\ runs' = IF runs[w].cancelled
               THEN [runs EXCEPT ![w].pc = "finish", ![w].outcome = "interrupted"]
               ELSE [runs EXCEPT ![w].pc = "check"]
    /\ UNCHANGED <<registry, clients, cancels>>

\* Variant: a failure is published as it came.
ResultPhaseOfError(outcome) ==
    CASE outcome = "completed"   -> "Completed"
      [] outcome = "interrupted" -> "Cancelled"
      [] OTHER                   -> outcome

ResultPhase(outcome) ==
    CASE outcome = "completed"   -> "Completed"
      [] outcome = "interrupted" -> "Cancelled"
      [] OTHER                   -> "Failed"

\* Variant: the worker retires and leaves the waiting request to others.
FinishLeavesPending(w) ==
    /\ runs[w].pc = "finish"
    /\ registry' = [registry EXCEPT !.control = NoToken, !.run = NoToken,
                        !.phase = ResultPhase(runs[w].outcome)]
    /\ runs' = [runs EXCEPT ![w] = NoRun]
    /\ clients' = Retired(w)
    /\ UNCHANGED cancels

\* Variant: the waiting request goes on with the cancellation flag in place.
FinishKeepsFlag(w) ==
    /\ runs[w].pc = "finish"
    /\ IF registry.pending # NoOperation
       THEN \E v \in Tokens :
                /\ Unused(v)
                /\ registry' = [start(registry, v, registry.pending)
                                    EXCEPT !.pending = NoOperation]
                /\ runs' = [runs EXCEPT ![w] = NoRun, ![v] =
                                [NewRun("enter") EXCEPT !.cancelled = runs[w].cancelled]]
                /\ cancels' = cancels \ {registry.pending}
       ELSE /\ registry' = [registry EXCEPT !.control = NoToken, !.run = NoToken,
                                !.phase = ResultPhase(runs[w].outcome)]
            /\ runs' = [runs EXCEPT ![w] = NoRun]
            /\ UNCHANGED cancels
    /\ clients' = Retired(w)

\* run_reclamation: finish retires the execution and, under the same lock,
\* hands a waiting request to this thread under a token of its own.
Finish(w) ==
    /\ runs[w].pc = "finish"
    /\ IF ~owns(w)
       THEN /\ registry' = worker_unavailable(w)
            /\ runs' = [runs EXCEPT ![w] = NoRun]
            /\ UNCHANGED cancels
       ELSE IF registry.pending # NoOperation
       THEN \E v \in Tokens :
                /\ Unused(v)
                /\ registry' = [start(registry, v, registry.pending)
                                    EXCEPT !.pending = NoOperation]
                /\ runs' = [runs EXCEPT ![w] = NoRun, ![v] = NewRun("enter")]
                /\ cancels' = cancels \ {registry.pending}
       ELSE /\ registry' = [registry EXCEPT !.control = NoToken, !.run = NoToken,
                                !.phase = ResultPhase(runs[w].outcome)]
            /\ runs' = [runs EXCEPT ![w] = NoRun]
            /\ UNCHANGED cancels
    /\ clients' = Retired(w)

Request(c) ==
    \/ \E op \in Operations, replace \in BOOLEAN :
            AdmitBehind(c, op, replace) \/ AdmitFirst(c, op, replace)
    \/ Spawned(c)
    \/ SpawnFails(c)

Preempt(c) == CapturePreempt(c) \/ FirePreempt(c)

\* The worker's steps, but for those that touch the catalog session.
OwnStep(w) ==
    \/ Enter(w) \/ Check(w) \/ BeginAttempt(w) \/ EndAttempt(w)
    \/ \E outcome \in {"completed", "busy", "error", "unwind"} : Inspect(w, outcome)
    \/ Backoff(w) \/ Finish(w)

SessionStep(w) ==
    \/ ReserveSession(w) \/ SessionBusy(w)
    \/ ReleaseSession(w) \/ AnnounceRelease(w)

AttemptStep(w) == \E outcome \in Outcomes : Attempt(w, outcome)

ReclamationNext ==
    \/ \E c \in Clients : Request(c) \/ Preempt(c)
    \/ \E op \in Operations : Cancel(op)
    \/ \E w \in Tokens : OwnStep(w) \/ SessionStep(w) \/ AttemptStep(w) \/ WriterPreempts(w)

(* A worker thread runs.  Nothing bounds how long SQLite works on an       *)
(* attempt, but the progress handler and the interrupt handle end one that *)
(* has been interrupted.  A client that spawns or preempts does so.        *)
ReclamationFairness ==
    /\ \A w \in Tokens : WF_reclamation(OwnStep(w) \/ SessionStep(w))
    /\ \A w \in Tokens : WF_reclamation(is_interrupted(w) /\ AttemptStep(w))
    /\ \A c \in Clients : WF_reclamation(Spawned(c)) /\ WF_reclamation(FirePreempt(c))

ReclamationSpec ==
    ReclamationInit /\ [][ReclamationNext]_reclamation /\ ReclamationFairness
-----------------------------------------------------------------------------
(* Properties.                                                             *)

\* There is never more than one worker thread: every execution that is under
\* way, or about to be spawned, is the one the registry entry names (admit and
\* finish decide under the same lock).
OneExecution == \A w \in Tokens : runs[w].pc # "none" => registry.run = w

\* The snapshot a client polls says that work is under way exactly while an
\* execution owns the entry, so no late update of a retired worker turns a
\* terminal snapshot back into an active one.
SnapshotMatchesOwner ==
    registry.run = NoToken <=> registry.phase \in Terminal \cup {"Idle"}

\* A request that waits behind an execution has a thread that will take it
\* over: admission never queues behind a retired worker, and a worker whose
\* thread cannot be created takes the waiting request down with it.  A worker
\* that unwound counts as an owner here: the registry does not learn of it.
WaitingRequestHasOwner ==
    registry.pending # NoOperation =>
        registry.run # NoToken /\ runs[registry.run].pc # "none"

\* A cancellation stops the execution of the operation it names and no later
\* one: an execution is cancelled only if its operation was cancelled after it
\* started, even when the thread goes on with a waiting request.
CancelReachesOnlyItsExecution ==
    \A w \in Tokens : runs[w].cancelled =>
        registry.run = w /\ registry.operation \in cancels

\* While an attempt is under way the entry holds its control, so a preemption
\* requested now reaches it (begin_attempt precedes the reservation of the
\* session, finish_attempt follows its release).
AttemptIsReachable ==
    \A w \in Tokens : runs[w].pc \in AttemptPlaces => registry.control = w

SnapshotChanges ==
    registry'.phase # registry.phase \/ registry'.operation # registry.operation

\* What a client has read from a terminal snapshot stays true until a new
\* request starts: its phase and its operation change only together with a
\* fresh execution.
TerminalSnapshotStays ==
    [][registry.phase \in Terminal /\ SnapshotChanges =>
        /\ registry.run = NoToken /\ registry'.run # NoToken
        /\ registry'.phase = "Queued" /\ Unused(registry'.run)]_reclamation

\* A cancelled execution stops, whatever SQLite was doing for it.
CancelStopsTheRun ==
    \A w \in Tokens : runs[w].cancelled ~> runs[w].pc \in {"none", "dead"}

\* The attempt that reserves the catalog session, as CatalogSession sees it.
Reservation(w) ==
    LET pc == runs[w].pc
    IN  [pc |-> pc,
         kind |-> IF runs[w].stage = "reclaim" /\ pc \notin {"announce", "ended"}
                  THEN "incremental" ELSE "structural",
         interrupted |-> pc \in {"reserve", "attempt"} /\ is_interrupted(w),
         outcome |-> IF pc = "release" \/ (pc = "announce" /\ runs[w].outcome = "unwind")
                     THEN runs[w].outcome ELSE "none"]

ReservingAttempt ==
    IF /\ registry.run # NoToken
       /\ runs[registry.run].stage \in Reserving
       /\ runs[registry.run].pc \in AttemptPlaces
    THEN Reservation(registry.run)
    ELSE [pc |-> "idle", kind |-> "structural", interrupted |-> FALSE, outcome |-> "none"]

Upkeep == INSTANCE CatalogUpkeep WITH upkeep <- ReservingAttempt

\* The registry and its workers are a maintainer the catalog session can rely
\* on: one attempt at a time, given back on every way out, and stopped by an
\* interruption.
MaintainsAsPromised == Upkeep!UpkeepSpec
=============================================================================
