----------------------- MODULE CatalogReclamationProofs -----------------------
(***************************************************************************)
(* The safety of the reclamation registry for any number of tokens,        *)
(* operations and clients.                                                 *)
(*                                                                         *)
(* Inv strengthens the properties by two facts about the window between    *)
(* admission and the start of the thread: the owner named in the entry     *)
(* exists, and the client that is about to create a thread does so for an  *)
(* execution that only it can start.                                       *)
(***************************************************************************)
EXTENDS CatalogReclamation, TLAPS

Exists(w) == runs[w].pc # "none"

OwnerExists == registry.run # NoToken => Exists(registry.run)

PendingHasOwner == registry.pending # NoOperation => registry.run # NoToken

SpawnerOwns ==
    \A c \in Clients : clients[c].pc = "spawn" =>
        /\ clients[c].token \in Tokens
        /\ runs[clients[c].token].pc = "spawn"
        /\ \A d \in Clients :
            clients[d].pc = "spawn" /\ clients[d].token = clients[c].token => d = c

Inv ==
    /\ ReclamationTypeOK
    /\ OneExecution
    /\ OwnerExists
    /\ SnapshotMatchesOwner
    /\ PendingHasOwner
    /\ CancelReachesOnlyItsExecution
    /\ AttemptIsReachable
    /\ SpawnerOwns

-----------------------------------------------------------------------------
(* Types.                                                                  *)

\* The constant records of the model are well-typed.
LEMMA ConstantTypes ==
    /\ NoRun \in Runs
    /\ IdleClient \in ClientStates
    /\ \A pc \in Places : NewRun(pc) \in Runs
BY DEF NoRun, Runs, IdleClient, ClientStates, NewRun, Places, Stages, Outcomes

\* The phases the registry and the worker set.
LEMMA PhaseTypes ==
    /\ {"Idle", "Queued", "Inspecting", "Converting", "Reclaiming", "WaitingForIdle"}
            \cup Terminal \subseteq Phases
    /\ \A outcome \in Outcomes : ResultPhase(outcome) \in Terminal
    /\ \A stage \in Stages : registry.phase \in Phases => active_phase(stage) \in Phases
BY DEF Phases, Terminal, ResultPhase, Outcomes, active_phase, Stages

\* State::start keeps the entry well-typed.
LEMMA StartType ==
    ASSUME registry \in Entries, NEW w \in Tokens, NEW op \in Operations
    PROVE  start(registry, w, op) \in Entries
BY PhaseTypes DEF Entries, start

\* So does worker_unavailable.
LEMMA UnavailableType ==
    ASSUME registry \in Entries, NEW w \in Tokens
    PROVE  worker_unavailable(w) \in Entries
BY PhaseTypes DEF Entries, worker_unavailable, owns, Terminal

\* So does update.
LEMMA UpdateType ==
    ASSUME registry \in Entries, NEW w \in Tokens, NEW phase \in Phases
    PROVE  update(w, phase) \in Entries
BY DEF Entries, update, owns

\* Retiring a control keeps the clients well-typed.
LEMMA RetiredType ==
    ASSUME clients \in [Clients -> ClientStates], NEW w \in Tokens
    PROVE  Retired(w) \in [Clients -> ClientStates]
BY DEF Retired, ClientStates

\* Requests keep the types.
LEMMA RequestTypes ==
    ASSUME Inv, NEW c \in Clients, Request(c)
    PROVE  ReclamationTypeOK'
<1> USE ConstantTypes, StartType, UnavailableType, RetiredType
      DEF Inv, ReclamationTypeOK
<1>1. ASSUME NEW op \in Operations, NEW replace \in BOOLEAN, AdmitBehind(c, op, replace)
      PROVE  ReclamationTypeOK'
  BY <1>1 DEF AdmitBehind, Entries
<1>2. ASSUME NEW op \in Operations, NEW replace \in BOOLEAN, AdmitFirst(c, op, replace)
      PROVE  ReclamationTypeOK'
  <2> PICK w \in Tokens :
        /\ registry' = [start(registry, w, op) EXCEPT !.known = TRUE]
        /\ runs' = [runs EXCEPT ![w] = NewRun("spawn")]
        /\ clients' = [clients EXCEPT ![c] = [pc |-> "spawn", token |-> w]]
    BY <1>2 DEF AdmitFirst
  <2>1. registry' \in Entries
    BY DEF Entries
  <2>2. runs' \in [Tokens -> Runs]
    BY DEF Places
  <2>3. clients' \in [Clients -> ClientStates]
    BY DEF ClientStates
  <2>4. cancels' \subseteq Operations
    BY <1>2 DEF AdmitFirst
  <2> QED
    BY <2>1, <2>2, <2>3, <2>4
<1>3. ASSUME Spawned(c)
      PROVE  ReclamationTypeOK'
  <2>1. clients[c].token \in Tokens /\ runs[clients[c].token] \in Runs
    BY <1>3 DEF Spawned, SpawnerOwns
  <2>2. runs' \in [Tokens -> Runs]
    BY <1>3, <2>1 DEF Spawned, Runs, Places
  <2> QED
    BY <1>3, <2>2 DEF Spawned
<1>4. ASSUME SpawnFails(c)
      PROVE  ReclamationTypeOK'
  <2>1. clients[c].token \in Tokens
    BY <1>4 DEF SpawnFails, SpawnerOwns
  <2> QED
    BY <1>4, <2>1 DEF SpawnFails
<1> QED
  BY <1>1, <1>2, <1>3, <1>4 DEF Request

\* Cancellations and preemptions keep the types.
LEMMA InterruptTypes ==
    ASSUME Inv,
           \/ \E op \in Operations : Cancel(op)
           \/ \E c \in Clients : Preempt(c)
           \/ \E w \in Tokens : WriterPreempts(w)
    PROVE  ReclamationTypeOK'
<1> USE ConstantTypes DEF Inv, ReclamationTypeOK
<1>1. ASSUME NEW op \in Operations, Cancel(op)
      PROVE  ReclamationTypeOK'
  <2>1. registry.run \in Tokens
    BY <1>1 DEF Cancel, Entries
  <2> QED
    BY <1>1, <2>1 DEF Cancel, Runs
<1>2. ASSUME NEW c \in Clients, CapturePreempt(c)
      PROVE  ReclamationTypeOK'
  BY <1>2 DEF CapturePreempt, Entries, ClientStates
<1>3. ASSUME NEW c \in Clients, FirePreempt(c)
      PROVE  ReclamationTypeOK'
  <2>1. clients[c].token \in Tokens \cup {NoToken}
    BY DEF ClientStates
  <2> QED
    BY <1>3, <2>1 DEF FirePreempt, Runs
<1>4. ASSUME NEW w \in Tokens, WriterPreempts(w)
      PROVE  ReclamationTypeOK'
  BY <1>4 DEF WriterPreempts, Runs
<1> QED
  BY <1>1, <1>2, <1>3, <1>4 DEF Preempt

\* An execution stays well-typed when its place and outcome change.
LEMMA MovedType ==
    ASSUME NEW run \in Runs, NEW pc \in Places, NEW outcome \in Outcomes
    PROVE  [run EXCEPT !.pc = pc, !.outcome = outcome] \in Runs
BY DEF Runs

\* What follows a completed stage is a well-typed execution.
LEMMA AdvancedType ==
    ASSUME NEW run \in Runs, NEW next \in Advanced(run)
    PROVE  next \in Runs /\ next.pc \in {"check", "finish"} /\ next.cancelled = run.cancelled
<1>1. \A s \in NextStages(run.stage) : s \in Stages
  BY DEF NextStages, Stages
<1>2. CASE next = [run EXCEPT !.pc = "finish"]
  BY <1>2 DEF Runs, Places
<1>3. ASSUME NEW s \in NextStages(run.stage), next = [run EXCEPT !.pc = "check", !.stage = s]
      PROVE  next \in Runs /\ next.pc \in {"check", "finish"} /\ next.cancelled = run.cancelled
  <2>1. s \in Stages
    BY <1>1
  <2> QED
    BY <1>3, <2>1 DEF Runs, Places
<1>4. CASE next = [run EXCEPT !.pc = "finish", !.outcome = "error"]
  BY <1>4 DEF Runs, Places, Outcomes
<1> QED
  BY <1>2, <1>3, <1>4 DEF Advanced

\* The worker's steps at the session and at SQLite keep the types.
LEMMA SessionTypes ==
    ASSUME Inv, NEW w \in Tokens, SessionStep(w) \/ AttemptStep(w)
    PROVE  ReclamationTypeOK'
<1> USE DEF Inv, ReclamationTypeOK
<1>1. CASE ReserveSession(w)
  BY <1>1 DEF ReserveSession, Runs, Places
<1>2. CASE SessionBusy(w)
  <2>1. runs' = [runs EXCEPT ![w] = [runs[w] EXCEPT !.pc = "ended", !.outcome = "busy"]]
    BY <1>2 DEF SessionBusy
  <2>2. runs' \in [Tokens -> Runs]
    BY <2>1, MovedType DEF Places, Outcomes
  <2> QED
    BY <1>2, <2>2 DEF SessionBusy
<1>3. CASE ReleaseSession(w)
  BY <1>3 DEF ReleaseSession, Runs, Places
<1>4. CASE AnnounceRelease(w)
  BY <1>4 DEF AnnounceRelease, Runs, Places
<1>5. CASE AttemptStep(w)
  BY <1>5 DEF AttemptStep, Attempt, Runs, Places, Outcomes
<1> QED
  BY <1>1, <1>2, <1>3, <1>4, <1>5 DEF SessionStep

\* The worker's own steps keep the types.
LEMMA OwnTypes ==
    ASSUME Inv, NEW w \in Tokens, OwnStep(w)
    PROVE  ReclamationTypeOK'
<1> USE DEF Inv, ReclamationTypeOK
<1>0. runs[w] \in Runs /\ runs[w].stage \in Stages /\ runs[w].outcome \in Outcomes
      /\ registry.phase \in Phases
  BY DEF Runs, Entries
<1>1. CASE Enter(w)
  <2>1. registry' \in Entries
    BY <1>1, PhaseTypes, UpdateType DEF Enter
  <2>2. [runs[w] EXCEPT !.pc = "check", !.stage = "discard"] \in Runs
    BY <1>0 DEF Runs, Places, Stages
  <2>3. runs' = [runs EXCEPT ![w] = [runs[w] EXCEPT !.pc = "check", !.stage = "discard"]]
    BY <1>1 DEF Enter
  <2> QED
    BY <1>1, <2>1, <2>2, <2>3 DEF Enter
<1>2. CASE Check(w)
  <2>1. registry' \in Entries
    <3>1. active_phase(runs[w].stage) \in Phases
      BY <1>0, PhaseTypes
    <3>2. update(w, active_phase(runs[w].stage)) \in Entries
      BY <3>1, UpdateType
    <3> QED
      BY <1>2, <3>2 DEF Check
  <2>2. CASE runs[w].cancelled
    <3>1. runs' = [runs EXCEPT ![w] =
                    [runs[w] EXCEPT !.pc = "finish", !.outcome = "interrupted"]]
      BY <1>2, <2>2 DEF Check
    <3> QED
      BY <1>0, <1>2, <2>1, <3>1, MovedType DEF Check, Places, Outcomes
  <2>3. CASE ~runs[w].cancelled
    BY <1>2, <2>1, <2>3 DEF Check, Runs, Places
  <2> QED
    BY <2>2, <2>3
<1>3. CASE BeginAttempt(w)
  <2>1. registry' \in Entries
    BY <1>3 DEF BeginAttempt, Entries
  <2>2. clients' \in [Clients -> ClientStates]
    BY <1>3, RetiredType DEF BeginAttempt
  <2> QED
    BY <1>3, <2>1, <2>2 DEF BeginAttempt, Runs, Places, Outcomes
<1>4. CASE EndAttempt(w)
  <2>1. registry' \in Entries
    BY <1>4, PhaseTypes DEF EndAttempt, Entries, owns
  <2>2. runs' \in [Tokens -> Runs]
    <3>1. CASE \E next \in Advanced(runs[w]) : runs' = [runs EXCEPT ![w] = next]
      BY <1>0, <3>1, AdvancedType
    <3>2. CASE runs' = [runs EXCEPT ![w].pc = "finish"]
      BY <3>2 DEF Runs, Places
    <3>3. CASE runs' = [runs EXCEPT ![w].pc = "backoff"]
      BY <3>3 DEF Runs, Places
    <3> QED
      BY <1>4, <3>1, <3>2, <3>3 DEF EndAttempt
  <2> QED
    BY <1>4, <2>1, <2>2 DEF EndAttempt
<1>5. ASSUME NEW outcome \in {"completed", "busy", "error", "unwind"}, Inspect(w, outcome)
      PROVE  ReclamationTypeOK'
  <2>1. registry' \in Entries
    BY <1>5, PhaseTypes, UpdateType DEF Inspect
  <2>2. runs' \in [Tokens -> Runs]
    <3>1. CASE \E next \in Advanced(runs[w]) : runs' = [runs EXCEPT ![w] = next]
      BY <1>0, <3>1, AdvancedType
    <3>2. CASE \/ runs' = [runs EXCEPT ![w].pc = "backoff"]
               \/ runs' = [runs EXCEPT ![w].pc = "finish", ![w].outcome = "error"]
               \/ runs' = [runs EXCEPT ![w].pc = "dead"]
      BY <3>2 DEF Runs, Places, Outcomes
    <3> QED
      BY <1>5, <3>1, <3>2 DEF Inspect
  <2> QED
    BY <1>5, <2>1, <2>2 DEF Inspect
<1>6. CASE Backoff(w)
  <2>1. CASE runs[w].cancelled
    <3>1. runs' = [runs EXCEPT ![w] =
                    [runs[w] EXCEPT !.pc = "finish", !.outcome = "interrupted"]]
      BY <1>6, <2>1 DEF Backoff
    <3> QED
      BY <1>0, <1>6, <3>1, MovedType DEF Backoff, Places, Outcomes
  <2>2. CASE ~runs[w].cancelled
    BY <1>6, <2>2 DEF Backoff, Runs, Places
  <2> QED
    BY <2>1, <2>2
<1>7. CASE Finish(w)
  <2>1. clients' \in [Clients -> ClientStates]
    BY <1>7, RetiredType DEF Finish
  <2>2. CASE ~owns(w)
    BY <1>7, <2>1, <2>2, UnavailableType, ConstantTypes DEF Finish
  <2>3. CASE owns(w) /\ registry.pending # NoOperation
    <3>1. registry.pending \in Operations
      BY <2>3 DEF Entries
    <3> PICK v \in Tokens :
            /\ registry' = [start(registry, v, registry.pending)
                                EXCEPT !.pending = NoOperation]
            /\ runs' = [runs EXCEPT ![w] = NoRun, ![v] = NewRun("enter")]
            /\ cancels' = cancels \ {registry.pending}
      BY <1>7, <2>3 DEF Finish
    <3>2. registry' \in Entries
      BY <3>1, StartType DEF Entries
    <3>3. runs' \in [Tokens -> Runs]
      BY ConstantTypes DEF Places
    <3> QED
      BY <2>1, <3>2, <3>3
  <2>4. CASE owns(w) /\ registry.pending = NoOperation
    <3>1. registry' \in Entries
      <4>1. registry' = [registry EXCEPT !.control = NoToken, !.run = NoToken,
                                         !.phase = ResultPhase(runs[w].outcome)]
        BY <1>7, <2>4 DEF Finish
      <4>2. ResultPhase(runs[w].outcome) \in Phases
        BY <1>0, PhaseTypes
      <4> QED
        BY <4>1, <4>2 DEF Entries
    <3> QED
      BY <1>7, <2>1, <2>4, <3>1, ConstantTypes DEF Finish
  <2> QED
    BY <2>2, <2>3, <2>4
<1> QED
  BY <1>1, <1>2, <1>3, <1>4, <1>5, <1>6, <1>7 DEF OwnStep
-----------------------------------------------------------------------------
(* The invariant.                                                          *)

Active == Phases \ (Terminal \cup {"Idle"})

\* What most steps of a worker leave alone: the execution goes on under the
\* same operation, and nobody else's part changes.
GoesOn(w) ==
    /\ runs[w].pc \notin {"none", "spawn"}
    /\ runs'[w].pc \notin {"none", "spawn"}
    /\ runs'[w].cancelled = runs[w].cancelled
    /\ \A v \in Tokens \ {w} : runs'[v] = runs[v]
    /\ runs'[w].pc \in AttemptPlaces => registry'.control = w
    /\ registry'.run = registry.run
    /\ registry'.operation = registry.operation
    /\ registry'.pending = registry.pending
    /\ registry'.phase \in Active
    /\ \A c \in Clients : clients'[c].pc = "spawn" \/ clients[c].pc = "spawn" =>
                              clients'[c] = clients[c]
    /\ cancels' = cancels

\* The worker that takes a step is the owner of the entry, alone, and the
\* entry shows an active phase.
LEMMA WorkerOwns ==
    ASSUME Inv, NEW w \in Tokens, Exists(w)
    PROVE  /\ owns(w) /\ registry.run # NoToken
           /\ registry.phase \in Active
           /\ \A v \in Tokens \ {w} : runs[v].pc = "none"
BY TokensAssumption
   DEF Inv, OneExecution, Exists, owns, SnapshotMatchesOwner, Active,
       ReclamationTypeOK, Entries

\* A step after which the execution goes on keeps the invariant.
LEMMA GoesOnKeepsInv ==
    ASSUME Inv, ReclamationTypeOK', NEW w \in Tokens, GoesOn(w)
    PROVE  Inv'
<1> USE DEF GoesOn
<1>0. /\ registry.run = w /\ w # NoToken /\ registry.phase \in Active
      /\ \A v \in Tokens \ {w} : runs[v].pc = "none"
  BY WorkerOwns DEF Exists, owns
<1>1. OneExecution'
  BY <1>0 DEF OneExecution
<1>2. OwnerExists'
  BY <1>0 DEF OwnerExists, Exists
<1>3. SnapshotMatchesOwner'
  BY <1>0 DEF SnapshotMatchesOwner, Active
<1>4. PendingHasOwner'
  BY <1>0 DEF PendingHasOwner
<1>5. CancelReachesOnlyItsExecution'
  BY DEF Inv, CancelReachesOnlyItsExecution
<1>6. AttemptIsReachable'
  BY <1>0 DEF AttemptIsReachable, AttemptPlaces
<1>7. SpawnerOwns'
  BY <1>0 DEF Inv, SpawnerOwns
<1> QED
  BY <1>1, <1>2, <1>3, <1>4, <1>5, <1>6, <1>7 DEF Inv

\* At the session and at SQLite the execution goes on.
LEMMA SessionGoesOn ==
    ASSUME Inv, NEW w \in Tokens,
           SessionStep(w) \/ AttemptStep(w) \/ WriterPreempts(w)
    PROVE  GoesOn(w)
<1>1. Exists(w) /\ runs[w].pc \in AttemptPlaces
  BY DEF SessionStep, AttemptStep, WriterPreempts, ReserveSession, SessionBusy,
         ReleaseSession, AnnounceRelease, Attempt, Exists, AttemptPlaces
<1>2. registry.control = w /\ registry.phase \in Active
  BY <1>1, WorkerOwns DEF Inv, AttemptIsReachable
<1>3. UNCHANGED <<registry, clients, cancels>>
  BY DEF SessionStep, AttemptStep, WriterPreempts, ReserveSession, SessionBusy,
         ReleaseSession, AnnounceRelease, Attempt
<1>4. runs \in [Tokens -> Runs]
  BY DEF Inv, ReclamationTypeOK
<1>5. /\ runs'[w].pc \in AttemptPlaces \cup {"dead"}
      /\ runs'[w].cancelled = runs[w].cancelled
      /\ \A v \in Tokens \ {w} : runs'[v] = runs[v]
  <2>1. CASE ReserveSession(w)
    BY <1>4, <2>1 DEF ReserveSession, AttemptPlaces, Runs
  <2>2. CASE SessionBusy(w)
    BY <1>4, <2>2 DEF SessionBusy, AttemptPlaces, Runs
  <2>3. CASE ReleaseSession(w)
    BY <1>4, <2>3 DEF ReleaseSession, AttemptPlaces, Runs
  <2>4. CASE AnnounceRelease(w)
    BY <1>4, <2>4 DEF AnnounceRelease, AttemptPlaces, Runs
  <2>5. CASE AttemptStep(w)
    <3> PICK outcome \in Outcomes : Attempt(w, outcome)
      BY <2>5 DEF AttemptStep
    <3> PICK pc \in {"release", "dead", "ended"} :
            runs' = [runs EXCEPT ![w] = [runs[w] EXCEPT !.outcome = outcome, !.pc = pc]]
      BY DEF Attempt
    <3> QED
      BY <1>4 DEF AttemptPlaces, Runs
  <2>6. CASE WriterPreempts(w)
    BY <1>4, <2>6 DEF WriterPreempts, AttemptPlaces, Runs
  <2> QED
    BY <2>1, <2>2, <2>3, <2>4, <2>5, <2>6 DEF SessionStep
<1> QED
  BY <1>1, <1>2, <1>3, <1>5 DEF GoesOn, AttemptPlaces, Exists

\* The phases a worker shows while it works are active ones.
LEMMA ActivePhases ==
    /\ {"Queued", "Inspecting", "Converting", "Reclaiming", "WaitingForIdle"} \subseteq Active
    /\ \A stage \in Stages : registry.phase \in Active => active_phase(stage) \in Active
BY DEF Active, Phases, Terminal, active_phase, Stages

\* An update by the owner changes the phase only.
LEMMA UpdateEffect ==
    ASSUME registry \in Entries, NEW w \in Tokens, owns(w), NEW phase \in Active
    PROVE  LET r == update(w, phase)
           IN  /\ r.run = registry.run /\ r.operation = registry.operation
               /\ r.pending = registry.pending /\ r.phase = phase
               /\ r.control = registry.control
BY DEF update, Entries

\* Until finish, the worker's own steps leave the execution in place.
LEMMA OwnGoesOn ==
    ASSUME Inv, NEW w \in Tokens, OwnStep(w), ~Finish(w)
    PROVE  GoesOn(w)
<1>1. /\ runs \in [Tokens -> Runs] /\ registry \in Entries
      /\ runs[w] \in Runs /\ runs[w].stage \in Stages
  BY DEF Inv, ReclamationTypeOK, Runs
<1>2. Exists(w) /\ runs[w].pc # "spawn"
  BY DEF OwnStep, Enter, Check, BeginAttempt, EndAttempt, Inspect, Backoff, Exists
<1>3. owns(w) /\ registry.phase \in Active
  BY <1>2, WorkerOwns
<1>4. CASE Enter(w)
  <2>1. /\ runs'[w].pc = "check" /\ runs'[w].cancelled = runs[w].cancelled
        /\ \A v \in Tokens \ {w} : runs'[v] = runs[v]
    BY <1>1, <1>4 DEF Enter, Runs
  <2> QED
    BY <1>1, <1>2, <1>3, <1>4, <2>1, UpdateEffect, ActivePhases
       DEF Enter, GoesOn, AttemptPlaces, Exists
<1>5. CASE Check(w)
  <2>1. /\ runs'[w].pc \in {"finish", "inspect", "begin"}
        /\ runs'[w].cancelled = runs[w].cancelled
        /\ \A v \in Tokens \ {w} : runs'[v] = runs[v]
    <3>1. CASE runs[w].cancelled
      <4>1. runs' = [runs EXCEPT ![w] =
                    [runs[w] EXCEPT !.pc = "finish", !.outcome = "interrupted"]]
        BY <1>5, <3>1 DEF Check
      <4> QED
        BY <1>1, <4>1 DEF Runs
    <3>2. CASE ~runs[w].cancelled
      <4> PICK pc \in {"inspect", "begin"} :
              runs' = [runs EXCEPT ![w] = [runs[w] EXCEPT !.pc = pc]]
        BY <1>5, <3>2 DEF Check
      <4> QED
        BY <1>1 DEF Runs
    <3> QED
      BY <3>1, <3>2
  <2>2. active_phase(runs[w].stage) \in Active
    BY <1>1, <1>3, ActivePhases
  <2> QED
    BY <1>1, <1>2, <1>3, <1>5, <2>1, <2>2, UpdateEffect
       DEF Check, GoesOn, AttemptPlaces, Exists
<1>6. CASE BeginAttempt(w)
  <2>1. /\ runs'[w].pc \in {"reserve", "attempt"}
        /\ runs'[w].cancelled = runs[w].cancelled
        /\ \A v \in Tokens \ {w} : runs'[v] = runs[v]
    <3> PICK pc \in {"reserve", "attempt"} :
            runs' = [runs EXCEPT ![w] = [runs[w] EXCEPT !.preempted = FALSE, !.pc = pc]]
      BY <1>3, <1>6 DEF BeginAttempt
    <3> QED
      BY <1>1 DEF Runs
  <2>2. \A c \in Clients : clients'[c].pc = "spawn" \/ clients[c].pc = "spawn" =>
                              clients'[c] = clients[c]
    BY <1>3, <1>6 DEF BeginAttempt, Retired, Inv, ReclamationTypeOK, ClientStates
  <2>3. registry' = [registry EXCEPT !.control = w] /\ cancels' = cancels
    BY <1>3, <1>6 DEF BeginAttempt
  <2> QED
    BY <1>1, <1>2, <1>3, <2>1, <2>2, <2>3 DEF GoesOn, Exists, Entries
<1>7. CASE EndAttempt(w)
  <2>1. /\ runs'[w].pc \in {"check", "finish", "backoff"}
        /\ runs'[w].cancelled = runs[w].cancelled
        /\ \A v \in Tokens \ {w} : runs'[v] = runs[v]
    <3>1. CASE \E next \in Advanced(runs[w]) : runs' = [runs EXCEPT ![w] = next]
      BY <1>1, <3>1, AdvancedType
    <3>2. CASE runs' = [runs EXCEPT ![w].pc = "finish"]
      BY <1>1, <3>2 DEF Runs
    <3>3. CASE runs' = [runs EXCEPT ![w].pc = "backoff"]
      BY <1>1, <3>3 DEF Runs
    <3> QED
      BY <1>7, <3>1, <3>2, <3>3 DEF EndAttempt
  <2>2. /\ registry'.run = registry.run /\ registry'.operation = registry.operation
        /\ registry'.pending = registry.pending /\ registry'.phase \in Active
    BY <1>1, <1>3, <1>7, ActivePhases DEF EndAttempt, Entries
  <2> QED
    BY <1>2, <1>7, <2>1, <2>2 DEF EndAttempt, GoesOn, AttemptPlaces, Exists
<1>8. ASSUME NEW outcome \in {"completed", "busy", "error", "unwind"}, Inspect(w, outcome)
      PROVE  GoesOn(w)
  <2>1. /\ runs'[w].pc \in {"check", "finish", "backoff", "dead"}
        /\ runs'[w].cancelled = runs[w].cancelled
        /\ \A v \in Tokens \ {w} : runs'[v] = runs[v]
    <3>1. CASE \E next \in Advanced(runs[w]) : runs' = [runs EXCEPT ![w] = next]
      BY <1>1, <3>1, AdvancedType
    <3>2. CASE runs' = [runs EXCEPT ![w].pc = "finish", ![w].outcome = "error"]
      BY <1>1, <3>2 DEF Runs
    <3>3. CASE runs' = [runs EXCEPT ![w].pc = "backoff"]
      BY <1>1, <3>3 DEF Runs
    <3>4. CASE runs' = [runs EXCEPT ![w].pc = "dead"]
      BY <1>1, <3>4 DEF Runs
    <3> QED
      BY <1>8, <3>1, <3>2, <3>3, <3>4 DEF Inspect
  <2>2. /\ registry'.run = registry.run /\ registry'.operation = registry.operation
        /\ registry'.pending = registry.pending /\ registry'.phase \in Active
    BY <1>1, <1>3, <1>8, UpdateEffect, ActivePhases DEF Inspect
  <2> QED
    BY <1>2, <1>8, <2>1, <2>2 DEF Inspect, GoesOn, AttemptPlaces, Exists
<1>9. CASE Backoff(w)
  <2>1. /\ runs'[w].pc \in {"check", "finish"}
        /\ runs'[w].cancelled = runs[w].cancelled
        /\ \A v \in Tokens \ {w} : runs'[v] = runs[v]
    <3>1. CASE runs[w].cancelled
      BY <1>1, <1>9, <3>1 DEF Backoff, Runs
    <3>2. CASE ~runs[w].cancelled
      BY <1>1, <1>9, <3>2 DEF Backoff, Runs
    <3> QED
      BY <3>1, <3>2
  <2> QED
    BY <1>2, <1>3, <1>9, <2>1 DEF Backoff, GoesOn, AttemptPlaces, Exists
<1> QED
  BY <1>4, <1>5, <1>6, <1>7, <1>8, <1>9 DEF OwnStep

\* Requests keep the invariant.
LEMMA RequestKeepsInv ==
    ASSUME Inv, NEW c \in Clients, Request(c)
    PROVE  Inv'
<1>0. ReclamationTypeOK'
  BY RequestTypes
<1>1. ASSUME NEW op \in Operations, NEW replace \in BOOLEAN, AdmitBehind(c, op, replace)
      PROVE  Inv'
  <2>1. /\ registry'.run = registry.run /\ registry'.operation = registry.operation
        /\ registry'.phase = registry.phase /\ registry'.control = registry.control
        /\ registry.run # NoToken /\ UNCHANGED <<runs, clients, cancels>>
    BY <1>1 DEF AdmitBehind, Inv, ReclamationTypeOK, Entries
  <2> QED
    BY <1>0, <2>1 DEF Inv, OneExecution, OwnerExists, Exists, SnapshotMatchesOwner,
          PendingHasOwner, CancelReachesOnlyItsExecution, AttemptIsReachable, SpawnerOwns
<1>2. ASSUME NEW op \in Operations, NEW replace \in BOOLEAN, AdmitFirst(c, op, replace)
      PROVE  Inv'
  <2> PICK w \in Tokens :
        /\ registry' = [start(registry, w, op) EXCEPT !.known = TRUE]
        /\ runs' = [runs EXCEPT ![w] = NewRun("spawn")]
        /\ clients' = [clients EXCEPT ![c] = [pc |-> "spawn", token |-> w]]
    BY <1>2 DEF AdmitFirst
  <2>1. \A v \in Tokens : runs[v].pc = "none"
    BY <1>2, TokensAssumption DEF AdmitFirst, Inv, OneExecution
  <2>2. \A v \in Tokens : ~runs[v].cancelled
    BY <1>2, TokensAssumption DEF AdmitFirst, Inv, CancelReachesOnlyItsExecution
  <2>3. \A d \in Clients : clients[d].pc # "spawn"
    BY <2>1 DEF Inv, SpawnerOwns
  <2>4. /\ registry'.run = w /\ registry'.phase = "Queued" /\ registry'.operation = op
    BY DEF start, Inv, ReclamationTypeOK, Entries
  <2>5. /\ runs'[w].pc = "spawn" /\ ~runs'[w].cancelled
        /\ \A v \in Tokens \ {w} : runs'[v] = runs[v]
    BY DEF Inv, ReclamationTypeOK, NewRun, NoRun
  <2>6. /\ clients'[c].pc = "spawn" /\ clients'[c].token = w
        /\ \A d \in Clients \ {c} : clients'[d] = clients[d]
    BY DEF Inv, ReclamationTypeOK
  <2>7. OneExecution' /\ OwnerExists' /\ PendingHasOwner'
    BY <2>1, <2>4, <2>5, TokensAssumption DEF OneExecution, OwnerExists, PendingHasOwner, Exists
  <2>8. SnapshotMatchesOwner'
    BY <2>4, TokensAssumption DEF SnapshotMatchesOwner, Terminal
  <2>9. CancelReachesOnlyItsExecution'
    BY <2>2, <2>5 DEF CancelReachesOnlyItsExecution
  <2>10. AttemptIsReachable'
    BY <2>1, <2>5 DEF AttemptIsReachable, AttemptPlaces
  <2>11. SpawnerOwns'
    BY <2>3, <2>5, <2>6 DEF SpawnerOwns
  <2> QED
    BY <1>0, <2>7, <2>8, <2>9, <2>10, <2>11 DEF Inv
<1>3. ASSUME Spawned(c)
      PROVE  Inv'
  <2> DEFINE w == clients[c].token
  <2>1. w \in Tokens /\ runs[w].pc = "spawn" /\ clients[c].pc = "spawn"
    BY <1>3 DEF Spawned, Inv, SpawnerOwns
  <2>2. /\ registry.run = w /\ registry.phase \in Active
        /\ \A v \in Tokens \ {w} : runs[v].pc = "none"
    BY <2>1, WorkerOwns DEF Exists, owns
  <2>3. /\ runs'[w].pc = "enter" /\ runs'[w].cancelled = runs[w].cancelled
        /\ \A v \in Tokens \ {w} : runs'[v] = runs[v]
        /\ UNCHANGED <<registry, cancels>>
    BY <1>3, <2>1 DEF Spawned, Inv, ReclamationTypeOK, Runs
  <2>4. /\ clients'[c].pc = "idle"
        /\ \A d \in Clients \ {c} : clients'[d] = clients[d]
    BY <1>3 DEF Spawned, Inv, ReclamationTypeOK, IdleClient
  <2> HIDE DEF w
  <2>5. OneExecution' /\ OwnerExists' /\ PendingHasOwner' /\ SnapshotMatchesOwner'
    BY <2>2, <2>3 DEF Inv, OneExecution, OwnerExists, PendingHasOwner, Exists,
          SnapshotMatchesOwner
  <2>6. CancelReachesOnlyItsExecution'
    BY <2>3 DEF Inv, CancelReachesOnlyItsExecution
  <2>7. AttemptIsReachable'
    BY <2>2, <2>3 DEF AttemptIsReachable, AttemptPlaces
  <2>8. \A d \in Clients : clients'[d].pc # "spawn"
    BY <2>1, <2>2, <2>4 DEF Inv, SpawnerOwns, w
  <2> QED
    BY <1>0, <2>5, <2>6, <2>7, <2>8 DEF Inv, SpawnerOwns
<1>4. ASSUME SpawnFails(c)
      PROVE  Inv'
  <2> DEFINE w == clients[c].token
  <2>1. w \in Tokens /\ runs[w].pc = "spawn" /\ clients[c].pc = "spawn"
    BY <1>4 DEF SpawnFails, Inv, SpawnerOwns
  <2>2. /\ owns(w) /\ \A v \in Tokens \ {w} : runs[v].pc = "none"
    BY <2>1, WorkerOwns DEF Exists
  <2>3. /\ registry'.run = NoToken /\ registry'.pending = NoOperation
        /\ registry'.phase = "Failed"
    BY <1>4, <2>2 DEF SpawnFails, worker_unavailable, Inv, ReclamationTypeOK, Entries
  <2>4. /\ runs'[w].pc = "none" /\ ~runs'[w].cancelled
        /\ \A v \in Tokens \ {w} : runs'[v] = runs[v]
    BY <1>4, <2>1 DEF SpawnFails, Inv, ReclamationTypeOK, NoRun
  <2>5. \A d \in Clients : clients'[d].pc = "spawn" => d # c /\ clients[d].pc = "spawn"
    BY <1>4 DEF SpawnFails, Retired, IdleClient, Inv, ReclamationTypeOK, ClientStates
  <2>6. \A d \in Clients : clients[d].pc = "spawn" => d = c
    BY <2>1, <2>2 DEF Inv, SpawnerOwns
  <2> HIDE DEF w
  <2>7. \A v \in Tokens : runs'[v].pc = "none"
    BY <2>2, <2>4
  <2>8. \A v \in Tokens : ~runs'[v].cancelled
    BY <2>2, <2>4 DEF Inv, CancelReachesOnlyItsExecution, owns
  <2> QED
    BY <1>0, <2>3, <2>5, <2>6, <2>7, <2>8
       DEF Inv, OneExecution, OwnerExists, PendingHasOwner, SnapshotMatchesOwner, Terminal,
           CancelReachesOnlyItsExecution, AttemptIsReachable, AttemptPlaces, SpawnerOwns
<1> QED
  BY <1>1, <1>2, <1>3, <1>4 DEF Request

\* Cancellations and preemptions by clients keep the invariant.
LEMMA InterruptKeepsInv ==
    ASSUME Inv,
           \/ \E op \in Operations : Cancel(op)
           \/ \E c \in Clients : Preempt(c)
    PROVE  Inv'
<1>0. ReclamationTypeOK' /\ registry' = registry
  BY InterruptTypes DEF Cancel, Preempt, CapturePreempt, FirePreempt
<1>1. ASSUME NEW op \in Operations, Cancel(op)
      PROVE  Inv'
  <2>1. registry.run \in Tokens /\ registry.operation = op
    BY <1>1 DEF Cancel, Inv, ReclamationTypeOK, Entries
  <2>2. /\ \A v \in Tokens : runs'[v].pc = runs[v].pc
        /\ \A v \in Tokens \ {registry.run} : runs'[v] = runs[v]
    BY <1>1, <2>1 DEF Cancel, Inv, ReclamationTypeOK, Runs
  <2>3. cancels' = cancels \cup {op} /\ clients' = clients
    BY <1>1 DEF Cancel
  <2>4. CancelReachesOnlyItsExecution'
    BY <1>0, <2>1, <2>2, <2>3 DEF Inv, CancelReachesOnlyItsExecution
  <2> QED
    BY <1>0, <2>1, <2>2, <2>3, <2>4 DEF Inv, OneExecution, OwnerExists, Exists,
          SnapshotMatchesOwner, PendingHasOwner, AttemptIsReachable, SpawnerOwns
<1>2. ASSUME NEW c \in Clients, Preempt(c)
      PROVE  Inv'
  <2>1. /\ \A v \in Tokens : runs'[v].pc = runs[v].pc
        /\ \A v \in Tokens : runs'[v].cancelled = runs[v].cancelled
        /\ cancels' = cancels
    <3>1. CASE runs' = runs
      BY <1>2, <3>1 DEF Preempt, CapturePreempt, FirePreempt
    <3>2. CASE FirePreempt(c) /\ clients[c].token # NoToken
      <4>1. clients[c].token \in Tokens
        BY <3>2 DEF Inv, ReclamationTypeOK, ClientStates
      <4> QED
        BY <3>2, <4>1 DEF FirePreempt, Inv, ReclamationTypeOK, Runs
    <3> QED
      BY <1>2, <3>1, <3>2 DEF Preempt, CapturePreempt, FirePreempt
  <2>2. \A d \in Clients : clients'[d].pc = "spawn" => clients'[d] = clients[d]
    BY <1>2 DEF Preempt, CapturePreempt, FirePreempt, IdleClient, Inv, ReclamationTypeOK
  <2>3. registry.run \in Tokens \cup {NoToken}
    BY DEF Inv, ReclamationTypeOK, Entries
  <2>4. SpawnerOwns'
    BY <2>1, <2>2 DEF Inv, SpawnerOwns
  <2>5. CancelReachesOnlyItsExecution'
    BY <1>0, <2>1 DEF Inv, CancelReachesOnlyItsExecution
  <2> QED
    BY <1>0, <2>1, <2>3, <2>4, <2>5 DEF Inv, OneExecution, OwnerExists, Exists,
          SnapshotMatchesOwner, PendingHasOwner, AttemptIsReachable
<1> QED
  BY <1>1, <1>2

\* The end of an execution, and the hand-over to a waiting request, keep the
\* invariant.
LEMMA FinishKeepsInv ==
    ASSUME Inv, NEW w \in Tokens, Finish(w)
    PROVE  Inv'
<1>0. ReclamationTypeOK' /\ runs[w].pc = "finish"
  BY OwnTypes DEF OwnStep, Finish
<1>1. owns(w) /\ w # NoToken /\ \A v \in Tokens \ {w} : runs[v].pc = "none"
  BY <1>0, WorkerOwns, TokensAssumption DEF Exists
<1>2. \A v \in Tokens \ {w} : ~runs[v].cancelled
  BY <1>1 DEF Inv, CancelReachesOnlyItsExecution, owns
<1>3. \A c \in Clients : clients'[c].pc # "spawn"
  <2>1. \A c \in Clients : clients[c].pc # "spawn"
    BY <1>0, <1>1 DEF Inv, SpawnerOwns
  <2> QED
    BY <2>1 DEF Finish, Retired, Inv, ReclamationTypeOK, ClientStates
<1>4. CASE registry.pending # NoOperation
  <2> PICK v \in Tokens :
        /\ Unused(v)
        /\ registry' = [start(registry, v, registry.pending) EXCEPT !.pending = NoOperation]
        /\ runs' = [runs EXCEPT ![w] = NoRun, ![v] = NewRun("enter")]
    BY <1>1, <1>4 DEF Finish
  <2>1. v # w /\ v # NoToken
    BY <1>0, TokensAssumption DEF Unused
  <2>2. /\ registry'.run = v /\ registry'.phase = "Queued"
        /\ registry'.pending = NoOperation
    BY DEF start, Inv, ReclamationTypeOK, Entries
  <2>3. /\ runs'[v].pc = "enter" /\ ~runs'[v].cancelled
        /\ runs'[w].pc = "none" /\ ~runs'[w].cancelled
        /\ \A u \in Tokens \ {v, w} : runs'[u] = runs[u]
    BY <2>1 DEF Inv, ReclamationTypeOK, NewRun, NoRun
  <2>4. CancelReachesOnlyItsExecution'
    BY <1>2, <2>3 DEF CancelReachesOnlyItsExecution
  <2>5. OneExecution' /\ AttemptIsReachable'
    <3>1. \A u \in Tokens \ {v} : runs'[u].pc = "none"
      BY <1>1, <2>3
    <3> QED
      BY <2>2, <2>3, <3>1 DEF OneExecution, AttemptIsReachable, AttemptPlaces
  <2>6. OwnerExists' /\ PendingHasOwner' /\ SnapshotMatchesOwner'
    BY <2>1, <2>2, <2>3 DEF OwnerExists, Exists, PendingHasOwner, SnapshotMatchesOwner, Terminal
  <2> QED
    BY <1>0, <1>3, <2>4, <2>5, <2>6 DEF Inv, SpawnerOwns
<1>5. CASE registry.pending = NoOperation
  <2>1. ResultPhase(runs[w].outcome) \in Terminal
    BY PhaseTypes DEF Inv, ReclamationTypeOK, Runs
  <2>2. /\ registry'.run = NoToken /\ registry'.pending = NoOperation
        /\ registry'.phase \in Terminal
    BY <1>1, <1>5, <2>1 DEF Finish, Inv, ReclamationTypeOK, Entries
  <2>3. /\ runs'[w].pc = "none" /\ ~runs'[w].cancelled
        /\ \A u \in Tokens \ {w} : runs'[u] = runs[u]
    BY <1>1, <1>5 DEF Finish, Inv, ReclamationTypeOK, NoRun
  <2>4. CancelReachesOnlyItsExecution'
    BY <1>2, <2>3 DEF CancelReachesOnlyItsExecution
  <2> QED
    BY <1>0, <1>1, <1>3, <2>2, <2>3, <2>4
       DEF Inv, OneExecution, OwnerExists, PendingHasOwner, SnapshotMatchesOwner,
           AttemptIsReachable, AttemptPlaces, SpawnerOwns
<1> QED
  BY <1>4, <1>5

\* Every step keeps the invariant.
LEMMA StepKeepsInv ==
    ASSUME Inv, [ReclamationNext]_reclamation
    PROVE  Inv'
<1>1. ASSUME NEW c \in Clients, Request(c)
      PROVE  Inv'
  BY <1>1, RequestKeepsInv
<1>2. ASSUME NEW c \in Clients, Preempt(c)
      PROVE  Inv'
  BY <1>2, InterruptKeepsInv
<1>3. ASSUME NEW op \in Operations, Cancel(op)
      PROVE  Inv'
  BY <1>3, InterruptKeepsInv
<1>4. ASSUME NEW w \in Tokens, OwnStep(w)
      PROVE  Inv'
  BY <1>4, OwnTypes, OwnGoesOn, GoesOnKeepsInv, FinishKeepsInv
<1>5. ASSUME NEW w \in Tokens, SessionStep(w) \/ AttemptStep(w) \/ WriterPreempts(w)
      PROVE  Inv'
  BY <1>5, SessionTypes, InterruptTypes, SessionGoesOn, GoesOnKeepsInv
<1>6. CASE UNCHANGED reclamation
  BY <1>6 DEF reclamation, Inv, ReclamationTypeOK, OneExecution, OwnerExists, Exists,
        SnapshotMatchesOwner, PendingHasOwner, CancelReachesOnlyItsExecution,
        AttemptIsReachable, SpawnerOwns
<1> QED
  BY <1>1, <1>2, <1>3, <1>4, <1>5, <1>6 DEF ReclamationNext

\* The registry starts without an execution.
LEMMA InitInv == ReclamationInit => Inv
<1> SUFFICES ASSUME ReclamationInit PROVE Inv
  OBVIOUS
<1> USE DEF ReclamationInit
<1>1. ReclamationTypeOK
  <2>1. registry \in Entries
    BY DEF Entries, Phases
  <2> QED
    BY <2>1, ConstantTypes DEF ReclamationTypeOK
<1>2. OneExecution /\ CancelReachesOnlyItsExecution /\ AttemptIsReachable
  BY DEF OneExecution, CancelReachesOnlyItsExecution, AttemptIsReachable, NoRun, AttemptPlaces
<1> QED
  BY <1>1, <1>2 DEF Inv, OwnerExists, SnapshotMatchesOwner, PendingHasOwner, SpawnerOwns,
        IdleClient
-----------------------------------------------------------------------------
(* The theorems.                                                           *)

\* The inductive invariant holds of every reachable state.
LEMMA Invariance == ReclamationSpec => []Inv
<1>1. Inv /\ [ReclamationNext]_reclamation => Inv'
  BY StepKeepsInv
<1> QED
  BY <1>1, InitInv, PTL DEF ReclamationSpec

\* The registry entry, the executions and the clients keep their types.
THEOREM TypeCorrect == ReclamationSpec => []ReclamationTypeOK
<1>1. Inv => ReclamationTypeOK
  BY DEF Inv
<1> QED
  BY <1>1, Invariance, PTL

\* admit and finish never let two worker threads work for one catalog.
THEOREM NeverTwoExecutions == ReclamationSpec => []OneExecution
<1>1. Inv => OneExecution
  BY DEF Inv
<1> QED
  BY <1>1, Invariance, PTL

\* The phase in the snapshot is active exactly while an execution owns the
\* entry (update and finish are refused to any other).
THEOREM SnapshotIsTrue == ReclamationSpec => []SnapshotMatchesOwner
<1>1. Inv => SnapshotMatchesOwner
  BY DEF Inv
<1> QED
  BY <1>1, Invariance, PTL

\* A request admitted behind an execution always waits behind one that the entry
\* names: finish and worker_unavailable take it along under the lock.  A worker
\* that has unwound is still named, so the request may wait for a dead one.
THEOREM WaitingRequestsAreOwned == ReclamationSpec => []WaitingRequestHasOwner
<1>1. Inv => WaitingRequestHasOwner
  BY DEF Inv, PendingHasOwner, OwnerExists, Exists, WaitingRequestHasOwner
<1> QED
  BY <1>1, Invariance, PTL

\* cancel sets the flag of the execution of the operation it names; no later
\* execution inherits it.
THEOREM CancelIsExact == ReclamationSpec => []CancelReachesOnlyItsExecution
<1>1. Inv => CancelReachesOnlyItsExecution
  BY DEF Inv
<1> QED
  BY <1>1, Invariance, PTL

\* preempt finds the control of any attempt that holds or asks for the session.
THEOREM PreemptFindsTheAttempt == ReclamationSpec => []AttemptIsReachable
<1>1. Inv => AttemptIsReachable
  BY DEF Inv
<1> QED
  BY <1>1, Invariance, PTL

\* Only the start of a fresh execution changes the phase or the operation of a
\* terminal snapshot.
THEOREM TerminalIsStable == ReclamationSpec => TerminalSnapshotStays
<1> DEFINE Stays ==
        registry.phase \in Terminal /\ SnapshotChanges =>
            /\ registry.run = NoToken /\ registry'.run # NoToken
            /\ registry'.phase = "Queued" /\ Unused(registry'.run)
<1>1. ASSUME Inv, [ReclamationNext]_reclamation
      PROVE  [Stays]_reclamation
  <2> SUFFICES ASSUME registry.phase \in Terminal, SnapshotChanges, ReclamationNext
               PROVE  /\ registry.run = NoToken /\ registry'.run # NoToken
                      /\ registry'.phase = "Queued" /\ Unused(registry'.run)
    BY <1>1 DEF reclamation, SnapshotChanges
  <2>1. registry.run = NoToken
    BY <1>1 DEF Inv, SnapshotMatchesOwner
  <2>2. \A w \in Tokens : runs[w].pc = "none"
    BY <1>1, <2>1, TokensAssumption DEF Inv, OneExecution
  <2>3. \A c \in Clients : clients[c].pc # "spawn"
    BY <1>1, <2>2 DEF Inv, SpawnerOwns
  <2>4. \A w \in Tokens :
            ~(OwnStep(w) \/ SessionStep(w) \/ AttemptStep(w) \/ WriterPreempts(w))
    BY <2>2 DEF OwnStep, Enter, Check, BeginAttempt, EndAttempt, Inspect, Backoff, Finish,
          SessionStep, ReserveSession, SessionBusy, ReleaseSession, AnnounceRelease,
          AttemptStep, Attempt, WriterPreempts
  <2>5. PICK c \in Clients, op \in Operations, replace \in BOOLEAN : AdmitFirst(c, op, replace)
    BY <2>1, <2>3, <2>4 DEF ReclamationNext, Request, AdmitBehind, Spawned, SpawnFails,
          Preempt, CapturePreempt, FirePreempt, Cancel, SnapshotChanges
  <2>6. PICK w \in Tokens :
            Unused(w) /\ registry' = [start(registry, w, op) EXCEPT !.known = TRUE]
    BY <2>5 DEF AdmitFirst
  <2>7. registry'.run = w /\ registry'.phase = "Queued"
    BY <1>1, <2>6 DEF start, Inv, ReclamationTypeOK, Entries
  <2> QED
    BY <2>1, <2>6, <2>7, TokensAssumption
<1> QED
  BY <1>1, Invariance, PTL DEF ReclamationSpec, TerminalSnapshotStays
=============================================================================
