--------------------- MODULE CatalogReclamationRefinement ---------------------
(***************************************************************************)
(* The registry and its workers take no step that CatalogUpkeep does not   *)
(* allow: seen through the attempt that reserves the catalog session,      *)
(* every step of CatalogReclamation is a step of the abstract maintainer   *)
(* or changes nothing.  Its fairness is checked by TLC only.               *)
(***************************************************************************)
EXTENDS CatalogReclamationProofs

Kind(w) == IF runs[w].stage = "reclaim" THEN "incremental" ELSE "structural"

\* What the release tells of the outcome.
Told(w) == IF runs[w].outcome = "unwind" THEN "unwind" ELSE "none"

\* What the session sees of the execution w, place by place.
Sees(w) ==
    registry.run = w /\ runs[w].stage \in Reserving =>
        /\ runs[w].pc \in {"reserve", "attempt"} =>
            ReservingAttempt = Upkeep!At(runs[w].pc, Kind(w), is_interrupted(w), "none")
        /\ runs[w].pc = "release" =>
            ReservingAttempt = Upkeep!At("release", Kind(w), FALSE, runs[w].outcome)
        /\ runs[w].pc = "announce" =>
            ReservingAttempt = Upkeep!At("announce", "structural", FALSE, Told(w))
        /\ runs[w].pc = "ended" => ReservingAttempt = Upkeep!Past("ended")

SeesNothing ==
    \/ registry.run = NoToken
    \/ runs[registry.run].stage \notin Reserving
    \/ runs[registry.run].pc \notin AttemptPlaces

Seen ==
    /\ \A w \in Tokens : Sees(w)
    /\ SeesNothing => ReservingAttempt = Upkeep!NoUpkeep

\* The refinement mapping, place by place.
LEMMA SeenNow == Seen
<1>1. ASSUME NEW w \in Tokens
      PROVE  Sees(w)
  <2> SUFFICES ASSUME registry.run = w, runs[w].stage \in Reserving
               PROVE  Sees(w)
    BY DEF Sees
  <2>1. runs[w].pc \in AttemptPlaces => ReservingAttempt = Reservation(w)
    BY TokensAssumption DEF ReservingAttempt
  <2>2. ASSUME runs[w].pc \in {"reserve", "attempt"}
        PROVE  ReservingAttempt = Upkeep!At(runs[w].pc, Kind(w), is_interrupted(w), "none")
    <3>1. (runs[w].pc \in {"reserve", "attempt"} /\ is_interrupted(w)) = is_interrupted(w)
      BY <2>2 DEF is_interrupted
    <3> QED
      BY <2>1, <2>2, <3>1 DEF Reservation, Upkeep!At, AttemptPlaces, Kind
  <2>3. ASSUME runs[w].pc \notin {"reserve", "attempt"}
        PROVE  (runs[w].pc \in {"reserve", "attempt"} /\ is_interrupted(w)) = FALSE
    BY <2>3
  <2>4. runs[w].pc = "release" =>
            ReservingAttempt = Upkeep!At("release", Kind(w), FALSE, runs[w].outcome)
    BY <2>1, <2>3 DEF Reservation, Upkeep!At, AttemptPlaces, Kind
  <2>5. runs[w].pc = "announce" =>
            ReservingAttempt = Upkeep!At("announce", "structural", FALSE, Told(w))
    BY <2>1, <2>3 DEF Reservation, Upkeep!At, AttemptPlaces, Told
  <2>6. runs[w].pc = "ended" => ReservingAttempt = Upkeep!Past("ended")
    BY <2>1, <2>3 DEF Reservation, Upkeep!At, Upkeep!Past, Upkeep!Structural, AttemptPlaces
  <2> QED
    BY <2>2, <2>4, <2>5, <2>6 DEF Sees
<1>2. SeesNothing => ReservingAttempt = Upkeep!NoUpkeep
  BY DEF SeesNothing, ReservingAttempt, Upkeep!NoUpkeep, Upkeep!Past, Upkeep!At,
         Upkeep!Structural
<1> QED
  BY <1>1, <1>2 DEF Seen

\* The same of the next state.
LEMMA SeenNext == Seen'
BY SeenNow, PTL

\* The fields of an attempt.
LEMMA Fields ==
    ASSUME NEW pc, NEW kind, NEW i, NEW outcome
    PROVE  /\ Upkeep!At(pc, kind, i, outcome).pc = pc
           /\ Upkeep!At(pc, kind, i, outcome).kind = kind
           /\ Upkeep!At(pc, kind, i, outcome).interrupted = i
           /\ Upkeep!At(pc, kind, i, outcome).outcome = outcome
<1> USE DEF Upkeep!At
<1>1. Upkeep!At(pc, kind, i, outcome).pc = pc
  OBVIOUS
<1>2. Upkeep!At(pc, kind, i, outcome).kind = kind
  OBVIOUS
<1>3. Upkeep!At(pc, kind, i, outcome).interrupted = i
  OBVIOUS
<1>4. Upkeep!At(pc, kind, i, outcome).outcome = outcome
  OBVIOUS
<1> QED
  BY <1>1, <1>2, <1>3, <1>4

\* A request changes nothing the session can see.
LEMMA RequestIsInvisible ==
    ASSUME Inv, NEW c \in Clients, Request(c)
    PROVE  UNCHANGED ReservingAttempt
<1>1. ASSUME NEW op \in Operations, NEW replace \in BOOLEAN, AdmitBehind(c, op, replace)
      PROVE  UNCHANGED ReservingAttempt
  <2>1. registry'.run = registry.run /\ runs' = runs
    BY <1>1 DEF AdmitBehind, Inv, ReclamationTypeOK, Entries
  <2> QED
    BY <2>1 DEF ReservingAttempt, Reservation, is_interrupted
<1>2. ASSUME NEW op \in Operations, NEW replace \in BOOLEAN, AdmitFirst(c, op, replace)
      PROVE  UNCHANGED ReservingAttempt
  <2> PICK w \in Tokens :
        /\ registry' = [start(registry, w, op) EXCEPT !.known = TRUE]
        /\ runs' = [runs EXCEPT ![w] = NewRun("spawn")]
    BY <1>2 DEF AdmitFirst
  <2>1. registry'.run = w /\ runs'[w].pc = "spawn"
    BY DEF start, NewRun, NoRun, Inv, ReclamationTypeOK, Entries
  <2> QED
    BY <1>2, <2>1 DEF AdmitFirst, ReservingAttempt, AttemptPlaces
<1>3. ASSUME Spawned(c) \/ SpawnFails(c)
      PROVE  UNCHANGED ReservingAttempt
  <2> DEFINE w == clients[c].token
  <2>1. w \in Tokens /\ runs[w].pc = "spawn"
    BY <1>3 DEF Spawned, SpawnFails, Inv, SpawnerOwns
  <2>2. registry.run = w
    BY <2>1 DEF Inv, OneExecution
  <2>3. \/ registry' = registry /\ runs'[w].pc = "enter"
        \/ registry'.run = NoToken
    <3>1. CASE Spawned(c)
      BY <2>1, <3>1 DEF Spawned, Inv, ReclamationTypeOK, Runs
    <3>2. CASE SpawnFails(c)
      BY <2>2, <3>2 DEF SpawnFails, worker_unavailable, owns, Inv, ReclamationTypeOK, Entries
    <3> QED
      BY <1>3, <3>1, <3>2
  <2> QED
    BY <2>1, <2>2, <2>3 DEF ReservingAttempt, AttemptPlaces
<1> QED
  BY <1>1, <1>2, <1>3 DEF Request

\* A step before which and after which the owner is not in an attempt is
\* invisible.
LEMMA OutsideIsInvisible ==
    ASSUME Inv, NEW w \in Tokens, registry.run = w, runs[w].pc \notin AttemptPlaces,
           \/ registry'.run = NoToken
           \/ runs'[registry'.run].pc \notin AttemptPlaces
    PROVE  UNCHANGED ReservingAttempt
BY DEF ReservingAttempt

\* A flag of an execution set by a cancellation or a preemption interrupts the
\* attempt while it asks for the session or works, and is invisible otherwise.
LEMMA FlagInterrupts ==
    ASSUME Inv, NEW w \in Tokens, registry' = registry,
           \/ runs' = [runs EXCEPT ![w].cancelled = TRUE]
           \/ runs' = [runs EXCEPT ![w].preempted = TRUE]
    PROVE  Upkeep!InterruptUpkeep \/ UNCHANGED ReservingAttempt
<1>1. /\ runs \in [Tokens -> Runs] /\ runs[w] \in Runs
      /\ registry.run \in Tokens \cup {NoToken}
  BY DEF Inv, ReclamationTypeOK, Entries
<1>2. /\ runs'[w].pc = runs[w].pc /\ runs'[w].stage = runs[w].stage
      /\ runs'[w].outcome = runs[w].outcome
      /\ runs'[w].cancelled \/ runs'[w].preempted
      /\ \A v \in Tokens \ {w} : runs'[v] = runs[v]
  <2>1. CASE runs' = [runs EXCEPT ![w].cancelled = TRUE]
    BY <1>1, <2>1 DEF Runs
  <2>2. CASE runs' = [runs EXCEPT ![w].preempted = TRUE]
    BY <1>1, <2>2 DEF Runs
  <2> QED
    BY <2>1, <2>2
<1>3. CASE registry.run # w
  <2>1. registry.run = NoToken \/ runs'[registry.run] = runs[registry.run]
    BY <1>1, <1>2, <1>3
  <2> QED
    BY <2>1 DEF ReservingAttempt, Reservation, is_interrupted
<1>4. CASE registry.run = w /\ ~(runs[w].stage \in Reserving /\ runs[w].pc \in AttemptPlaces)
  BY <1>2, <1>4 DEF ReservingAttempt
<1>5. CASE registry.run = w /\ runs[w].stage \in Reserving /\ runs[w].pc \in AttemptPlaces
  <2>1. ReservingAttempt = Reservation(w) /\ ReservingAttempt' = Reservation(w)'
    BY <1>2, <1>5, TokensAssumption DEF ReservingAttempt
  <2>2. CASE runs[w].pc \notin {"reserve", "attempt"}
    BY <1>2, <2>1, <2>2 DEF Reservation
  <2>3. CASE runs[w].pc \in {"reserve", "attempt"}
    <3>1. ReservingAttempt = Upkeep!At(runs[w].pc, Kind(w), is_interrupted(w), "none")
      BY <1>5, <2>3, SeenNow DEF Seen, Sees
    <3>2. is_interrupted(w)' = TRUE /\ Kind(w)' = Kind(w)
      BY <1>2 DEF is_interrupted, Kind
    <3>3. ReservingAttempt' = Upkeep!At(runs[w].pc, Kind(w), TRUE, "none")
      BY <1>2, <1>5, <2>3, <3>2, SeenNext DEF Seen, Sees
    <3>4. ReservingAttempt.pc = runs[w].pc /\ ReservingAttempt.kind = Kind(w)
      BY <3>1, Fields
    <3> QED
      BY <2>3, <3>3, <3>4 DEF Upkeep!InterruptUpkeep
  <2> QED
    BY <2>2, <2>3
<1> QED
  BY <1>3, <1>4, <1>5

\* Cancel, preempt and the writers of higher priority interrupt the attempt.
LEMMA InterruptsAreAllowed ==
    ASSUME Inv,
           \/ \E op \in Operations : Cancel(op)
           \/ \E c \in Clients : Preempt(c)
           \/ \E w \in Tokens : WriterPreempts(w)
    PROVE  Upkeep!InterruptUpkeep \/ UNCHANGED ReservingAttempt
<1>1. registry' = registry
  BY DEF Cancel, Preempt, CapturePreempt, FirePreempt, WriterPreempts
<1>2. CASE runs' = runs
  BY <1>1, <1>2 DEF ReservingAttempt, Reservation, is_interrupted
<1>3. ASSUME NEW op \in Operations, Cancel(op)
      PROVE  Upkeep!InterruptUpkeep \/ UNCHANGED ReservingAttempt
  <2>1. registry.run \in Tokens
    BY <1>3 DEF Cancel, Inv, ReclamationTypeOK, Entries
  <2>2. runs' = [runs EXCEPT ![registry.run].cancelled = TRUE]
    BY <1>3 DEF Cancel
  <2> QED
    BY <1>1, <2>1, <2>2, FlagInterrupts
<1>4. ASSUME NEW c \in Clients, Preempt(c), runs' # runs
      PROVE  Upkeep!InterruptUpkeep \/ UNCHANGED ReservingAttempt
  <2>1. clients[c].token \in Tokens
    BY <1>4 DEF Preempt, CapturePreempt, FirePreempt, Inv, ReclamationTypeOK, ClientStates
  <2>2. runs' = [runs EXCEPT ![clients[c].token].preempted = TRUE]
    BY <1>4 DEF Preempt, CapturePreempt, FirePreempt
  <2> QED
    BY <1>1, <2>1, <2>2, FlagInterrupts
<1>5. ASSUME NEW w \in Tokens, WriterPreempts(w)
      PROVE  Upkeep!InterruptUpkeep \/ UNCHANGED ReservingAttempt
  BY <1>1, <1>5, FlagInterrupts DEF WriterPreempts
<1> QED
  BY <1>2, <1>3, <1>4, <1>5

\* The steps of the worker at the session and at SQLite are the abstract ones.
LEMMA SessionStepsAllowed ==
    ASSUME Inv, NEW w \in Tokens, SessionStep(w) \/ AttemptStep(w)
    PROVE  Upkeep!UpkeepNext \/ UNCHANGED ReservingAttempt
<1>1. /\ runs \in [Tokens -> Runs] /\ runs[w] \in Runs /\ w # NoToken
      /\ runs[w].outcome \in Outcomes
  BY TokensAssumption DEF Inv, ReclamationTypeOK, Runs
<1>2. registry.run = w /\ registry' = registry
  BY DEF SessionStep, AttemptStep, ReserveSession, SessionBusy, ReleaseSession,
         AnnounceRelease, Attempt, Inv, OneExecution
<1>3. runs'[w].stage = runs[w].stage
  <2>1. CASE SessionStep(w)
    <3>1. CASE ReserveSession(w) \/ ReleaseSession(w) \/ AnnounceRelease(w)
      BY <1>1, <3>1 DEF ReserveSession, ReleaseSession, AnnounceRelease, Runs
    <3>2. CASE SessionBusy(w)
      BY <1>1, <3>2 DEF SessionBusy, Runs
    <3> QED
      BY <2>1, <3>1, <3>2 DEF SessionStep
  <2>2. CASE AttemptStep(w)
    <3> PICK outcome \in Outcomes : Attempt(w, outcome)
      BY <2>2 DEF AttemptStep
    <3> PICK pc \in {"release", "dead", "ended"} :
            runs' = [runs EXCEPT ![w] = [runs[w] EXCEPT !.outcome = outcome, !.pc = pc]]
      BY DEF Attempt
    <3> QED
      BY <1>1 DEF Runs
  <2> QED
    BY <2>1, <2>2
<1>4. CASE runs[w].stage \notin Reserving
  BY <1>2, <1>3, <1>4 DEF ReservingAttempt
<1>5. ASSUME runs[w].stage \in Reserving
      PROVE  Sees(w) /\ Sees(w)' /\ Kind(w)' = Kind(w) /\ registry'.run = w
             /\ runs'[w].stage \in Reserving
  BY <1>2, <1>3, <1>5, SeenNow, SeenNext DEF Seen, Kind
<1>6. CASE ReserveSession(w) /\ runs[w].stage \in Reserving
  <2>1. /\ runs[w].pc = "reserve" /\ runs'[w].pc = "attempt"
        /\ runs'[w].cancelled = runs[w].cancelled
        /\ runs'[w].preempted = runs[w].preempted
    BY <1>1, <1>6 DEF ReserveSession, Runs
  <2>2. is_interrupted(w)' = is_interrupted(w)
    BY <2>1 DEF is_interrupted
  <2>3. ReservingAttempt = Upkeep!At("reserve", Kind(w), is_interrupted(w), "none")
    BY <1>2, <1>5, <1>6, <2>1 DEF Sees
  <2>4. ReservingAttempt' = Upkeep!At("attempt", Kind(w), is_interrupted(w), "none")
    BY <1>5, <1>6, <2>1, <2>2 DEF Sees
  <2>5. /\ ReservingAttempt.pc = "reserve" /\ ReservingAttempt.kind = Kind(w)
        /\ ReservingAttempt.interrupted = is_interrupted(w)
    BY <2>3, Fields
  <2>6. Upkeep!ReserveSession
    BY <2>4, <2>5 DEF Upkeep!ReserveSession
  <2> QED
    BY <2>6 DEF Upkeep!UpkeepNext
<1>7. CASE SessionBusy(w) /\ runs[w].stage \in Reserving
  <2>1. runs[w].pc = "reserve" /\ runs'[w].pc = "ended"
    BY <1>1, <1>7 DEF SessionBusy, Runs
  <2>2. ReservingAttempt = Upkeep!At("reserve", Kind(w), is_interrupted(w), "none")
    BY <1>2, <1>5, <1>7, <2>1 DEF Sees
  <2>3. ReservingAttempt' = Upkeep!Past("ended")
    BY <1>5, <1>7, <2>1 DEF Sees
  <2>4. ReservingAttempt.pc = "reserve"
    BY <2>2, Fields
  <2>5. Upkeep!RefuseSession
    BY <2>3, <2>4 DEF Upkeep!RefuseSession
  <2> QED
    BY <2>5 DEF Upkeep!UpkeepNext
<1>8. CASE AttemptStep(w) /\ runs[w].stage \in Reserving
  <2> PICK outcome \in Outcomes : Attempt(w, outcome)
    BY <1>8 DEF AttemptStep
  <2>1. /\ runs[w].pc = "attempt" /\ runs'[w].pc = "release"
        /\ runs'[w].outcome = outcome /\ outcome \in AttemptOutcomes(w)
    BY <1>1, <1>8 DEF Attempt, Runs
  <2>2. ReservingAttempt = Upkeep!At("attempt", Kind(w), is_interrupted(w), "none")
    BY <1>2, <1>5, <1>8, <2>1 DEF Sees
  <2>3. ReservingAttempt' = Upkeep!At("release", Kind(w), FALSE, outcome)
    BY <1>5, <1>8, <2>1 DEF Sees
  <2>4. /\ ReservingAttempt.pc = "attempt" /\ ReservingAttempt.kind = Kind(w)
        /\ ReservingAttempt.interrupted = is_interrupted(w)
    BY <2>2, Fields
  <2>5. Upkeep!AttemptUpkeep(outcome)
    BY <2>1, <2>3, <2>4 DEF Upkeep!AttemptUpkeep, AttemptOutcomes
  <2> QED
    BY <2>5 DEF Upkeep!UpkeepNext, Upkeep!UpkeepReturns, Upkeep!UpkeepOutcomes, Outcomes
<1>9. CASE ReleaseSession(w) /\ runs[w].stage \in Reserving
  <2>1. /\ runs[w].pc = "release" /\ runs'[w].pc = "announce"
        /\ runs'[w].outcome = runs[w].outcome
    BY <1>1, <1>9 DEF ReleaseSession, Runs
  <2>2. ReservingAttempt = Upkeep!At("release", Kind(w), FALSE, runs[w].outcome)
    BY <1>2, <1>5, <1>9, <2>1 DEF Sees
  <2>3. ReservingAttempt' = Upkeep!At("announce", "structural", FALSE, Told(w))
    BY <1>5, <1>9, <2>1 DEF Sees, Told
  <2>4. ReservingAttempt.pc = "release" /\ ReservingAttempt.outcome = runs[w].outcome
    BY <2>2 DEF Upkeep!At
  <2>5. Told(w) = IF ReservingAttempt.outcome = "unwind" THEN "unwind" ELSE "none"
    BY <2>4 DEF Told
  <2>6. Upkeep!ReleaseSession
    BY <2>3, <2>4, <2>5 DEF Upkeep!ReleaseSession, Upkeep!Structural
  <2> QED
    BY <2>6 DEF Upkeep!UpkeepNext
<1>10. CASE AnnounceRelease(w) /\ runs[w].stage \in Reserving
  <2> DEFINE unwound == runs[w].outcome = "unwind"
  <2>1. /\ runs[w].pc = "announce"
        /\ unwound => runs'[w].pc = "dead"
        /\ ~unwound => runs'[w].pc = "ended"
    BY <1>1, <1>10 DEF AnnounceRelease, Runs
  <2>2. ReservingAttempt = Upkeep!At("announce", "structural", FALSE, Told(w))
    BY <1>2, <1>5, <1>10, <2>1 DEF Sees
  <2>3. ReservingAttempt.pc = "announce" /\ ReservingAttempt.outcome = Told(w)
    BY <2>2 DEF Upkeep!At
  <2>4. unwound => ReservingAttempt' = (Upkeep!NoUpkeep)'
    BY <1>2, <2>1, SeenNext DEF Seen, SeesNothing, AttemptPlaces
  <2>5. ~unwound => ReservingAttempt' = Upkeep!Past("ended")
    BY <1>5, <1>10, <2>1 DEF Sees
  <2>6. Upkeep!AnnounceRelease
    BY <2>3, <2>4, <2>5 DEF Upkeep!AnnounceRelease, Told
  <2> QED
    BY <2>6 DEF Upkeep!UpkeepNext
<1> QED
  BY <1>4, <1>6, <1>7, <1>8, <1>9, <1>10 DEF SessionStep

\* The worker's own steps begin and end an attempt, or are invisible.
LEMMA OwnStepsAllowed ==
    ASSUME Inv, NEW w \in Tokens, OwnStep(w)
    PROVE  Upkeep!UpkeepNext \/ UNCHANGED ReservingAttempt
<1>1. /\ runs \in [Tokens -> Runs] /\ runs[w] \in Runs /\ registry \in Entries
      /\ w # NoToken
  BY TokensAssumption DEF Inv, ReclamationTypeOK
<1>2. registry.run = w
  BY DEF OwnStep, Enter, Check, BeginAttempt, EndAttempt, Inspect, Backoff, Finish, Inv,
         OneExecution
<1>3. CASE BeginAttempt(w)
  <2>1. runs[w].pc = "begin" /\ registry'.run = w
    BY <1>1, <1>2, <1>3 DEF BeginAttempt, Entries
  <2> DEFINE pc == IF runs[w].stage \in Reserving THEN "reserve" ELSE "attempt"
  <2>2. runs' = [runs EXCEPT ![w] = [runs[w] EXCEPT !.preempted = FALSE, !.pc = pc]]
    BY <1>2, <1>3 DEF BeginAttempt, owns
  <2>3. runs'[w].stage = runs[w].stage /\ runs'[w].pc = pc
    BY <1>1, <2>2 DEF Runs
  <2>4. ReservingAttempt = Upkeep!NoUpkeep
    BY <1>2, <2>1, SeenNow DEF Seen, SeesNothing, AttemptPlaces
  <2>5. CASE runs[w].stage \notin Reserving
    BY <2>1, <2>3, <2>4, <2>5, SeenNext
       DEF Seen, SeesNothing, Upkeep!NoUpkeep, Upkeep!Past, Upkeep!Structural
  <2>6. CASE runs[w].stage \in Reserving
    <3>1. ReservingAttempt' = Upkeep!At("reserve", Kind(w)', is_interrupted(w)', "none")
      BY <2>1, <2>2, <2>3, <2>6, SeenNext DEF Seen, Sees
    <3>2. ReservingAttempt.pc = "idle"
      BY <2>4 DEF Upkeep!NoUpkeep, Upkeep!Past, Upkeep!At
    <3>3. Kind(w)' \in {Upkeep!Structural, Upkeep!Incremental}
      BY DEF Kind, Upkeep!Structural, Upkeep!Incremental
    <3>4. is_interrupted(w)' \in BOOLEAN
      BY DEF is_interrupted
    <3>5. Upkeep!BeginUpkeep
      BY <3>1, <3>2, <3>3, <3>4 DEF Upkeep!BeginUpkeep
    <3> QED
      BY <3>5 DEF Upkeep!UpkeepNext
  <2> QED
    BY <2>5, <2>6
<1>4. CASE EndAttempt(w)
  <2>1. runs[w].pc = "ended"
    BY <1>4 DEF EndAttempt
  <2>2. GoesOn(w) /\ runs'[w].pc \in {"check", "finish", "backoff"}
    <3>1. GoesOn(w)
      BY <1>4, OwnGoesOn, <2>1 DEF Finish
    <3>2. CASE \E next \in Advanced(runs[w]) : runs' = [runs EXCEPT ![w] = next]
      BY <1>1, <3>1, <3>2, AdvancedType
    <3>3. CASE runs' = [runs EXCEPT ![w].pc = "finish"]
      BY <1>1, <3>1, <3>3 DEF Runs
    <3>4. CASE runs' = [runs EXCEPT ![w].pc = "backoff"]
      BY <1>1, <3>1, <3>4 DEF Runs
    <3> QED
      BY <1>4, <3>2, <3>3, <3>4 DEF EndAttempt
  <2>3. ReservingAttempt' = (Upkeep!NoUpkeep)'
    BY <1>2, <2>2, SeenNext DEF Seen, SeesNothing, AttemptPlaces, GoesOn
  <2>4. CASE runs[w].stage \in Reserving
    <3>1. ReservingAttempt = Upkeep!Past("ended")
      BY <1>2, <2>1, <2>4, SeenNow DEF Seen, Sees
    <3>2. ReservingAttempt.pc = "ended"
      BY <3>1 DEF Upkeep!Past, Upkeep!At
    <3>3. Upkeep!EndUpkeep
      BY <2>3, <3>2 DEF Upkeep!EndUpkeep
    <3> QED
      BY <3>3 DEF Upkeep!UpkeepNext
  <2>5. CASE runs[w].stage \notin Reserving
    BY <1>2, <2>3, <2>5, SeenNow
       DEF Seen, SeesNothing, Upkeep!NoUpkeep, Upkeep!Past, Upkeep!Structural
  <2> QED
    BY <2>4, <2>5
<1>5. CASE Finish(w)
  <2>1. runs[w].pc = "finish"
    BY <1>5 DEF Finish
  <2>2. registry'.run = NoToken \/ runs'[registry'.run].pc \notin AttemptPlaces
    <3>1. CASE registry.pending = NoOperation
      BY <1>1, <1>2, <1>5, <3>1 DEF Finish, owns, Entries
    <3>2. CASE registry.pending # NoOperation
      <4> PICK v \in Tokens :
            /\ registry' = [start(registry, v, registry.pending) EXCEPT !.pending = NoOperation]
            /\ runs' = [runs EXCEPT ![w] = NoRun, ![v] = NewRun("enter")]
        BY <1>2, <1>5, <3>2 DEF Finish, owns
      <4>1. registry'.run = v
        BY <1>1 DEF start, Entries
      <4>2. runs'[v].pc = "enter"
        BY <1>1 DEF NewRun, NoRun
      <4> QED
        BY <4>1, <4>2 DEF AttemptPlaces
    <3> QED
      BY <3>1, <3>2
  <2> QED
    BY <1>2, <2>1, <2>2, OutsideIsInvisible DEF AttemptPlaces
<1>6. CASE Enter(w) \/ Check(w) \/ Backoff(w)
           \/ \E outcome \in {"completed", "busy", "error", "unwind"} : Inspect(w, outcome)
  <2>1. runs[w].pc \in {"enter", "check", "backoff", "inspect"}
    BY <1>6 DEF Enter, Check, Backoff, Inspect
  <2>2. GoesOn(w)
    BY <2>1, OwnGoesOn DEF Finish
  <2>3. runs'[w].pc \notin AttemptPlaces
    <3>1. CASE \E next \in Advanced(runs[w]) : runs' = [runs EXCEPT ![w] = next]
      <4> PICK next \in Advanced(runs[w]) : runs' = [runs EXCEPT ![w] = next]
        BY <3>1
      <4>1. next.pc \in {"check", "finish"}
        BY <1>1, AdvancedType
      <4> QED
        BY <1>1, <4>1 DEF AttemptPlaces
    <3>2. CASE \E pc \in {"check", "inspect", "begin", "backoff", "dead"} :
                    runs' = [runs EXCEPT ![w].pc = pc]
      BY <1>1, <3>2 DEF AttemptPlaces, Runs
    <3>3. CASE \E outcome \in {"interrupted", "error"} :
                    runs' = [runs EXCEPT ![w].pc = "finish", ![w].outcome = outcome]
      BY <1>1, <3>3 DEF AttemptPlaces, Runs
    <3>4. CASE Enter(w)
      BY <1>1, <3>4 DEF Enter, AttemptPlaces, Runs
    <3> QED
      BY <1>6, <3>1, <3>2, <3>3, <3>4 DEF Check, Backoff, Inspect
  <2> QED
    BY <1>2, <2>1, <2>2, <2>3, OutsideIsInvisible DEF AttemptPlaces, GoesOn
<1> QED
  BY <1>3, <1>4, <1>5, <1>6 DEF OwnStep

\* Whatever the registry, the workers and the clients do, the catalog session
\* sees one maintenance attempt at a time that asks for it, works, and gives
\* it back on every way out before another one begins.
THEOREM MaintainsSafely == ReclamationSpec => Upkeep!UpkeepSteps
<1>1. ReclamationInit => Upkeep!UpkeepInit
  BY SeenNow DEF ReclamationInit, Seen, SeesNothing, Upkeep!UpkeepInit
<1>2. Inv /\ [ReclamationNext]_reclamation => [Upkeep!UpkeepNext]_ReservingAttempt
  <2> SUFFICES ASSUME Inv, [ReclamationNext]_reclamation
               PROVE  Upkeep!UpkeepNext \/ UNCHANGED ReservingAttempt
    OBVIOUS
  <2>1. CASE UNCHANGED reclamation
    BY <2>1 DEF reclamation, ReservingAttempt, Reservation, is_interrupted
  <2>2. CASE \E c \in Clients : Request(c)
    BY <2>2, RequestIsInvisible
  <2>3. CASE \/ \E op \in Operations : Cancel(op)
             \/ \E c \in Clients : Preempt(c)
             \/ \E w \in Tokens : WriterPreempts(w)
    BY <2>3, InterruptsAreAllowed DEF Upkeep!UpkeepNext
  <2>4. CASE \E w \in Tokens : OwnStep(w)
    BY <2>4, OwnStepsAllowed
  <2>5. CASE \E w \in Tokens : SessionStep(w) \/ AttemptStep(w)
    BY <2>5, SessionStepsAllowed
  <2> QED
    BY <2>1, <2>2, <2>3, <2>4, <2>5 DEF ReclamationNext
<1> QED
  BY <1>1, <1>2, Invariance, PTL DEF ReclamationSpec, Upkeep!UpkeepSteps
=============================================================================
