--------------------------- MODULE WriteAdmission ---------------------------
(***************************************************************************)
(* The in-process admission of SQLite writers                              *)
(* (rust/src/adapters/sqlite_catalog/write_admission.rs).  One mutex       *)
(* guards a five-level priority queue of waiting tokens and the active     *)
(* permit; one condition variable wakes the waiters.  A thread gets a      *)
(* permit by blocking, by waiting with a deadline, by reserving a queue    *)
(* position it retries, or by one non-blocking attempt.                    *)
(*                                                                         *)
(* Every critical section of the mutex is one action.  What the code does  *)
(* between two critical sections is a step of its own: running the         *)
(* preemption callback of the active writer, and notify_all, which is      *)
(* called after the mutex was released.  The token of a pending write      *)
(* (an Arc compared by pointer) is the thread that owns it, since a thread *)
(* owns at most one.  The callback of a preemptible permit is the pair of  *)
(* the thread and the number of its call.                                  *)
(***************************************************************************)
EXTENDS Naturals, Sequences

CONSTANTS
    Writers,      \* threads that ask for a write permit
    Watchers,     \* threads that wait for the write epoch to move
    Asks,         \* the calls made, out of those the code makes
    MaxCalls,     \* bound: calls one writer makes
    MaxWrites,    \* bound: writes after which a reservation is not retried
    NoCallback    \* None, for an optional callback

Interactive == 0      \* SQLITE_USER_INTERACTIVE_PRIORITY
Maintenance == 4      \* SQLITE_MAINTENANCE_PRIORITY
Lanes       == 1..3   \* sqlite_write_priority: Live, Journal, Recovery
Priorities  == Interactive..Maintenance

Modes     == {"acquire", "acquire_preemptible", "acquire_for", "reserve",
              "try_acquire", "try_maintenance"}
Callbacks == (Writers \X Nat) \cup {NoCallback}
Calls     == [mode : Modes, priority : Priorities]

\* The calls that register a token; acquire_user_interactive is acquire_for at
\* the interactive priority.
PendingCalls ==
    [mode : {"acquire", "acquire_preemptible", "reserve"}, priority : Lanes]
    \cup [mode : {"acquire_for"}, priority : {Interactive} \cup Lanes]

\* The calls that try once; try_maintenance is preemptible.
TryCalls ==
    [mode : {"try_acquire"}, priority : Lanes]
    \cup [mode : {"try_maintenance"}, priority : {Maintenance}]

ASSUME AdmissionAssumption ==
    /\ MaxCalls \in Nat
    /\ MaxWrites \in Nat
    /\ NoCallback \notin Writers \X Nat
    /\ Asks \subseteq PendingCalls \cup TryCalls

VARIABLES
    permit,     \* is_active: "free" or "active"
    active_priority, active_preempt, waiting, completed_write_epoch,
    pc,         \* where each writer is in its call
    call,       \* the call each writer makes
    calls,      \* how many calls each writer has begun
    preempt,    \* the callback a writer cloned when it registered
    invoked,    \* the callbacks that have been run
    watch,      \* where each watcher is
    observed,   \* the epoch each watcher passed to its wait
    ticket,     \* history: when each writer registered or tried
    clock       \* history: registrations so far

state == <<permit, active_priority, active_preempt, waiting,
           completed_write_epoch>>
vars  == <<state, pc, call, calls, preempt, invoked, watch, observed,
           ticket, clock>>

NoCall == [mode |-> "acquire", priority |-> 1]

Init ==
    /\ permit = "free"
    /\ active_priority = 0
    /\ active_preempt = NoCallback
    /\ waiting = [p \in Priorities |-> << >>]
    /\ completed_write_epoch = 0
    /\ pc = [w \in Writers |-> "idle"]
    /\ call = [w \in Writers |-> NoCall]
    /\ calls = [w \in Writers |-> 0]
    /\ preempt = [w \in Writers |-> NoCallback]
    /\ invoked = {}
    /\ watch = [v \in Watchers |-> "idle"]
    /\ observed = [v \in Watchers |-> 0]
    /\ ticket = [w \in Writers |-> 0]
    /\ clock = 0

-----------------------------------------------------------------------------
(* Helpers.                                                                *)

\* Variant: the comparison of preemption_callback the wrong way round.
PreemptionCallbackSwapped(p) ==
    IF permit = "active" /\ p > active_priority THEN active_preempt ELSE NoCallback

\* preemption_callback: the active writer's callback, for a waiter that
\* outranks it.
PreemptionCallback(p) ==
    IF permit = "active" /\ p < active_priority THEN active_preempt ELSE NoCallback

\* Variant: can_admit that forgets the active permit.
CanAdmitWhileActive(w) ==
    /\ \A q \in Priorities : q < call[w].priority => waiting[q] = << >>
    /\ waiting[call[w].priority] # << >>
    /\ Head(waiting[call[w].priority]) = w

\* PendingWrite::can_admit
CanAdmit(w) ==
    /\ permit = "free"
    /\ \A q \in Priorities : q < call[w].priority => waiting[q] = << >>
    /\ waiting[call[w].priority] # << >>
    /\ Head(waiting[call[w].priority]) = w

\* Variant: the drop of a pending write pops the front, whoever owns it.
RetainPopsFront(s, w) == IF s = << >> THEN s ELSE Tail(s)

\* VecDeque::retain of every token but w's.  A token is queued once.
Retain(s, w) ==
    IF \E i \in 1..Len(s) : s[i] = w
    THEN LET k == CHOOSE i \in 1..Len(s) : s[i] = w
         IN  [i \in 1..(Len(s) - 1) |-> IF i < k THEN s[i] ELSE s[i + 1]]
    ELSE s

\* The permit becomes the property of w.
Activate(w, callback) ==
    /\ permit' = "active"
    /\ active_priority' = call'[w].priority
    /\ active_preempt' = callback

OwnCallback(w) ==
    IF call'[w].mode \in {"acquire_preemptible", "try_maintenance"}
    THEN <<w, calls'[w]>> ELSE NoCallback

\* A call begins: the bound is on the calls one writer makes.
Begin(w, c) ==
    /\ pc[w] = "idle"
    /\ calls[w] < MaxCalls
    /\ call' = [call EXCEPT ![w] = c]
    /\ calls' = [calls EXCEPT ![w] = @ + 1]
    /\ clock' = clock + 1
    /\ ticket' = [ticket EXCEPT ![w] = clock + 1]

-----------------------------------------------------------------------------
(* A pending write: acquire, acquire_preemptible, acquire_for,             *)
(* acquire_user_interactive and reserve begin by registering a token.      *)

\* register: queue the token, and clone the callback of the writer outranked.
Register(w, c) ==
    /\ Begin(w, c)
    /\ waiting' = [waiting EXCEPT ![c.priority] = Append(@, w)]
    /\ preempt' = [preempt EXCEPT ![w] = PreemptionCallback(c.priority)]
    /\ pc' = [pc EXCEPT ![w] = "calling"]
    /\ UNCHANGED <<permit, active_priority, active_preempt,
                   completed_write_epoch, invoked, watch, observed>>

\* The cloned callback runs outside the mutex.
CallPreempt(w) ==
    /\ pc[w] = "calling"
    /\ invoked' = invoked \cup ({preempt[w]} \ {NoCallback})
    /\ pc' = [pc EXCEPT ![w] =
                 IF call[w].mode = "reserve" THEN "reserved" ELSE "locking"]
    /\ UNCHANGED <<state, call, calls, preempt, watch, observed, ticket, clock>>

\* The callback unwinds: PendingWrite is dropped on the way out.
CallPreemptPanics(w) ==
    /\ pc[w] = "calling"
    /\ preempt[w] # NoCallback
    /\ pc' = [pc EXCEPT ![w] = "retiring"]
    /\ UNCHANGED <<state, call, calls, preempt, invoked, watch, observed,
                   ticket, clock>>

\* PendingWrite::admit, in the loop of acquire_priority(_for).
Admit(w) ==
    /\ pc[w] = "locking"
    /\ CanAdmit(w)
    /\ waiting' = [waiting EXCEPT ![call[w].priority] = Tail(@)]
    /\ UNCHANGED <<call, calls>>
    /\ Activate(w, OwnCallback(w))
    /\ pc' = [pc EXCEPT ![w] = "holding"]
    /\ UNCHANGED <<completed_write_epoch, preempt, invoked, watch, observed,
                   ticket, clock>>

\* The condition variable's wait, which releases the mutex atomically.
Park(w) ==
    /\ pc[w] = "locking"
    /\ ~CanAdmit(w)
    /\ pc' = [pc EXCEPT ![w] = "parked"]
    /\ UNCHANGED <<state, call, calls, preempt, invoked, watch, observed,
                   ticket, clock>>

\* acquire_priority_for returns None: the deadline passed before admission.
TimeOut(w) ==
    /\ pc[w] = "locking"
    /\ call[w].mode = "acquire_for"
    /\ ~CanAdmit(w)
    /\ pc' = [pc EXCEPT ![w] = "retiring"]
    /\ UNCHANGED <<state, call, calls, preempt, invoked, watch, observed,
                   ticket, clock>>

\* wait_timeout returns because its time is up.
WaitTimesOut(w) ==
    /\ pc[w] = "parked"
    /\ call[w].mode = "acquire_for"
    /\ pc' = [pc EXCEPT ![w] = "locking"]
    /\ UNCHANGED <<state, call, calls, preempt, invoked, watch, observed,
                   ticket, clock>>

\* Variant: the drop of a pending write does not notify.
RetireSilently(w) ==
    /\ pc[w] = "retiring"
    /\ waiting' = [waiting EXCEPT ![call[w].priority] = Retain(@, w)]
    /\ pc' = [pc EXCEPT ![w] = "idle"]
    /\ UNCHANGED <<permit, active_priority, active_preempt,
                   completed_write_epoch, call, calls, preempt, invoked,
                   watch, observed, ticket, clock>>

\* Drop of PendingWrite, up to the release of the mutex.
Retire(w) ==
    /\ pc[w] = "retiring"
    /\ waiting' = [waiting EXCEPT ![call[w].priority] = Retain(@, w)]
    /\ pc' = [pc EXCEPT ![w] = "token_dropped"]
    /\ UNCHANGED <<permit, active_priority, active_preempt,
                   completed_write_epoch, call, calls, preempt, invoked,
                   watch, observed, ticket, clock>>

-----------------------------------------------------------------------------
(* ReservedWrite: the position outlives a permit, until it is dropped.     *)

\* ReservedWrite::try_acquire that succeeds; a refusal changes nothing.
ReservedTryAcquire(w) ==
    /\ pc[w] = "reserved"
    /\ completed_write_epoch < MaxWrites
    /\ CanAdmit(w)
    /\ UNCHANGED call
    /\ Activate(w, NoCallback)
    /\ pc' = [pc EXCEPT ![w] = "holding"]
    /\ UNCHANGED <<waiting, completed_write_epoch, calls, preempt, invoked,
                   watch, observed, ticket, clock>>

DropReservation(w) ==
    /\ pc[w] = "reserved"
    /\ pc' = [pc EXCEPT ![w] = "retiring"]
    /\ UNCHANGED <<state, call, calls, preempt, invoked, watch, observed,
                   ticket, clock>>

-----------------------------------------------------------------------------
(* try_acquire and try_acquire_preemptible_maintenance.                    *)

\* Variant: try_acquire looks at the higher priorities only, and barges.
TryAcquireBarges(w, c) ==
    /\ permit = "free"
    /\ \A q \in Priorities : q < c.priority => waiting[q] = << >>
    /\ Begin(w, c)
    /\ Activate(w, OwnCallback(w))
    /\ pc' = [pc EXCEPT ![w] = "holding"]
    /\ UNCHANGED <<waiting, completed_write_epoch, preempt, invoked, watch,
                   observed>>

\* try_acquire_priority that succeeds; a refusal changes nothing.
TryAcquire(w, c) ==
    /\ permit = "free"
    /\ \A q \in Priorities : q <= c.priority => waiting[q] = << >>
    /\ Begin(w, c)
    /\ Activate(w, OwnCallback(w))
    /\ pc' = [pc EXCEPT ![w] = "holding"]
    /\ UNCHANGED <<waiting, completed_write_epoch, preempt, invoked, watch,
                   observed>>

-----------------------------------------------------------------------------
(* Drop of SqliteWritePermit, and the notification that ends both drops.   *)

\* Variant: the epoch is counted down.
ReleaseCountsDown(w) ==
    /\ pc[w] = "holding"
    /\ permit' = "free"
    /\ active_priority' = 0
    /\ active_preempt' = NoCallback
    /\ completed_write_epoch' = completed_write_epoch - 1
    /\ pc' = [pc EXCEPT ![w] = "permit_dropped"]
    /\ UNCHANGED <<waiting, call, calls, preempt, invoked, watch, observed,
                   ticket, clock>>

Release(w) ==
    /\ pc[w] = "holding"
    /\ permit' = "free"
    /\ active_priority' = 0
    /\ active_preempt' = NoCallback
    /\ completed_write_epoch' = completed_write_epoch + 1
    /\ pc' = [pc EXCEPT ![w] = "permit_dropped"]
    /\ UNCHANGED <<waiting, call, calls, preempt, invoked, watch, observed,
                   ticket, clock>>

\* Variant: notify_one wakes one of the parked threads.
NotifyOne(w) ==
    /\ pc[w] \in {"permit_dropped", "token_dropped"}
    /\ LET back == IF pc[w] = "permit_dropped" /\ call[w].mode = "reserve"
                   THEN "reserved" ELSE "idle"
           parked == {v \in Writers : pc[v] = "parked"}
           dozing == {v \in Watchers : watch[v] = "parked"}
       IN  \/ /\ parked \cup dozing = {}
              /\ pc' = [pc EXCEPT ![w] = back]
              /\ UNCHANGED watch
           \/ /\ \E v \in parked :
                    pc' = [pc EXCEPT ![w] = back, ![v] = "locking"]
              /\ UNCHANGED watch
           \/ /\ pc' = [pc EXCEPT ![w] = back]
              /\ \E v \in dozing : watch' = [watch EXCEPT ![v] = "checking"]
    /\ UNCHANGED <<state, call, calls, preempt, invoked, observed, ticket, clock>>

NotifyAll(w) ==
    /\ pc[w] \in {"permit_dropped", "token_dropped"}
    /\ pc' = [v \in Writers |->
                IF v = w THEN IF /\ pc[w] = "permit_dropped"
                                 /\ call[w].mode = "reserve"
                              THEN "reserved" ELSE "idle"
                ELSE IF pc[v] = "parked" THEN "locking" ELSE pc[v]]
    /\ watch' = [v \in Watchers |->
                   IF watch[v] = "parked" THEN "checking" ELSE watch[v]]
    /\ UNCHANGED <<state, call, calls, preempt, invoked, observed, ticket, clock>>

-----------------------------------------------------------------------------
(* completed_write_epoch, then wait_for_completed_write_after.             *)

ObserveEpoch(v) ==
    /\ watch[v] = "idle"
    /\ observed' = [observed EXCEPT ![v] = completed_write_epoch]
    /\ watch' = [watch EXCEPT ![v] = "checking"]
    /\ UNCHANGED <<state, pc, call, calls, preempt, invoked, ticket, clock>>

WatchPark(v) ==
    /\ watch[v] = "checking"
    /\ observed[v] = completed_write_epoch
    /\ watch' = [watch EXCEPT ![v] = "parked"]
    /\ UNCHANGED <<state, pc, call, calls, preempt, invoked, observed, ticket,
                   clock>>

\* The epoch moved.
WatchReturn(v) ==
    /\ watch[v] = "checking"
    /\ observed[v] # completed_write_epoch
    /\ watch' = [watch EXCEPT ![v] = "idle"]
    /\ UNCHANGED <<state, pc, call, calls, preempt, invoked, observed, ticket,
                   clock>>

\* The wait's time is up, before or while it is parked.
WatchTimesOut(v) ==
    /\ watch[v] \in {"checking", "parked"}
    /\ watch' = [watch EXCEPT ![v] = "idle"]
    /\ UNCHANGED <<state, pc, call, calls, preempt, invoked, observed, ticket,
                   clock>>

-----------------------------------------------------------------------------
WriterStep(w) ==
    \/ CallPreempt(w)
    \/ CallPreemptPanics(w)
    \/ Admit(w)
    \/ Park(w)
    \/ TimeOut(w)
    \/ WaitTimesOut(w)
    \/ Retire(w)
    \/ ReservedTryAcquire(w)
    \/ DropReservation(w)
    \/ Release(w)
    \/ NotifyAll(w)

WatcherStep(v) ==
    \/ ObserveEpoch(v)
    \/ WatchPark(v)
    \/ WatchReturn(v)
    \/ WatchTimesOut(v)

Next ==
    \/ \E w \in Writers : \E c \in Asks \cap PendingCalls : Register(w, c)
    \/ \E w \in Writers : \E c \in Asks \cap TryCalls : TryAcquire(w, c)
    \/ \E w \in Writers : WriterStep(w)
    \/ \E v \in Watchers : WatcherStep(v)

Spec == Init /\ [][Next]_vars

\* A thread that is not blocked is scheduled; a permit is dropped when its
\* transaction ends, a reservation when its owner committed or gave up.
\* Nothing makes a wait time out: timeouts are bounds, not progress.
Fairness ==
    /\ \A w \in Writers :
         /\ WF_vars(CallPreempt(w))
         /\ WF_vars(Admit(w))
         /\ WF_vars(Retire(w))
         /\ WF_vars(DropReservation(w))
         /\ WF_vars(Release(w))
         /\ WF_vars(NotifyAll(w))
    /\ \A v \in Watchers : WF_vars(WatchReturn(v))

FairSpec == Spec /\ Fairness

-----------------------------------------------------------------------------
(* Properties.                                                             *)

\* A writer that owns a token of PendingWrite; a reservation keeps its token
\* while it holds a permit.
HasToken(w) ==
    \/ pc[w] \in {"calling", "locking", "parked", "reserved", "retiring"}
    \/ call[w].mode = "reserve" /\ pc[w] \in {"holding", "permit_dropped"}

Holds(w) == pc[w] = "holding"

Places == {"idle", "calling", "locking", "parked", "retiring", "reserved",
           "holding", "permit_dropped", "token_dropped"}

\* Type invariant of the admission state and of the threads' positions.
TypeOK ==
    /\ permit \in {"free", "active"}
    /\ active_priority \in Priorities
    /\ active_preempt \in Callbacks
    /\ waiting \in [Priorities -> Seq(Writers)]
    /\ completed_write_epoch \in Nat
    /\ pc \in [Writers -> Places]
    /\ call \in [Writers -> Calls]
    /\ calls \in [Writers -> Nat]
    /\ preempt \in [Writers -> Callbacks]
    /\ invoked \in SUBSET (Writers \X Nat)
    /\ watch \in [Watchers -> {"idle", "checking", "parked"}]
    /\ observed \in [Watchers -> Nat]
    /\ ticket \in [Writers -> Nat]
    /\ clock \in Nat

\* At most one thread holds a permit, and the shared state describes exactly
\* that thread: SqliteWritePermit is the mutual exclusion of catalog writers.
SingleWriter ==
    /\ \A v, w \in Writers : Holds(v) /\ Holds(w) => v = w
    /\ permit = "active" <=> \E w \in Writers : Holds(w)
    /\ \A w \in Writers : Holds(w) =>
         /\ active_priority = call[w].priority
         /\ active_preempt \in {NoCallback, <<w, calls[w]>>}

\* Predicates of a queue s: w waits in it, nobody waits twice, and its order is
\* the order of registration.
Has(s, w)   == \E i \in 1..Len(s) : s[i] = w
Distinct(s) == \A i, j \in 1..Len(s) : s[i] = s[j] => i = j
Sorted(s)   == \A i, j \in 1..Len(s) : i < j => ticket[s[i]] < ticket[s[j]]

\* The queues hold exactly the tokens that are still owned, each once and at
\* its own priority: admission, a timeout, an unwinding callback and a dropped
\* reservation leave no token behind and remove no one else's.
QueueMatchesTokens ==
    /\ \A p \in Priorities : Distinct(waiting[p])
    /\ \A w \in Writers : \A p \in Priorities :
         Has(waiting[p], w) <=> HasToken(w) /\ call[w].priority = p

\* No lost wakeup.  A parked writer that could be admitted has a notify_all on
\* its way, and so has a parked watcher whose epoch has moved, although both
\* drops release the mutex before they notify.
NoLostWakeup ==
    /\ \A w \in Writers : pc[w] = "parked" /\ CanAdmit(w) =>
         \E v \in Writers : pc[v] \in {"permit_dropped", "token_dropped"}
    /\ \A u \in Watchers :
         watch[u] = "parked" /\ observed[u] # completed_write_epoch =>
         \E v \in Writers : pc[v] = "permit_dropped"

\* A writer that waits, or holds a reservation, behind a preemptible writer of
\* a lower priority has told that writer to yield before it began to wait.
OutrankedWriterIsTold ==
    \A w \in Writers :
        /\ pc[w] \in {"locking", "parked", "reserved"}
        /\ permit = "active"
        /\ call[w].priority < active_priority
        /\ active_preempt # NoCallback
        => active_preempt \in invoked

\* Admission order.  No step gives the permit to a writer while another owns
\* a token of a higher priority, or one of the same priority that it
\* registered earlier: neither a wakeup order, nor a timed-out neighbour, nor
\* a rolled-back reservation, nor a barging try_acquire breaks FIFO.
Outranks(v, w) ==
    \/ call'[v].priority < call'[w].priority
    \/ call'[v].priority = call'[w].priority /\ ticket'[v] < ticket'[w]

AdmissionOrder ==
    [][\A v, w \in Writers :
         /\ pc[w] # "holding" /\ pc'[w] = "holding"
         /\ v # w /\ HasToken(v)
         => ~Outranks(v, w)]_vars

\* The inductive invariant that implies the safety properties above.
\* ModeFits: a writer is only in places its kind of call goes through.
\* CallingKnows: a writer that registered behind the active preemptible writer
\* it outranks has that writer's callback in its hands.
\* ReservationBlocks: a reservation whose permit was just dropped still keeps
\* every lower priority out.
\* QueueIsFIFO: every queue is in the order of registration.
PendingModes == {"acquire", "acquire_preemptible", "acquire_for", "reserve"}

ModeFits ==
    \A w \in Writers :
        /\ pc[w] = "calling" => call[w].mode \in PendingModes
        /\ pc[w] \in {"locking", "parked"} =>
             call[w].mode \in {"acquire", "acquire_preemptible", "acquire_for"}
        /\ pc[w] = "reserved" => call[w].mode = "reserve"

CallingKnows ==
    \A w \in Writers :
        /\ pc[w] = "calling"
        /\ permit = "active"
        /\ call[w].priority < active_priority
        /\ active_preempt # NoCallback
        => preempt[w] = active_preempt

ReservationBlocks ==
    \A w \in Writers :
        pc[w] = "permit_dropped" /\ call[w].mode = "reserve" /\ permit = "active"
        => ~(call[w].priority < active_priority)

QueueIsFIFO ==
    /\ \A p \in Priorities : Sorted(waiting[p])
    /\ \A w \in Writers : ticket[w] <= clock

AdmissionInv ==
    /\ TypeOK
    /\ ModeFits
    /\ SingleWriter
    /\ QueueMatchesTokens
    /\ QueueIsFIFO
    /\ CallingKnows
    /\ ReservationBlocks
    /\ OutrankedWriterIsTold
    /\ NoLostWakeup

\* A blocked acquire is admitted.  The bound on calls makes the newer arrivals
\* of higher priorities finite; without it the lanes may starve by design.
BlockedWriterIsAdmitted ==
    \A w \in Writers :
        call[w].mode \in {"acquire", "acquire_preemptible"} /\ pc[w] \in {"locking", "parked"}
        ~> pc[w] = "holding"

\* A watcher whose epoch moved returns.
WatcherReturns ==
    \A v \in Watchers :
        watch[v] = "parked" /\ observed[v] # completed_write_epoch
        ~> watch[v] = "idle"
=============================================================================
