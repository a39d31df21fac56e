# Ame: a verification companion

Ame is a Windows photo-library application: a Rust core (`rust/src`) that keeps
a SQLite catalog in step with the user's photo folders ("roots"), and a Flutter
front end (`lib`). This directory holds TLA+ models of the parts of the core
whose correctness depends on the order in which threads, transactions and
crashes act, the TLC instances that check them, and TLAPS proofs. Paths in this
file are relative to `src/`.

## The system and how its parts interact

A root is first imported by a *foreground scan*. From then on a *watcher* (live
events), a *persistent journal* (events missed while the program was closed)
and *audits* report changes as *intents*, which are written to a *durable change
queue* in the catalog. The *synchronization runtime* polls: its workers lease
queue rows, look at the named places on disk, and publish *catalog deltas* that
complete the row in the same transaction. When a watcher loses its buffer, the
resulting *gap* is promoted to a control row, and a *metadata inventory*
enumerates the root and enqueues a row for every difference. A later scan
captures queued rows and settles them when it publishes. Whoever opens the
catalog shares one validated *session*, which *maintenance* (page reclamation
in the background) reserves between uses. Every catalog write of the process
first passes *writer admission*. Previews, duplicate detection,
classification and user organisation read published snapshots and write their
own tables under the same admission.

### Inventory

| Part | State | Operations | What makes it hard | Properties wanted | Status |
|---|---|---|---|---|---|
| Writer admission | active permit, five token queues, write epoch | acquire, acquire for a time, reserve, try, release, wait for epoch | notification after unlock, timeouts, unwinding callbacks, preemption | exclusion, no lost wakeup, order, progress | `WriteAdmission`, proved |
| Durable change queue | rows with status, lease, attempts, generation, successor | enqueue and coalesce, degrade, lease, expire, complete, retry, defer, clean up | events during a lease, stale workers, capacity, crashes | no reported change is lost, stale leases do nothing | `ChangeQueue` |
| Foreground scan (queue side) | running scan, watermark, captured rows | begin, publish, abandon, unregister | leases beside a scan, late work, first import abandoned | capture below the watermark, generations retired | `ChangeQueue` |
| Metadata inventory recovery | authorities, runs, staged candidates, owners | promote, lease control, begin, stage, publish candidate, finish | runs outlive leases, candidates coalesce with other rows | evidence kept, retirement is proved, a run keeps its owner | `RecoveryQueue` |
| Catalog session and maintenance | session slot, validation and maintenance flights, running scans | open, validate, protect, recover, reserve, release | maintenance against scans and waiters, locks given up between check and use | a scan keeps its session, recovery runs alone, waiters wake | `CatalogSession`, `CatalogUpkeep` |
| Catalog reclamation | registry entry, run token, control of the attempt | admit, spawn, cancel, preempt, attempt, back off, finish | hand-over of a waiting request, late preemption, lost workers | one worker, exact cancellation, a true snapshot | `CatalogReclamation`, proved |
| Scan staging | staged rows, checkpoints, pause and cancel | stage, pause, resume, publish | crash between pages, cancel against publish | a published projection is one complete scan | planned |
| Change observer | watcher session, bounded buffer | start, overflow, drain, hand over | overflow during hand-over, restart | an overflow becomes a gap | planned |
| Synchronization runtime | worker slots, wakeups, stop flag | start, poll, stop | stop against a running pass | stop terminates, no orphan worker | planned |
| Persistent journal | cursor, baseline, ranges | read, admit range, advance, reset | crash between admission and cursor, journal wrap | the cursor never passes unadmitted work | planned |
| Storage relocation | settings file, old and new location | prepare, copy, switch, clean | crash at each step | one valid location at all times | planned |
| Previews | cache files, generations, quota | generate, publish, evict, recover | eviction against publication | no record without its file | planned |
| Duplicates, similarity, classification | leased work items | claim, publish, invalidate | content changed during the work | results name current content | planned |
| Organisation | decisions bound to content lineage | apply, undo, rebind | undo after a concurrent change | undo restores | planned |
| Journal broker, location recovery, front-end coordinators | | | | | planned last |
| Gallery queries, migrations, archives, decoding, inference, generated bridge | | | read-only, linear, I/O or numerical code | | not modelled |

`PROJECT.json` gives every part with its sources and the reason for its status,
and lists the hazards with the source line where each one bites.

## Modules

* `WriteAdmission`: `adapters/sqlite_catalog/write_admission.rs`. Each critical
  section of the mutex is an action; the preemption callback and `notify_all`
  are steps of their own because the code runs them after unlocking.
  `MCWriteAdmission` is its instance. `WriteAdmissionProofs` and
  `WriteAdmissionSafety` hold its theorems.
* `ChangeIntents`: the pure comparison and merging of intents
  (`change_queue/coalescing.rs`, `domain/library_change.rs`). A path is the
  sequence of its segments, so subtree membership is a prefix.
* `ChangeQueue`: the rows of one root and everything that writes them. Each
  action is one SQLite transaction: `Enqueue` and `EnqueueNewer` (sources),
  `LeasePass`, `Complete`, `LoseLease`, `Retry`, `Defer`, `DeferForCapacity`
  (workers), `BeginScan`, `PublishScan`, `AbandonScan` (the scan),
  `UnregisterRoot` and `Crash`. `enqueue_one`, `Coalesce` and `degrade_to_root`
  follow the functions of those names. Three variables are history only: `owed`
  (what sources reported and no later look settled), and the `since` fields of
  rows and of the scan (what was reported after a look may have begun).
* `RecoveryQueue` composes the queue with inventory runs: `Promote`,
  `TransferRetained`, `LeaseControl`, `StartRun`, `Stage`, `Publish`,
  `PublishLost`, `Finish`, `Recheck`, and the queue's actions beside them. A
  transaction that the code refuses (`validate_active_root` while a scan runs, a
  control that no longer owns its run, the trigger `CanOwn`, a full queue) changes
  nothing, so its action is disabled; the worker keeps the run and gives its lease
  back (`GiveBackLease`), and a later lease continues the run.
* `CatalogUpkeep`: what the catalog session expects of whoever maintains the
  catalog. One attempt at a time asks for the session, works, gives the session
  back on every way out, and ends when it is interrupted.
* `CatalogReclamation`: `application/catalog_reclamation.rs` with its
  `operation_registry.rs` and `execution.rs`, and the control of an attempt in
  `ports.rs`. The registry entry is one record; each hold of its lock is an
  action. A worker goes through `Enter`, `Check`, `BeginAttempt`,
  `ReserveSession` or `SessionBusy`, `Attempt`, `ReleaseSession`,
  `AnnounceRelease`, `EndAttempt`, `Backoff` and `Finish`; clients request,
  cancel and preempt between any two of these. It implements `CatalogUpkeep`
  (`ReservingAttempt` is the refinement mapping). `CatalogReclamationProofs` and
  `CatalogReclamationRefinement` hold its theorems.
* `CatalogSession`: `application/catalog_session.rs`, its `maintenance.rs`, and
  the scan registry as far as it protects the session, composed with the
  abstract maintainer. The four entry points share `Decide` and the validation
  flight; `Protect` and `EnterRecovery` are the checks under the lock. Sessions
  are compared by identity only, so a call records whether the session it holds
  is the slot's; `stale` says how the catalog has changed since its validation.
* `MCChangeQueue` and `MCRecoveryQueue`: instances, told as *stories*. A story
  fixes what the sources may report and how many rows, leases and generations a
  behaviour may use; it is chosen initially and never changes.

Definitions whose comment begins with "Variant:" are plausible mistakes used to
show that a property can fail. They are part of no specification.

## Runs

| Run | Expected | What it asks |
|---|---|---|
| `write_admission` | pass | Three writers and an epoch watcher: exclusion, exact token ownership, no lost wakeup, preemption is told, admission order; under fairness, blocked writers are admitted and watchers return. |
| `queue_coalescing` | pass | Three stories (a rename and changes of both its paths; a move into a reported album; more work than there is room for) in every order with leases, expiry, retries, deferrals and scans: every path named by an event stays named, live rows do not share a path, the table stays below its absolute bound. |
| `queue_leases` | pass | Rows leased up to three times while stale workers still answer, and scans in two generations: a lease that counts names the row's present work, capture stays below the watermark, only the current generation has work, resolved rows stay resolved. |
| `recovery` | pass | Four stories of lost watcher buffers and an album too large for its worker: evidence is kept, an authority is retired only when everything found was settled, an old generation's run never counts for the new one. |
| `recovery_resumed` | pass | An inventory continued under a later lease, after a deferral, a failed page, an expired lease or a crash, while the first worker may still answer; and an inventory in a full queue, with the limits of the default policy: evidence and retirement as above, the run can always be leased again through its own control, and candidates never push the queue above its absolute bound. |
| `catalog_reclamation` | pass | Two clients and a worker that is refused, interrupted, lost or hands over: one worker at a time, a snapshot that tells the truth, a waiting request waits behind an execution that the entry names, cancellations hit the right execution and stop it, and the attempts are what `CatalogUpkeep` promises, with its fairness. |
| `catalog_session` | pass | A scan beside another scan, a retained cancellation, an ordinary use or a recovery, with maintenance between all their steps and a replaced file: the scan keeps its session, recovery runs alone, no rewritten catalog is offered as validated, nobody waits for a thread that is gone. |
| `catalog_session_waits` | pass | A foreground scan's wait for maintenance or for another's validation ends, although an attempt nobody interrupts may run for ever. |
| `queue_wide` | violation | Finding 1. |
| `queue_dirty` | violation | Finding 2. |
| `recovery_owner` | violation | Finding 3. |
| `recovery_stranded` | violation | Finding 4. |

### Findings

Each is a disagreement between the code and the architecture records; the quotes
are in `PROJECT.json`.

1. A rename folded into a queued path row also supersedes a leased *subtree* it
   overlaps; the rest of the subtree is then named by no unresolved row
   (`coalescing.rs:203`, ADR 0018).
2. A rename that meets a leased subtree and a leased precise change takes over
   the subtree's intent and absorbs the precise change too (`coalescing.rs:309`,
   ADR 0024).
3. A recheck is enqueued without protecting leased controls, so it supersedes the
   leased control of an inventory that has begun. The run stays active, its owner
   is a superseded row, and no control of the root is leased again
   (`media_rechecks.rs:157`, ADR 0024). The other order is refused: a run is not
   begun under a control that has been superseded (`metadata_inventory.rs:2004`).
4. A candidate that coalesced with a live row stays owned by it when a rename
   absorbs that row; readiness waits for it for ever (`readiness.rs:447`,
   ADR 0024).

`PathEvidenceKept` is limited to places named by a path because of findings 1
and 2; `WideEvidenceKept` and `DirtyEvidenceKept` are the other two parts. Finding 1
also reaches a place named by a path once its rename has been folded into the row
of a subtree: TLC refutes `PathEvidenceKept` too, in nine states, in a story with
the album, a change of `a/q`, the rename of `a/p` to `a/q` and a second rename
`a/r` to `a/s`. The stories of the passing runs have no such second rename, and
`RecoveryEvidenceKept` is checked in stories without renames. `RunKeepsOwner`
passes in `recovery_resumed`, whose stories have no rechecks, and is refuted with
them (finding 3).

### Observations

These are behaviours the models show that no run is spent on.

* ADR 0019 says that every maintenance outcome invalidates the session. The code,
  and ADR 0005, keep it after page reclamation and after a refused attempt;
  `ReadySessionSurvivesUpkeep` is about the code.
* A reclamation worker that unwinds leaves its run token in the registry entry.
  Later requests for that catalog wait behind it until the program restarts
  (place `dead` in the model).
* A scan that is woken by a release may find the session reserved again, and so
  may one that has opened the catalog and not yet protected it. Each wait ends;
  that there are finitely many rests on the worker's growing delay between
  attempts (25 ms to 3.2 s), which is time and not modelled.

## Bounds

The number of rows ever inserted, leases per row and generations are bounded by
constants named as bounds; policy limits (`MaxUnresolved`, `MaxAttempts`, ...)
are the code's own, made small. Five paths suffice for the distinctions the code
draws: a subtree, paths inside and outside it, and both ends of a rename. Three
rows are what an absorbed row, the row that absorbs it and a bystander need;
`MaxUnresolved = 2` makes every capacity path happen. `recovery_resumed` sets
`AbsoluteUnresolved` to the same value, as the default policy does, and has the
four rows that a gap, its control, a second gap and a candidate need; two leases
per row are a worker and its successor. Time is left out: a
delayed row may be due, and a lease may have expired, at any moment, which
includes every behaviour real deadlines allow. `CHECK_DEADLOCK FALSE` is set
for the queues and for admission, because a bounded instance stops when its calls,
rows or generations are used up.

Reclamation needs two tokens (an execution and the one that succeeds it), two
operations and two clients, so that a preemption is in flight while a request is
spawned. The session has two callers, one of which scans while the other plays
every role; a third would only repeat a role, since the lock, the slot and the
flights tell callers apart by identity alone. The catalog file is replaced at
most once, and not at all in `catalog_session_waits`.

## Fairness

All fairness is weak. In `write_admission` a thread that is not blocked is
scheduled, a permit is dropped when its transaction ends and a reservation when
its owner is done; nothing is assumed about timeouts. Lower priorities may starve
under an endless stream of higher ones; the bound on calls excludes that, and the
property says so.

In `catalog_reclamation` and `catalog_session_waits` threads run, and an attempt
that has been interrupted ends: SQLite's progress handler and interrupt handle
see to that. An attempt nobody interrupts, and a scan, may run for ever. A
recovery, which holds the session lock, is assumed to end. `CatalogUpkeep`'s
fairness is assumed by the session and shown of reclamation by TLC.

## What is proved

`WriteAdmissionProofs` and `WriteAdmissionSafety` prove, for every set of threads
and every bound, the type invariant and the five safety properties of
`write_admission`. The only assumption is `AdmissionAssumption`. The
inductive invariant `AdmissionInv` adds four facts: which kind of call can be
at which place (`ModeFits`), that a writer about to run a callback holds the
active writer's (`CallingKnows`), that a reservation whose permit was just
dropped still keeps lower priorities out (`ReservationBlocks`), and that queues
are in registration order (`QueueIsFIFO`). Exclusion and token ownership are
inductive only together: a permit is given to the head of a queue, and the head
must be a token that somebody still owns.

`CatalogReclamationProofs` proves, for every set of tokens, operations and
clients, the type invariant, the five other safety invariants of
`catalog_reclamation` and its action property `TerminalSnapshotStays`. The only
assumption is `TokensAssumption`. The inductive invariant `Inv` adds three facts:
an owner named in the entry exists (`OwnerExists`), a request waits only behind
an owner (`PendingHasOwner`), and a client that is about to create a thread does
so for an execution that nobody else starts (`SpawnerOwns`). Without the last one
a failed spawn could retire an execution that is already running. Most worker
steps share one argument (`GoesOn`): the execution continues under the same
operation and nobody else's part changes.

`CatalogReclamationRefinement` proves from the same invariant that every step of
reclamation is a step of `CatalogUpkeep` or invisible to the session
(`MaintainsSafely`). Only `OneExecution` makes the mapping well-defined: the
session sees the attempt of the one execution the entry names.

Liveness, the fairness part of the refinement, and everything about the catalog
session, the change queue and the inventories, is model-checked only.

## Plan

1. Proofs about `ChangeQueue` (type correctness, generations, leases, capture)
   and about `CatalogSession` (the scan keeps its session, waiters have a waker).
2. `ScanLifecycle`: staging, pause and cancel, publication, the control byte of a
   running scan and the first-import lease, on top of `CatalogSession`.
3. `JournalContinuity`: cursor, admission of ranges, crash between them.
4. `ChangeObserver` and `SyncRuntime`; an abstract queue ("every reported place is
   eventually looked at again") that the queue refines.
5. `StorageRelocation`, `PreviewCache`, `ClassificationDispatch`, `Organization`.

## Not modelled

User interface, decoding, inference, SQL text, migrations, archives and generated
code; for the modelled parts: poisoned locks, several catalogs, page counts of the
reclamation policy, deadlines, paging and spools of inventories,
journal baselines and claims, legacy row compaction, and the catalog rows that a
delta rewrites.
