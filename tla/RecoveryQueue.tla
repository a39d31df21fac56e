---------------------------- MODULE RecoveryQueue ----------------------------
(***************************************************************************)
(* The change queue together with the metadata inventories that recover a  *)
(* root whose watcher lost events:                                         *)
(* rust/src/adapters/sqlite_catalog/metadata_inventory.rs and its modules, *)
(* change_queue/gap_promotion.rs and media_rechecks.rs, driven by          *)
(* rust/src/application/metadata_inventory.rs and                          *)
(* library_synchronization/production/recovery_lane.rs.                    *)
(*                                                                         *)
(* A live gap is promoted to a control row with a recovery authority.  The *)
(* worker that leases the control enumerates the root, enqueues a row for  *)
(* every difference it finds (a candidate, which the run owns) and retires *)
(* the authority when every candidate is resolved.                         *)
(*                                                                         *)
(* The root has no persistent journal (its journal state is live_only).    *)
(***************************************************************************)
EXTENDS ChangeQueue

CONSTANTS
    Found,       \* the candidates an inventory may find
    Rechecks     \* the audits of single files that the polling thread admits

ASSUME RecoveryAssumption ==
    /\ Found \subseteq {i \in Intents : i.scope = "path" /\ i.origin = "inventory"}
    /\ Rechecks \subseteq {i \in Intents : /\ i.scope = "path" /\ i.kind = "reconcile"
                                           /\ i.previous = NoPath /\ i.origin = "audit"}

VARIABLE runs   \* library_metadata_inventory_runs, by the id of their control

rvars == <<rows, last, root, scan, tickets, owed, runs>>

\* todo holds the differences that are staged and not yet enqueued, count is
\* candidate_count.  since and unseen are histories: what was reported after the
\* run began, and the places of its candidates that no worker has settled.
NoRun == [status |-> "none", todo |-> {}, count |-> 0, since |-> {}, unseen |-> {}]

Runs == [status : {"none", "running", "comparing", "completed", "superseded"},
         todo : SUBSET Found, count : Nat, since : SUBSET Reports, unseen : SUBSET Paths]

ActiveRun(id) == runs[id].status \in {"running", "comparing"}

(***************************************************************************)
(* Promotion of live gaps (gap_promotion.rs, gap_promotion/retained.rs)    *)
(***************************************************************************)
IsRootGap(r) == r.intent.kind = "unknown" /\ r.intent.scope = "root"

\* insert_persistent_journal_recovery_control counts the gap beside its
\* control, promote_scoped and candidate count the control in its place.
PromotionAllowed(gap) ==
    LET counted == ActiveIds(rows, root.generation)
                       \ (IF IsRootGap(rows[gap]) THEN {} ELSE {gap})
        counts  == [LaneCounts(rows, counted) EXCEPT !["Recovery"] = @ + 1]
    IN  lane_admission_allows(counts, "Recovery")

\* Variant: the control stands for every live row too.
PromotedOverRows(gap, failure) ==
    LET stored == [insert_change(rows, last + 1, [rows[gap].intent EXCEPT !.origin = "inventory"],
                                 0, root.generation)
                       EXCEPT ![last + 1].failure = failure, ![last + 1].authority = "active"]
    IN  /\ last < MaxRows
        /\ PromotionAllowed(gap)
        /\ rows' = mark_superseded(stored, ActiveIds(rows, root.generation), last + 1)
        /\ last' = last + 1
        /\ UNCHANGED <<root, scan, owed, runs>>

\* Variant: a gap joins the control of an earlier one.
PromotedOnce(gap, failure) ==
    LET controls == {id \in ActiveIds(rows, root.generation) : rows[id].authority = "active"}
    IN  IF controls = {} THEN PromotedOverRows(gap, failure)
        ELSE /\ rows' = mark_superseded(rows, {gap}, Least(controls))
             /\ UNCHANGED <<last, root, scan, owed, runs>>

Promoted(gap, failure) ==
    LET control == last + 1
        stored  == [insert_change(rows, control, [rows[gap].intent EXCEPT !.origin = "inventory"],
                                  0, root.generation)
                        EXCEPT ![control].failure = failure, ![control].authority = "active"]
    IN  /\ last < MaxRows
        /\ PromotionAllowed(gap)
        /\ rows' = mark_superseded(stored, {gap}, control)
        /\ last' = control
        /\ UNCHANGED <<root, scan, owed, runs>>

\* promote_live_watcher_gap_to_metadata_inventory
Promote(t) ==
    /\ t \in tickets /\ Applied(t)
    /\ rows[t.id].intent.origin = "live" /\ rows[t.id].intent.scope # "path"
    /\ Promoted(t.id, "inventory_required")
    /\ tickets' = tickets \ {t}

Retained(id) ==
    LET r == rows[id]
    IN  /\ r.status = "retry_wait" /\ r.gen = root.generation
        /\ r.attempts >= MaxAttempts /\ r.retry = "none"
        /\ r.failure \in {"inventory_required", "expired"}
        /\ r.intent.origin = "live" /\ r.intent.kind = "reconcile"
        /\ r.intent.scope = "subtree" /\ r.intent.previous = NoPath
        /\ r.bound = "no" /\ r.authority = "none" /\ r.owners = {}

\* transfer_one: a gap whose leases are exhausted
TransferRetained ==
    /\ root.active = "yes" /\ root.published = "yes"
    /\ \E id \in Ids : Retained(id)
    /\ LET gap == Least({id \in Ids : Retained(id)}) IN Promoted(gap, rows[gap].failure)
    /\ UNCHANGED tickets

(***************************************************************************)
(* Leasing a control (recovery_lane.rs, change_queue.rs)                   *)
(***************************************************************************)
\* has_unresolved_metadata_inventory_recovery_candidates
HasUnresolvedCandidates ==
    \E id \in Ids : \E o \in rows[id].owners :
        /\ rows[o[1]].authority = "active" /\ rows[o[1]].gen = root.generation
        /\ rows[id].status # "completed"

\* validate_metadata_inventory_recovery_affinity_owner
OwnsRun(id) == Unresolved(rows[id]) /\ rows[id].authority = "active" /\ RowLane(rows[id]) = "Recovery"

\* The runs of the current generation decide which control may be leased; the
\* pass fails where a run has lost its owner.
AffinityAllows(id) ==
    \A other \in Ids : ActiveRun(other) /\ rows[other].gen = root.generation =>
        OwnsRun(other) /\ id = other

LeaseControl(E, C) ==
    /\ ~HasUnresolvedCandidates
    /\ \A id \in C : AffinityAllows(id)
    /\ LeasePass("RecoveryAuthoritative", E, C)
    /\ UNCHANGED runs

(***************************************************************************)
(* An inventory run (metadata_inventory.rs).  Beginning and staging do not *)
(* look at the lease, and a run outlives the lease it was begun under.     *)
(***************************************************************************)
\* The root of generation g is active and published, and no scan of it is
\* running or paused.
validate_active_root(g) ==
    root_generation_is_current(g) /\ root.published = "yes" /\ scan.status = "none"

\* begin_next.  The control must still own its run; a run of an older
\* generation is superseded.
StartRun(t) ==
    /\ t \in tickets /\ OwnsRun(t.id)
    /\ validate_active_root(rows[t.id].gen)
    /\ runs[t.id].status = "none"
    /\ \A id \in Ids : ActiveRun(id) => rows[id].gen < root.generation
    /\ runs' = [id \in Ids |-> IF id = t.id THEN [NoRun EXCEPT !.status = "running"]
                               ELSE IF ActiveRun(id) THEN [runs[id] EXCEPT !.status = "superseded"]
                               ELSE runs[id]]
    /\ UNCHANGED vars

\* The last page is staged: S is what differs from the catalog.
Stage(t, S) ==
    /\ t \in tickets /\ runs[t.id].status = "running"
    /\ rows[t.id].authority = "active" /\ validate_active_root(rows[t.id].gen)
    /\ \A i \in S : i.path \in Footprint(t.intent)
    /\ runs' = [runs EXCEPT ![t.id].status = "comparing", ![t.id].todo = S]
    /\ UNCHANGED vars

\* require_recovery_candidate_publication
Publishable(t) ==
    /\ t \in tickets /\ runs[t.id].status = "comparing"
    /\ rows[t.id].authority = "active" /\ RowLane(rows[t.id]) = "Recovery"
    /\ validate_active_root(rows[t.id].gen)

\* Variant: only the quota is compared, which leaves the leased control out.
EnqueueWithinQuota(rs, control, i) ==
    LET g        == root.generation
        active   == ActiveIds(rs, g)
        counts   == [LaneCounts(rs, active \ {control}) EXCEPT !["Recovery"] = @ + 1]
        disjoint == \A id \in active \ {control} : ~affected_paths_overlap(rs[id].intent, i)
    IN  IF ~lane_admission_allows(counts, "Recovery") THEN Result("backpressure", rs, last, 0)
        ELSE IF ~disjoint THEN enqueue_one(rs, last, g, i, 0, {control}, FALSE)
        ELSE IF last = MaxRows THEN Result("full", rs, last, 0)
        ELSE Result("inserted", insert_change(rs, last + 1, i, 0, g), last + 1, last + 1)

\* enqueue_metadata_inventory_candidates_in_transaction, for a page of one
EnqueueCandidate(rs, control, i) ==
    LET g        == root.generation
        active   == ActiveIds(rs, g)
        counts   == [LaneCounts(rs, active \ {control}) EXCEPT !["Recovery"] = @ + 1]
        disjoint == \A id \in active \ {control} : ~affected_paths_overlap(rs[id].intent, i)
    IN  IF ~lane_admission_allows(counts, "Recovery")
              \/ Cardinality(active) + 1 > AbsoluteUnresolved
        THEN Result("backpressure", rs, last, 0)
        ELSE IF ~disjoint THEN enqueue_one(rs, last, g, i, 0, {control}, FALSE)
        ELSE IF last = MaxRows THEN Result("full", rs, last, 0)
        ELSE Result("inserted", insert_change(rs, last + 1, i, 0, g), last + 1, last + 1)

\* library_metadata_inventory_candidate_owner_insert_guard: only path work of
\* the candidate's own path and previous path can be its owner.
CanOwn(r, i) ==
    r.intent.scope = "path" /\ <<r.intent.path, r.intent.previous>> = <<i.path, i.previous>>

\* The candidate is enqueued, owned and counted in one transaction, which is
\* aborted where the row that took the candidate cannot own it.
Publish(t, i, D) ==
    LET r == EnqueueCandidate(Remove(rows, D), t.id, i)
    IN  /\ Publishable(t) /\ Applied(t) /\ i \in runs[t.id].todo
        /\ D \subseteq Removable(rows)
        /\ Accepted(i, r) /\ CanOwn(r.rows[r.id], i)
        /\ rows' = [r.rows EXCEPT ![r.id].owners = @ \cup {<<t.id, i.path, i.previous>>}]
        /\ last' = r.last
        /\ runs' = [runs EXCEPT ![t.id].todo = @ \ {i}, ![t.id].count = @ + 1,
                                ![t.id].unseen = @ \cup affected_paths(i)]
        /\ UNCHANGED <<root, scan, tickets, owed>>

\* A worker that has lost its lease ends its run.
PublishLost(t) ==
    /\ Publishable(t) /\ ~Applied(t) /\ runs[t.id].todo # {}
    /\ runs' = [runs EXCEPT ![t.id].status = "superseded"]
    /\ tickets' = tickets \ {t}
    /\ UNCHANGED <<rows, last, root, scan, owed>>

\* The row reached from id by following superseded_by_change_id n times
Successor(id, n) ==
    LET walk[k \in 0..n] ==
            IF k = 0 THEN id
            ELSE IF rows[walk[k - 1]].status = "superseded" /\ rows[walk[k - 1]].by # 0
            THEN rows[walk[k - 1]].by ELSE walk[k - 1]
    IN  walk[n]

\* The completed row r stands for the candidate o.
Resolves(o, r) ==
    /\ r.status = "completed" /\ r.gen = rows[o[1]].gen
    /\ \/ r.intent.scope = "root"
       \/ r.intent.scope = "subtree" /\ is_within_subtree(o[2], r.intent.path)
       \/ r.intent.scope = "path" /\ o[2] = r.intent.path /\ o[3] = r.intent.previous

\* Variant: a candidate in the hands of a worker is taken for resolved.
CandidatesTaken(control) ==
    \A id \in Ids : \A o \in rows[id].owners : o[1] = control => rows[id].status # "pending"

\* Variant: the candidates are counted, but not followed to their completion.
CandidatesCounted(control) ==
    Cardinality({id \in Ids : \E o \in rows[id].owners : o[1] = control}) = runs[control].count

\* metadata_inventory_has_unresolved_candidates answers no
CandidatesResolved(control) ==
    LET owned == {<<id, o>> \in UNION {{id} \X rows[id].owners : id \in Ids} : o[1] = control}
    IN  /\ Cardinality(owned) = runs[control].count
        /\ \A <<id, o>> \in owned :
              \E n \in 0..MaxRows : Resolves(o, rows[Successor(id, n)])

\* Variant: the authority is retired, and its run left for a later pass.
FinishLeavesRun(t) ==
    /\ t \in tickets /\ Applied(t)
    /\ runs[t.id].status = "comparing" /\ runs[t.id].todo = {}
    /\ rows[t.id].authority = "active"
    /\ CandidatesResolved(t.id)
    /\ rows' = wake([rows EXCEPT ![t.id] =
                        [Close(@, "completed", 0) EXCEPT !.authority = "retired"]])
    /\ owed' = {o \in owed : o \in runs[t.id].since \/ ~Settles(t.intent, o)}
    /\ tickets' = tickets \ {t}
    /\ UNCHANGED <<last, root, scan, runs>>

\* recovery_completion::finish, where it applies
Finish(t) ==
    /\ t \in tickets /\ Applied(t)
    /\ runs[t.id].status = "comparing" /\ runs[t.id].todo = {}
    /\ rows[t.id].authority = "active"
    /\ CandidatesResolved(t.id)
    /\ rows' = wake([rows EXCEPT ![t.id] =
                        [Close(@, "completed", 0) EXCEPT !.authority = "retired"]])
    /\ runs' = [runs EXCEPT ![t.id].status = "completed"]
    /\ owed' = {o \in owed : o \in runs[t.id].since \/ ~Settles(t.intent, o)}
    /\ tickets' = tickets \ {t}
    /\ UNCHANGED <<last, root, scan>>

(***************************************************************************)
(* The actions of the queue beside the runs                                *)
(***************************************************************************)
\* admit_media_rechecks and the rechecks of metadata, on the polling thread
Recheck(i) ==
    LET r == enqueue_one(rows, last, root.generation, i, 0, {}, FALSE)
    IN  /\ root.active = "yes" /\ root.published = "yes" /\ scan.status = "none"
        /\ Accepted(i, r)
        /\ rows' = r.rows /\ last' = r.last
        /\ UNCHANGED <<root, scan, tickets, owed, runs>>

RunsReported(new) ==
    runs' = [id \in Ids |-> IF ActiveRun(id) THEN [runs[id] EXCEPT !.since = @ \cup new]
                            ELSE runs[id]]

EnqueueReported(i) == Enqueue(i) /\ RunsReported(Observed(i))

EnqueueNewerReported(i) == EnqueueNewer(i) /\ RunsReported(Observed(i))

CompleteSeen(t) ==
    /\ Complete(t)
    /\ runs' = [id \in Ids |-> [runs[id] EXCEPT !.unseen = @ \ Footprint(t.intent)]]

\* The runs of a removed root go with it, and so do their candidates.
UnregisterWithRuns ==
    /\ root.active = "yes"
    /\ rows' = [id \in Ids |->
                  LET r == RetireRows(rows, root.generation)[id]
                  IN  [r EXCEPT !.owners = {},
                                !.authority = IF @ = "active" /\ r.gen = root.generation /\ r.by = 0
                                              THEN "retired" ELSE @]]
    /\ root' = [root EXCEPT !.active = "no", !.published = "no"]
    /\ scan' = NoScan
    /\ owed' = {}
    /\ runs' = [id \in Ids |-> NoRun]
    /\ UNCHANGED <<last, tickets>>

\* What the worker of a lease that is not a run does.  A live gap that needs an
\* inventory is promoted, and where there is no room it waits.
GiveBackLease(t) ==
    /\ \/ LoseLease(t)
       \/ Retry(t, "other")
       \/ Defer(t)
       \/ DeferForCapacity(t)
    /\ UNCHANGED runs

(***************************************************************************)
(* The specification.  The root starts published and without work.         *)
(***************************************************************************)
RecoveryInit ==
    /\ rows = [id \in Ids |-> NoRow]
    /\ last = 0
    /\ root = [generation |-> 1, active |-> "yes", published |-> "yes"]
    /\ scan = NoScan
    /\ tickets = {}
    /\ owed = {}
    /\ runs = [id \in Ids |-> NoRun]

Inventory ==
    \E t \in tickets :
        \/ StartRun(t)
        \/ \E S \in SUBSET Found : Stage(t, S)
        \/ \E i \in runs[t.id].todo : \E D \in SUBSET Removable(rows) : Publish(t, i, D)
        \/ PublishLost(t)
        \/ Finish(t)

QueueWorker ==
    \/ \E sel \in Selections \ {"RecoveryAuthoritative"} :
          \E E, C \in SUBSET Matching(sel) : LeasePass(sel, E, C) /\ UNCHANGED runs
    \/ \E E, C \in SUBSET Matching("RecoveryAuthoritative") : LeaseControl(E, C)
    \/ \E t \in tickets : CompleteSeen(t) \/ GiveBackLease(t) \/ Promote(t)
    \/ TransferRetained
    \/ Crash /\ UNCHANGED runs

QueueSource(offers, audits) ==
    \/ \E i \in offers : EnqueueReported(i) \/ EnqueueNewerReported(i)
    \/ \E i \in audits : Recheck(i)

RecoveryNext ==
    \/ QueueSource(Offers, Rechecks) \/ QueueWorker \/ Inventory
    \/ Scanner /\ UNCHANGED runs
    \/ UnregisterWithRuns

RecoverySpec == RecoveryInit /\ [][RecoveryNext]_rvars

(***************************************************************************)
(* Properties                                                              *)
(***************************************************************************)
\* The queue and its inventory runs are well formed.
RecoveryTypeOK == TypeOK /\ runs \in [Ids -> Runs]

\* Promotion to a control, the run's own look at the root and its candidates
\* never lose a place that an event named: an unresolved row whose worker looks
\* again later, or an unretired recovery authority whose inventory did not begin
\* before the event, still names it.
RecoveryEvidenceKept ==
    \A o \in owed : \E id \in Ids :
        /\ rows[id].gen = root.generation
        /\ Unresolved(rows[id]) \/ rows[id].authority = "active"
        /\ o \notin rows[id].since /\ o \notin runs[id].since
        /\ Settles(rows[id].intent, o)

\* finish retires an authority only when a worker has settled every place that
\* its inventory found different, through leases, coalescing with live rows
\* and cleanup of the rows in between.
RecoveryProved == \A id \in Ids : runs[id].status = "completed" => runs[id].unseen = {}

\* finish does not look at the root's generation itself: retiring the rows of
\* an older generation is what keeps its recovery from being taken for one of
\* the current generation.
RecoveryRetiresCurrent ==
    [][\A id \in Ids : runs'[id].status = "completed" =>
          runs[id].status = "completed" \/ root_generation_is_current(rows[id].gen)]_rvars

\* metadata_inventory_recovery_affinity_change_id: an active run of the current
\* generation can be leased through its own unretired authority, so that a run
\* that outlives its lease, a crash or a failed page can be continued.
RunKeepsOwner ==
    \A id \in Ids : ActiveRun(id) /\ rows[id].gen = root.generation => OwnsRun(id)

\* has_unresolved_metadata_inventory_recovery_candidates: the rows that an
\* unfinished recovery waits for can still be completed.
NoStrandedCandidate ==
    \A id \in Ids : \A o \in rows[id].owners :
        rows[o[1]].authority = "active" /\ rows[o[1]].gen = root.generation
            => Unresolved(rows[id]) \/ rows[id].status = "completed"
=============================================================================
