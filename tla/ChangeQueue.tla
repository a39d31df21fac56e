----------------------------- MODULE ChangeQueue -----------------------------
(***************************************************************************)
(* The durable library change queue of one library root:                   *)
(* rust/src/adapters/sqlite_catalog/change_queue/ and the scan capture of  *)
(* rust/src/adapters/sqlite_catalog/scan_change_capture.rs.                *)
(*                                                                         *)
(* Every action is one SQLite transaction.  Sources enqueue intents, which *)
(* are coalesced with the unresolved rows; workers lease rows, look at the *)
(* places a row names and complete, retry or defer it; a foreground scan   *)
(* captures the rows it covers and settles them when it publishes.  A row  *)
(* survives a crash of the process, the tickets of its workers do not.     *)
(*                                                                         *)
(* Time is left out: a stabilised or retry-delayed row may be ready, and a *)
(* lease may have expired, at any moment.                                  *)
(***************************************************************************)
EXTENDS ChangeIntents

CONSTANTS
    Offers,              \* the intents that sources enqueue
    MaxUnresolved,       \* policy.max_unresolved_changes
    AbsoluteUnresolved,  \* LibraryChangeQueuePolicy::MAX_UNRESOLVED_CHANGES
    LeaseBatch,          \* policy.max_lease_batch
    MaxAttempts,         \* policy.max_attempts
    MaxRows,             \* bound: the rows ever inserted
    MaxLease,            \* bound: the leases of one row
    MaxGeneration        \* bound: the generations of the root

ASSUME ConstantsAssumption ==
    /\ Offers \subseteq Intents
    /\ MaxUnresolved \in Nat \ {0} /\ AbsoluteUnresolved \in Nat \ {0}
    /\ MaxUnresolved <= AbsoluteUnresolved
    /\ LeaseBatch \in 1..MaxUnresolved /\ MaxAttempts \in Nat \ {0}
    /\ MaxRows \in Nat \ {0} /\ MaxLease \in Nat /\ MaxGeneration \in Nat \ {0}

VARIABLES
    rows,       \* library_change_queue, by id; ids are never reused
    last,       \* the highest id given so far
    root,       \* library_change_root_state and whether a scan was published
    scan,       \* the running foreground scan of the root
    tickets,    \* the leases that live workers hold (LeasedLibraryChange)
    owed        \* history: what sources reported and no later look has settled

vars == <<rows, last, root, scan, tickets, owed>>

Ids      == 1..MaxRows
Statuses == {"absent", "pending", "leased", "retry_wait", "completed", "superseded"}
Failures == {"none", "capacity", "inventory_required", "expired", "other"}
Classes  == {"path", "dirty", "wide"}
Reports  == Paths \X Classes

NoIntent == [kind |-> "unknown", scope |-> "root", path |-> NoPath,
             previous |-> NoPath, origin |-> "live"]

\* by is superseded_by_change_id, bound whether authoritative_scan_id is set,
\* retry whether next_retry_unix_ms is set, authority the recovery authority
\* that belongs to the row, owners the inventory candidates bound to it (the
\* control of their inventory, path, previous), and since a history: what was
\* reported after the row was leased.
NoRow == [intent |-> NoIntent, status |-> "absent", attempts |-> 0, retry |-> "none",
          lease |-> 0, failure |-> "none", by |-> 0, mark |-> 0, gen |-> 0,
          bound |-> "no", authority |-> "none", owners |-> {}, since |-> {}]

Rows == [intent : Intents, status : Statuses, attempts : Nat, retry : {"none", "set"},
         lease : Nat, failure : Failures, by : Nat, mark : Nat, gen : Nat,
         bound : {"no", "yes"}, authority : {"none", "active", "retired"},
         owners : SUBSET (Ids \X Paths \X (Paths \cup {NoPath})),
         since : SUBSET Reports]

is_unleased(r) == r.status \in {"pending", "retry_wait"}
Unresolved(r)  == r.status \in {"pending", "leased", "retry_wait"}
RowLane(r)     == lane(r.intent.origin)
IsPathWork(r)  == r.intent.scope = "path" /\ r.intent.kind # "unknown"

\* load_active_changes
ActiveIds(rs, g) == {id \in Ids : Unresolved(rs[id]) /\ rs[id].gen = g}

Least(S) == CHOOSE x \in S : \A y \in S : x <= y
Most(S)  == CHOOSE x \in S : \A y \in S : y <= x

(***************************************************************************)
(* Writing rows (persistence.rs)                                           *)
(***************************************************************************)
\* stabilization deadlines are left out
insert_change(rs, id, intent, mark, g) ==
    [rs EXCEPT ![id] = [NoRow EXCEPT !.intent = intent, !.status = "pending",
                                     !.mark = mark, !.gen = g]]

\* The lease generation, the failure and the scan binding are left alone.
update_change(rs, id, intent, mark) ==
    [rs EXCEPT ![id] = [@ EXCEPT !.intent = intent, !.status = "pending", !.attempts = 0,
                                 !.retry = "none", !.by = 0,
                                 !.mark = IF mark = 0 THEN @ ELSE mark]]

\* A resolved row: of its columns only its places, its generation, its
\* successor, its recovery authority and its candidates are ever read again.
Close(r, status, target) ==
    [NoRow EXCEPT !.intent = r.intent, !.gen = r.gen, !.status = status, !.by = target,
                  !.authority = r.authority, !.owners = r.owners]

\* With transfer_catch_up_lineage: a superseded row gives its watermark up,
\* and an inventory candidate it owns follows its own path to the target.
mark_superseded(rs, S, target) ==
    LET gone  == {id \in S \ {target} : Unresolved(rs[id])}
        moved == {o \in UNION {rs[id].owners : id \in gone} :
                     /\ rs[target].intent.scope = "path"
                     /\ <<o[2], o[3]>> = <<rs[target].intent.path, rs[target].intent.previous>>}
    IN  [id \in Ids |->
            IF id \in gone
            THEN [Close(rs[id], "superseded", target) EXCEPT !.owners = @ \ moved]
            ELSE IF id = target THEN [rs[id] EXCEPT !.owners = @ \cup moved]
            ELSE rs[id]]

(***************************************************************************)
(* Capacity (library_change_queue.rs, coalescing.rs)                       *)
(***************************************************************************)
Reserve == IF MaxUnresolved \div 8 = 0 THEN 1 ELSE MaxUnresolved \div 8

lane_capacity(l) ==
    LET journal  == IF MaxUnresolved > Reserve THEN MaxUnresolved - Reserve ELSE 0
        withheld == IF journal <= 1 THEN 0
                    ELSE IF Reserve < journal - 1 THEN Reserve ELSE journal - 1
    IN  CASE l = "Live"    -> MaxUnresolved
          [] l = "Journal" -> journal
          [] OTHER         -> journal - withheld

LaneCounts(rs, S) == [l \in Lanes |-> Cardinality({id \in S : RowLane(rs[id]) = l})]

\* ActiveLaneCounts::replacing, with the saturating subtraction of the code
Replacing(counts, l, absorbed) ==
    [counts EXCEPT ![l] = (IF @ > absorbed THEN @ - absorbed ELSE 0) + 1]

lane_admission_allows(counts, l) ==
    LET lower == counts["Journal"] + counts["Recovery"]
    IN  /\ counts["Live"] + lower <= MaxUnresolved
        /\ l # "Live" => lower <= lane_capacity("Journal")
        /\ l = "Recovery" => counts["Recovery"] <= lane_capacity("Recovery")

(***************************************************************************)
(* Coalescing (coalescing.rs).  The operators take the rows rs, the        *)
(* highest id n and the generation g, and return what the enqueue makes of *)
(* them; "full" is the bound MaxRows, not an outcome of the code.          *)
(***************************************************************************)
Result(out, rs, n, id) == [out |-> out, rows |-> rs, last |-> n, id |-> id]

\* A live gap that waits for room in the recovery lane (capacity.rs)
IsLiveGapShape(r) ==
    /\ r.intent.origin = "live" /\ r.intent.previous = NoPath
    /\ \/ r.intent.kind = "unknown" /\ r.intent.scope = "root"
       \/ r.intent.kind = "reconcile" /\ r.intent.scope = "subtree"

is_typed_capacity_deferred_live_gap(r) ==
    r.status \in {"leased", "retry_wait"} /\ r.failure = "capacity" /\ IsLiveGapShape(r)

capacity_deferred_gap_preserves_precise_work(r, incoming) ==
    /\ is_typed_capacity_deferred_live_gap(r)
    /\ incoming.origin = "live" /\ incoming.scope = "path" /\ incoming.kind # "unknown"

\* load_leased_inventory_control_ids
ProtectedIds(rs, g) ==
    {id \in ActiveIds(rs, g) :
        /\ rs[id].status = "leased" /\ rs[id].bound = "no"
        /\ \/ rs[id].intent.kind = "unknown"
           \/ rs[id].intent.origin \in {"catch_up", "audit"}
           \/ rs[id].failure = "inventory_required"}

SameLane(rs, g, incoming, mark) ==
    {id \in ActiveIds(rs, g) :
        RowLane(rs[id]) = lane(incoming.origin) /\ rs[id].mark = mark}

Candidates(rs, g, incoming, mark, protected) ==
    SameLane(rs, g, incoming, mark)
        \ (IF preserves_inventory_control(incoming) THEN protected ELSE {})

has_conflicting_rename(rs, S, incoming) ==
    /\ rename_lineage_previous_path(incoming) # NoPath
    /\ \E id \in S : /\ rename_lineage_previous_path(rs[id].intent) # NoPath
                     /\ ~same_work_key(rs[id].intent, incoming)
                     /\ affected_paths_overlap(rs[id].intent, incoming)

\* Variant: leased work is not compared.
NoLeasedOverlap(rs, S, incoming) == FALSE

has_ambiguous_leased_overlap(rs, S, incoming) ==
    \E id \in S : /\ rs[id].status = "leased"
                  /\ ~capacity_deferred_gap_preserves_precise_work(rs[id], incoming)
                  /\ affected_paths_overlap(rs[id].intent, incoming)
                  /\ ~intent_covers(rs[id].intent, incoming)
                  /\ ~intent_covers(incoming, rs[id].intent)

\* merge_older_evidence for each row of S in id order: the first row that
\* changes the target fixes its rename, and no later row changes it again.
MergeOlder(rs, target, S) ==
    LET telling == {id \in S : merge_dirty_rename_semantics(target, rs[id].intent) # target}
    IN  IF telling = {} THEN target
        ELSE merge_dirty_rename_semantics(target, rs[Least(telling)].intent)

\* Variant: the gap is added beside the rows it stands for.
DegradeBesideRows(rs, n, g, S, incoming, mark) ==
    IF n = MaxRows THEN Result("full", rs, n, 0)
    ELSE Result("degraded", insert_change(rs, n + 1, RootGap(incoming), mark, g), n + 1, n + 1)

degrade_to_root(rs, n, g, S, incoming, mark) ==
    LET gaps   == {id \in S : is_unleased(rs[id]) /\ rs[id].intent.scope = "root"
                              /\ rs[id].intent.kind = "unknown"}
        target == IF gaps = {} THEN n + 1 ELSE Least(gaps)
        stored == IF gaps = {} THEN insert_change(rs, target, RootGap(incoming), mark, g)
                  ELSE update_change(rs, target, RootGap(incoming), mark)
    IN  IF target > MaxRows THEN Result("full", rs, n, 0)
        ELSE Result("degraded", mark_superseded(stored, S, target),
                    IF gaps = {} THEN target ELSE n, target)

supersede_recovery_candidates_covered_by_higher_lane(rs, g, incoming, target) ==
    IF lane(incoming.origin) = "Recovery" \/ rs[target].intent.scope # "path" THEN rs
    ELSE mark_superseded(rs, {id \in ActiveIds(rs, g) :
                                 /\ RowLane(rs[id]) = "Recovery"
                                 /\ exact_path_work_identity(rs[id].intent, rs[target].intent)},
                         target)

\* The end of enqueue_one: fold into an unleased row that covers the incoming
\* intent, or insert a row in the place of those that it makes stale.
Coalesce(rs, n, g, S, incoming, mark, protected, allow) ==
    LET Kept(id)  == capacity_deferred_gap_preserves_precise_work(rs[id], incoming)
        covering  == {id \in S : /\ is_unleased(rs[id]) /\ ~Kept(id)
                                 /\ intent_covers(rs[id].intent, incoming)}
        Stale(id) == rs[id].status = "leased" /\ stale_overlap(rs[id].intent, incoming)
        Settle(stored, absorbed, target) ==
            supersede_recovery_candidates_covered_by_higher_lane(
                mark_superseded(stored, absorbed, target), g, incoming, target)
    IN  IF covering # {}
        THEN LET target   == Least(covering)
                 newer    == merge_newer_evidence(rs[target].intent, incoming)
                 merged   == IF incoming.kind = "unknown"
                             THEN [newer EXCEPT !.kind = "unknown"] ELSE newer
                 absorbed == {id \in S \ {target} :
                                /\ ~Kept(id)
                                /\ \/ is_unleased(rs[id]) /\ intent_covers(merged, rs[id].intent)
                                   \/ Stale(id)}
                 stored   == update_change(rs, target, MergeOlder(rs, merged, absorbed), mark)
             IN  Result("coalesced", Settle(stored, absorbed, target), n, target)
        ELSE LET absorbed == {id \in S : /\ ~Kept(id)
                                         /\ intent_covers(incoming, rs[id].intent) \/ Stale(id)}
                 active   == ActiveIds(rs, g)
                 l        == lane(incoming.origin)
                 quota    == {id \in active : RowLane(rs[id]) # l \/ id \notin protected}
                 gaps     == {id \in active \ protected :
                                is_typed_capacity_deferred_live_gap(rs[id])}
                 admitted == /\ lane_admission_allows(
                                    Replacing(LaneCounts(rs, quota), l, Cardinality(absorbed)), l)
                             /\ Cardinality(active \ absorbed) + 1 <= AbsoluteUnresolved
                 stronger == {id \in absorbed : intent_covers(rs[id].intent, incoming)}
                 first    == Most({id \in stronger : \A other \in stronger :
                                     intent_strength(rs[other].intent)
                                        <= intent_strength(rs[id].intent)})
                 merged   == IF stronger = {} THEN MergeOlder(rs, incoming, absorbed)
                             ELSE MergeOlder(rs, merge_newer_evidence(rs[first].intent, incoming),
                                             absorbed \ {first})
             IN  IF ~admitted
                 THEN IF active \ S # {} \/ gaps # {} \/ ~allow
                      THEN Result("backpressure", rs, n, 0)
                      ELSE [degrade_to_root(rs, n, g, S, incoming, mark) EXCEPT
                               !.out = IF @ = "full" THEN @ ELSE "capacity_degraded"]
                 ELSE IF n = MaxRows THEN Result("full", rs, n, 0)
                 ELSE Result("inserted",
                             Settle(insert_change(rs, n + 1, merged, mark, g), absorbed, n + 1),
                             n + 1, n + 1)

\* A precise change is enqueued again beside the root gap its overlap opened.
enqueue_one(rs, n, g, incoming, mark, protected, allow) ==
    LET l      == lane(incoming.origin)
        higher == {id \in ActiveIds(rs, g) :
                      /\ RowLane(rs[id]) # "Recovery"
                      /\ exact_path_work_identity(rs[id].intent, incoming)}
        live   == {id \in higher : RowLane(rs[id]) = "Live"}
        same   == SameLane(rs, g, incoming, mark)
        active == Candidates(rs, g, incoming, mark, protected)
        gap    == degrade_to_root(rs, n, g, same, incoming, mark)
    IN  IF l # "Live" /\ lane_capacity(l) = 0 THEN Result("backpressure", rs, n, 0)
        ELSE IF l = "Recovery" /\ higher # {}
        THEN Result("coalesced", rs, n, Least(IF live # {} THEN live ELSE higher))
        ELSE IF has_conflicting_rename(rs, active, incoming)
        THEN IF allow THEN gap ELSE Result("backpressure", rs, n, 0)
        ELSE IF ~has_ambiguous_leased_overlap(rs, active, incoming)
        THEN Coalesce(rs, n, g, active, incoming, mark, protected, allow)
        ELSE IF ~allow THEN Result("backpressure", rs, n, 0)
        ELSE IF gap.out = "full" \/ ~is_precise_dirty_reconcile(incoming) THEN gap
        ELSE Coalesce(gap.rows, gap.last, g, Candidates(gap.rows, g, incoming, mark, protected),
                      incoming, mark, protected, allow)

(***************************************************************************)
(* What a source reported, and what settles it (history only).  A report   *)
(* names a place and how it was reported: by a path intent, as a precise   *)
(* change, or inside a wider scope.                                        *)
(***************************************************************************)
Observed(i) ==
    IF i.origin \notin {"live", "catch_up"} THEN {}
    ELSE {<<p, IF i.scope = "path" THEN "path" ELSE "wide">> : p \in Footprint(i)}
            \cup (IF is_precise_dirty_reconcile(i) THEN {<<i.path, "dirty">>} ELSE {})

\* A precise change needs a worker that reads that file again; a root gap
\* hands the whole root to an inventory.
Settles(i, report) ==
    IF report[2] = "dirty"
    THEN i.kind = "unknown" \/ (i.kind = "reconcile" /\ i.scope = "path" /\ i.path = report[1])
    ELSE report[1] \in Footprint(i)

\* A leased row's worker may have looked before the new report was made.
Report(rs, new) ==
    [id \in Ids |-> IF rs[id].status = "leased" THEN [rs[id] EXCEPT !.since = @ \cup new]
                    ELSE rs[id]]

(***************************************************************************)
(* The root's generation (persistence.rs, root_retirement.rs)              *)
(***************************************************************************)
\* Variant: rows in the hands of a worker are left to it.
RetireUnleasedRows(rs, g) ==
    [id \in Ids |-> IF is_unleased(rs[id]) /\ rs[id].gen = g
                    THEN Close(rs[id], "superseded", 0) ELSE rs[id]]

\* Every unresolved row of generation g is superseded without a successor.
RetireRows(rs, g) ==
    [id \in Ids |-> IF Unresolved(rs[id]) /\ rs[id].gen = g
                    THEN Close(rs[id], "superseded", 0) ELSE rs[id]]

root_generation_is_current(g) == root.active = "yes" /\ root.generation = g

\* cleanup_terminal_records.  The journal ranges and frozen scan evidence that
\* also keep a terminal row are outside this module.
Removable(rs) ==
    {id \in Ids : /\ rs[id].status \in {"completed", "superseded"}
                  /\ rs[id].owners = {} /\ rs[id].authority # "active"
                  /\ rs[id].by = 0 \/ ~Unresolved(rs[rs[id].by])}

Remove(rs, D) == [id \in Ids |-> IF id \in D THEN NoRow ELSE rs[id]]

(***************************************************************************)
(* Enqueueing (change_queue.rs: enqueue_intents).  A batch is a sequence   *)
(* of single enqueues in one transaction.  A journal range has a watermark *)
(* of its own, and its transaction fails rather than degrade for capacity. *)
(***************************************************************************)
MarkOf(i) == IF i.origin = "catch_up" THEN last + 1 ELSE 0

Accepted(i, r) ==
    r.out \in {"coalesced", "inserted", "degraded"}
                \cup (IF i.origin = "catch_up" THEN {} ELSE {"capacity_degraded"})

\* The cleanup of resolved rows that comes first is applied last: the enqueue
\* neither reads nor writes them.
Enqueue(i) ==
    LET r == enqueue_one(rows, last, root.generation, i, MarkOf(i),
                         ProtectedIds(rows, root.generation), TRUE)
    IN  /\ root.active = "yes"
        /\ Accepted(i, r)
        /\ \E D \in SUBSET Removable(rows) : rows' = Report(Remove(r.rows, D), Observed(i))
        /\ last' = r.last
        /\ owed' = owed \cup Observed(i)
        /\ scan' = [scan EXCEPT !.since = IF scan.status = "running" THEN @ \cup Observed(i) ELSE @]
        /\ UNCHANGED <<root, tickets>>

\* establish_root_generation for a newer generation: the old one is retired
\* and the intent is the first of the new one.
EnqueueNewer(i) ==
    LET g == root.generation + 1
        r == enqueue_one(RetireRows(rows, root.generation), last, g, i, MarkOf(i), {}, TRUE)
    IN  /\ root.active = "yes" /\ g <= MaxGeneration
        /\ Accepted(i, r)
        /\ rows' = r.rows
        /\ last' = r.last
        /\ root' = [root EXCEPT !.generation = g]
        /\ owed' = Observed(i)
        /\ scan' = [scan EXCEPT !.since = IF scan.status = "running" THEN @ \cup Observed(i) ELSE @]
        /\ UNCHANGED tickets

(***************************************************************************)
(* Leasing (lease_matching.rs)                                             *)
(***************************************************************************)
\* The selections that the synchronization runtime uses
Selections == {"PathLive", "PathJournal", "UnownedRecovery", "RecoveryCandidates",
               "LiveAuthoritative", "JournalAuthoritative", "RecoveryAuthoritative"}

Selects(sel, r) ==
    CASE sel = "PathLive"        -> IsPathWork(r) /\ RowLane(r) = "Live"
      [] sel = "PathJournal"     -> IsPathWork(r) /\ RowLane(r) = "Journal"
      [] sel = "UnownedRecovery" -> /\ IsPathWork(r) /\ RowLane(r) = "Recovery"
                                    /\ r.owners = {} /\ r.authority # "active"
      [] sel = "RecoveryCandidates" ->
            /\ IsPathWork(r) /\ RowLane(r) = "Recovery"
            /\ \E o \in r.owners : rows[o[1]].authority = "active"
      [] sel = "LiveAuthoritative" -> ~IsPathWork(r) /\ RowLane(r) = "Live"
      [] sel = "JournalAuthoritative" -> r.intent.scope # "path" /\ RowLane(r) = "Journal"
      [] sel = "RecoveryAuthoritative" ->
            ~IsPathWork(r) /\ RowLane(r) = "Recovery" /\ r.authority = "active"

Batch(sel) == IF sel \in {"PathLive", "PathJournal", "UnownedRecovery", "RecoveryCandidates"}
              THEN LeaseBatch ELSE 1

\* recover_expired_leases
Expired(r) ==
    LET spent == [r EXCEPT !.status = "retry_wait", !.since = {}]
    IN  IF is_typed_capacity_deferred_live_gap(r)
        THEN [spent EXCEPT !.attempts = IF @ > 0 THEN @ - 1 ELSE 0, !.retry = "set"]
        ELSE [spent EXCEPT !.retry = IF r.attempts >= MaxAttempts THEN "none" ELSE "set",
                           !.failure = "expired"]

\* enforce_retry_attempt_limit
Exhausted(r) ==
    IF r.status = "retry_wait" /\ r.attempts >= MaxAttempts
          /\ ~is_typed_capacity_deferred_live_gap(r)
    THEN [r EXCEPT !.retry = "none"] ELSE r

\* Variant: a lease has no number of its own.
LeasedAgain(r) ==
    [r EXCEPT !.status = "leased", !.attempts = @ + 1, !.retry = "none",
              !.lease = 1, !.since = {}]

Leased(r) ==
    [r EXCEPT !.status = "leased", !.attempts = @ + 1, !.retry = "none",
              !.lease = @ + 1, !.since = {}]

Ready(r) == /\ r.attempts < MaxAttempts
            /\ r.status = "pending" \/ (r.status = "retry_wait" /\ r.retry = "set")

\* The gate of the pass is read before its transaction, so a scan may begin in
\* between; the leases that scan then holds have not yet expired.
PassAdmitted(sel, E) ==
    CASE sel \in {"JournalAuthoritative", "RecoveryAuthoritative"} -> TRUE
      [] sel \in {"PathLive", "LiveAuthoritative"} -> root.published = "yes"
      [] OTHER -> root.published = "yes" /\ (scan.status = "running" => E = {})

Matching(sel) == {id \in ActiveIds(rows, root.generation) : Selects(sel, rows[id])}

\* A pass over the matching rows, with the leases E found expired and the ready
\* rows C leased.  One that changes nothing is a stuttering step.
LeasePass(sel, E, C) ==
    LET swept   == [id \in Ids |->
                      IF id \in E THEN Exhausted(Expired(rows[id]))
                      ELSE IF Unresolved(rows[id]) /\ rows[id].gen = root.generation
                      THEN Exhausted(rows[id])
                      ELSE rows[id]]
    IN  /\ root.active = "yes"
        /\ PassAdmitted(sel, E)
        /\ \A id \in E : rows[id].status = "leased"
        /\ \A id \in C : id \notin E /\ Ready(swept[id]) /\ rows[id].lease < MaxLease
        /\ Cardinality(C) <= Batch(sel)
        /\ E \cup C # {} \/ swept # rows
        /\ rows' = [id \in Ids |-> IF id \in C THEN Leased(swept[id]) ELSE swept[id]]
        /\ tickets' = tickets \cup
                           {[id |-> id, lease |-> rows'[id].lease, intent |-> rows[id].intent] :
                               id \in C}
        /\ UNCHANGED <<last, root, scan, owed>>

(***************************************************************************)
(* What a worker does with a lease (completion.rs, change_queue.rs,        *)
(* lease_deferral.rs, gap_promotion/capacity.rs, catalog_delta.rs)         *)
(***************************************************************************)
\* Variant: only the row's presence is compared.
AppliedToAnyRow(t) == rows[t.id].status # "absent"

\* classify_lease_update answers Applied
Applied(t) == rows[t.id].status = "leased" /\ rows[t.id].lease = t.lease

\* wake_metadata_inventory_capacity_deferrals
wake(rs) == [id \in Ids |-> IF rs[id].status = "retry_wait"
                                 /\ is_typed_capacity_deferred_live_gap(rs[id])
                            THEN [rs[id] EXCEPT !.retry = "set"] ELSE rs[id]]

Settled(t) == {o \in owed : Settles(t.intent, o) /\ o \notin rows[t.id].since}

\* publish_catalog_delta: a publication with a stale lease changes nothing
Complete(t) ==
    LET r    == rows[t.id]
        done == [rows EXCEPT ![t.id] = Close(r, "completed", 0)]
    IN  /\ t \in tickets
        /\ Applied(t)
        /\ root_generation_is_current(r.gen) /\ root.published = "yes"
        /\ scan.status = "running" => RowLane(r) = "Live"
        /\ r.authority # "active"
        /\ ~(r.intent.origin = "live" /\ r.intent.kind = "unknown")
        /\ rows' = IF RowLane(r) = "Live" THEN done ELSE wake(done)
        /\ owed' = owed \ Settled(t)
        /\ tickets' = tickets \ {t}
        /\ UNCHANGED <<last, root, scan>>

\* The outcomes Superseded, LeaseMismatch and Missing of every lease update
LoseLease(t) ==
    /\ t \in tickets /\ ~Applied(t)
    /\ tickets' = tickets \ {t}
    /\ UNCHANGED <<rows, last, root, scan, owed>>

GiveBack(t, r) ==
    /\ t \in tickets /\ Applied(t)
    /\ rows' = [rows EXCEPT ![t.id] = [r EXCEPT !.since = {}]]
    /\ tickets' = tickets \ {t}
    /\ UNCHANGED <<last, root, scan, owed>>

\* retry_library_change
Retry(t, failure) ==
    /\ failure = "inventory_required" => rows[t.id].intent.scope # "path"
    /\ GiveBack(t, [rows[t.id] EXCEPT !.status = "retry_wait", !.failure = failure,
                       !.retry = IF rows[t.id].attempts >= MaxAttempts THEN "none" ELSE "set"])

\* lease_deferral::defer, for cancelled work and for work that a scan blocks
Defer(t) ==
    GiveBack(t, [rows[t.id] EXCEPT !.status = "pending", !.retry = "none",
                    !.attempts = IF @ > 0 THEN @ - 1 ELSE 0])

\* A live gap was refused room in the recovery lane by an earlier transaction.
DeferForCapacity(t) ==
    /\ IsLiveGapShape(rows[t.id])
    /\ GiveBack(t, [rows[t.id] EXCEPT !.status = "retry_wait", !.retry = "set",
                       !.failure = "capacity", !.attempts = IF @ > 0 THEN @ - 1 ELSE 0])

\* The process dies: its workers are gone, the database is not.
Crash ==
    /\ tickets # {}
    /\ tickets' = {}
    /\ UNCHANGED <<rows, last, root, scan, owed>>

(***************************************************************************)
(* The foreground scan of the root (scan_admission.rs, scan_publication.rs,*)
(* scan_lifecycle.rs, scan_change_capture.rs)                              *)
(***************************************************************************)
NoScan == [status |-> "none", mark |-> 0, gen |-> 0, since |-> {}]

\* Variant: live work is captured too.
CapturableInAnyLane(r) == r.authority # "active" /\ r.owners = {}

Capturable(r) == RowLane(r) # "Live" /\ r.authority # "active" /\ r.owners = {}

\* ScanChangeCapture::bind; attempts are not spent
Bind(rs, g, mark) ==
    [id \in Ids |->
        IF rs[id].gen = g /\ id <= mark /\ is_unleased(rs[id]) /\ Capturable(rs[id])
        THEN [rs[id] EXCEPT !.status = "leased", !.retry = "none", !.lease = @ + 1,
                            !.bound = "yes", !.since = {}]
        ELSE rs[id]]

HighWatermark(rs, g) ==
    LET covered == {id \in ActiveIds(rs, g) : RowLane(rs[id]) # "Live"}
    IN  IF covered = {} THEN 0 ELSE Most(covered)

\* begin_scan_owned.  A root whose identity changed starts a new generation.
BeginScan(identity_changed) ==
    LET restart == root.active = "no" \/ identity_changed
        g       == IF restart THEN root.generation + 1 ELSE root.generation
        kept    == IF restart THEN RetireRows(rows, root.generation) ELSE rows
        mark    == HighWatermark(kept, g)
    IN  /\ scan.status = "none"
        /\ identity_changed => root.active = "yes" /\ root.published = "yes"
        /\ g <= MaxGeneration
        /\ \A id \in Ids : is_unleased(kept[id]) => kept[id].lease < MaxLease
        /\ root' = [root EXCEPT !.generation = g, !.active = "yes"]
        /\ rows' = Bind(kept, g, mark)
        /\ scan' = [status |-> "running", mark |-> mark, gen |-> g, since |-> {}]
        /\ owed' = IF restart THEN {} ELSE owed
        /\ UNCHANGED <<last, tickets>>

\* ensure_publishable
LiveBlocker(r) ==
    /\ RowLane(r) = "Live"
    /\ r.status \in {"pending", "leased"} \/ (r.status = "retry_wait" /\ ~IsPathWork(r))

\* Variant: the scan settles every row of its root, captured or not.
CompletesEveryRow(id) ==
    Unresolved(rows[id]) /\ rows[id].gen = scan.gen /\ RowLane(rows[id]) # "Live"

\* ScanChangeCapture::complete.  Path work that failed once stays queued, and
\* recovery work goes back to its inventory.
CaptureCompletes(id) ==
    LET r == rows[id]
    IN  /\ r.bound = "yes" /\ r.gen = scan.gen /\ id <= scan.mark /\ Unresolved(r)
        /\ ~(r.status = "retry_wait" /\ IsPathWork(r))
        /\ r.authority # "active" /\ r.owners = {}

CaptureReleases(r) ==
    /\ r.bound = "yes" /\ r.status = "leased"
    /\ r.authority = "active" \/ r.owners # {}

PublishScan ==
    LET done == {id \in Ids : CaptureCompletes(id)}
    IN  /\ scan.status = "running"
        /\ root_generation_is_current(scan.gen)
        /\ root.published = "yes" =>
             \A id \in ActiveIds(rows, root.generation) : ~LiveBlocker(rows[id])
        /\ rows' = [id \in Ids |->
                      IF id \in done THEN Close(rows[id], "completed", 0)
                      ELSE IF CaptureReleases(rows[id])
                      THEN [rows[id] EXCEPT !.status = "pending", !.bound = "no", !.since = {}]
                      ELSE [rows[id] EXCEPT !.bound = "no"]]
        /\ owed' = {o \in owed : o \in scan.since
                                   \/ \A id \in done : ~Settles(rows[id].intent, o)}
        /\ root' = [root EXCEPT !.published = "yes"]
        /\ scan' = NoScan
        /\ UNCHANGED <<last, tickets>>

\* abandon_scan_transaction.  A first import that never published leaves the
\* root retired.
AbandonScan ==
    LET retired == root.published = "no" /\ root_generation_is_current(scan.gen)
        kept    == IF retired THEN RetireRows(rows, root.generation) ELSE rows
    IN  /\ scan.status = "running"
        /\ rows' = [id \in Ids |->
                      IF kept[id].bound = "yes" /\ kept[id].status = "leased"
                      THEN [kept[id] EXCEPT !.status = "pending", !.retry = "none",
                                            !.bound = "no", !.since = {}]
                      ELSE [kept[id] EXCEPT !.bound = "no"]]
        /\ root' = IF retired THEN [root EXCEPT !.active = "no"] ELSE root
        /\ owed' = IF retired THEN {} ELSE owed
        /\ scan' = NoScan
        /\ UNCHANGED <<last, tickets>>

\* root_unregistration
UnregisterRoot ==
    /\ root.active = "yes"
    /\ rows' = RetireRows(rows, root.generation)
    /\ root' = [root EXCEPT !.active = "no", !.published = "no"]
    /\ scan' = NoScan
    /\ owed' = {}
    /\ UNCHANGED <<last, tickets>>

(***************************************************************************)
(* The specification                                                       *)
(***************************************************************************)
Init ==
    /\ rows = [id \in Ids |-> NoRow]
    /\ last = 0
    /\ root = [generation |-> 0, active |-> "no", published |-> "no"]
    /\ scan = NoScan
    /\ tickets = {}
    /\ owed = {}

Source(offers) ==
    \E i \in offers : Enqueue(i) \/ EnqueueNewer(i)

Worker ==
    \/ \E sel \in Selections : \E E, C \in SUBSET Matching(sel) : LeasePass(sel, E, C)
    \/ \E t \in tickets :
          \/ Complete(t)
          \/ LoseLease(t)
          \/ \E failure \in {"inventory_required", "other"} : Retry(t, failure)
          \/ Defer(t)
          \/ DeferForCapacity(t)
    \/ Crash

Scanner == (\E changed \in BOOLEAN : BeginScan(changed)) \/ PublishScan \/ AbandonScan

Next == Source(Offers) \/ Worker \/ Scanner \/ UnregisterRoot

Spec == Init /\ [][Next]_vars

(***************************************************************************)
(* Properties                                                              *)
(***************************************************************************)
\* Every row of the queue, the root's state and the tickets are well formed.
TypeOK ==
    /\ rows \in [Ids -> Rows]
    /\ last \in 0..MaxRows
    /\ root \in [generation : Nat, active : {"yes", "no"}, published : {"yes", "no"}]
    /\ scan \in [status : {"none", "running"}, mark : Nat, gen : Nat, since : SUBSET Reports]
    /\ tickets \subseteq [id : Ids, lease : Nat, intent : Intents]
    /\ owed \subseteq Reports

Kept(report) ==
    \E id \in ActiveIds(rows, root.generation) :
        Settles(rows[id].intent, report) /\ report \notin rows[id].since

\* Coalescing, leases, retries, capacity deferral, scans and crashes never
\* lose a place that a live or journal event named by its path (both paths of
\* a rename included): until a worker or a scan that started later has settled
\* it, an unresolved row whose worker will look at it again names it.  A rename
\* that was folded into the row of a subtree shares the fate of that row, which
\* WideEvidenceKept is about: the stories of this property have no second rename
\* that could discard it.
PathEvidenceKept == \A o \in owed : o[2] = "path" => Kept(o)

\* The same for places that were reported as part of a subtree or of the root.
WideEvidenceKept == \A o \in owed : o[2] = "wide" => Kept(o)

\* The same for precise changes of one file, which only a worker that reads
\* that file again or an inventory of the whole root settles.
DirtyEvidenceKept == \A o \in owed : o[2] = "dirty" => Kept(o)

\* retire_root_change_queue, activate_root_change_queue and
\* establish_root_generation: unresolved work belongs to the root's current
\* generation, and a retired root has none.
CurrentGenerationOnly ==
    \A id \in Ids : Unresolved(rows[id]) =>
        root.active = "yes" /\ rows[id].gen = root.generation

\* load_active_changes fails above MAX_UNRESOLVED_CHANGES; no order of
\* enqueues, deferrals and degradations gets there.
BoundedQueue == Cardinality(ActiveIds(rows, root.generation)) <= AbsoluteUnresolved

\* Two unresolved live rows never answer for the same path, whatever renames
\* and changes of it were merged, leased or retried before: two workers would
\* publish the same location against each other.
OnePathOwner ==
    \A x, y \in ActiveIds(rows, root.generation) :
        (/\ x # y /\ RowLane(rows[x]) = "Live" /\ RowLane(rows[y]) = "Live"
         /\ rows[x].intent.scope = "path" /\ rows[y].intent.scope = "path")
            => rows[x].intent.path # rows[y].intent.path

\* Only unresolved rows are captured by a scan, below its high watermark, and
\* never live ones.
CaptureBelowWatermark ==
    \A id \in Ids : rows[id].bound = "yes" /\ Unresolved(rows[id]) =>
        /\ scan.status = "running" /\ id <= scan.mark
        /\ RowLane(rows[id]) # "Live"

\* A worker whose lease still counts has looked at what its row names now: no
\* event changes a row under a lease, and a lease of the row as it was before
\* it expired or was given back and took up new events no longer counts.
LeaseNamesWork == \A t \in tickets : Applied(t) => t.intent = rows[t.id].intent

\* A completed or superseded row is only ever removed.
TerminalStaysTerminal ==
    [][\A id \in Ids : rows[id].status \in {"completed", "superseded"} =>
          rows'[id].status \in {rows[id].status, "absent"}]_vars
=============================================================================
