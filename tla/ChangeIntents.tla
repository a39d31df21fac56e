---------------------------- MODULE ChangeIntents ----------------------------
(***************************************************************************)
(* What a change intent says about the library, and how two intents        *)
(* compare and merge: the pure part of                                     *)
(* rust/src/adapters/sqlite_catalog/change_queue/coalescing.rs and of      *)
(* rust/src/domain/library_change.rs.                                      *)
(*                                                                         *)
(* A normalised relative path is the sequence of its segments; the empty   *)
(* path of a root intent, and the absent previous path, are << >>.         *)
(* Observation times, sequence numbers and counts are left out: merging    *)
(* takes their minimum, maximum and sum, and no decision reads them.       *)
(***************************************************************************)
EXTENDS Naturals, Sequences, FiniteSets

CONSTANT Paths      \* the normalised relative paths of the instance

NoPath == << >>

ASSUME PathsAssumption == Paths \subseteq Seq(STRING) /\ NoPath \notin Paths

Kinds   == {"reconcile", "rename", "unknown"}
Scopes  == {"path", "subtree", "root"}
Origins == {"live", "catch_up", "inventory", "audit", "refresh"}
Lanes   == {"Live", "Journal", "Recovery"}

\* LibraryChangeOrigin::lane
lane(origin) ==
    CASE origin = "live"     -> "Live"
      [] origin = "catch_up" -> "Journal"
      [] OTHER               -> "Recovery"

Shapes == [kind : Kinds, scope : Scopes, path : Paths \cup {NoPath},
           previous : Paths \cup {NoPath}, origin : Origins]

\* validate_intent_shape
ValidShape(i) ==
    /\ i.kind = "unknown" => i.scope = "root"
    /\ i.scope = "root" => i.path = NoPath /\ i.previous = NoPath
    /\ i.scope # "root" => i.path # NoPath /\ i.previous # i.path
    /\ i.kind = "rename" => i.scope # "root" /\ i.previous # NoPath
    /\ i.kind = "reconcile" /\ i.scope = "subtree" => i.previous = NoPath

Intents == {i \in Shapes : ValidShape(i)}

affected_paths(i) ==
    {i.path} \cup (IF i.previous = NoPath THEN {} ELSE {i.previous})

\* A path is within a subtree when the subtree's segments begin it.
is_within_subtree(path, subtree) ==
    /\ Len(subtree) <= Len(path)
    /\ \A k \in 1..Len(subtree) : path[k] = subtree[k]

\* The previous path of a rename, or of a path that was renamed and then
\* changed; NoPath for every other intent.
rename_lineage_previous_path(i) ==
    IF i.kind = "rename" \/ (i.kind = "reconcile" /\ i.scope = "path")
    THEN i.previous ELSE NoPath

path_rename_lineage_previous_path(i) ==
    IF i.scope = "path" THEN rename_lineage_previous_path(i) ELSE NoPath

same_rename_lineage(left, right) ==
    /\ left.scope = "path" /\ right.scope = "path"
    /\ left.path = right.path
    /\ path_rename_lineage_previous_path(left) # NoPath
    /\ path_rename_lineage_previous_path(left)
         = path_rename_lineage_previous_path(right)

same_work_key(left, right) ==
    \/ /\ left.kind = right.kind /\ left.scope = right.scope
       /\ left.path = right.path /\ left.previous = right.previous
    \/ same_rename_lineage(left, right)

is_precise_dirty_reconcile(i) ==
    /\ i.kind = "reconcile" /\ i.scope = "path"
    /\ i.origin \in {"live", "catch_up", "inventory"}

\* Variant: a subtree covers an intent when either of its paths is inside.
IntentCoversOnePath(covering, candidate) ==
    IF covering.scope = "path"
    THEN \/ same_work_key(covering, candidate)
         \/ /\ path_rename_lineage_previous_path(covering) # NoPath
            /\ candidate.kind = "reconcile" /\ candidate.scope = "path"
            /\ covering.path = candidate.path
    ELSE /\ ~is_precise_dirty_reconcile(candidate)
         /\ \/ covering.scope = "root"
            \/ \E p \in affected_paths(candidate) :
                   \E s \in affected_paths(covering) : is_within_subtree(p, s)

\* Variant: a path row covers its own work key only.
IntentCoversSameKey(covering, candidate) ==
    IF covering.scope = "path" THEN same_work_key(covering, candidate)
    ELSE /\ ~is_precise_dirty_reconcile(candidate)
         /\ \/ covering.scope = "root"
            \/ \A p \in affected_paths(candidate) :
                   \E s \in affected_paths(covering) : is_within_subtree(p, s)

\* A later precise change of one path is never folded into a wider audit.
intent_covers(covering, candidate) ==
    IF covering.scope = "path"
    THEN \/ same_work_key(covering, candidate)
         \/ /\ path_rename_lineage_previous_path(covering) # NoPath
            /\ candidate.kind = "reconcile" /\ candidate.scope = "path"
            /\ covering.path = candidate.path
    ELSE /\ ~is_precise_dirty_reconcile(candidate)
         /\ \/ covering.scope = "root"
            \/ \A p \in affected_paths(candidate) :
                   \E s \in affected_paths(covering) : is_within_subtree(p, s)

affected_paths_overlap(left, right) ==
    \E l \in affected_paths(left), r \in affected_paths(right) :
        \/ l = r
        \/ left.scope = "subtree" /\ is_within_subtree(r, l)
        \/ right.scope = "subtree" /\ is_within_subtree(l, r)

stale_overlap(leased, incoming) ==
    \/ intent_covers(leased, incoming)
    \/ intent_covers(incoming, leased)
    \/ affected_paths_overlap(leased, incoming)

exact_path_work_identity(left, right) ==
    /\ left.scope = "path" /\ right.scope = "path"
    /\ left.path = right.path /\ left.previous = right.previous

intent_strength(i) ==
    IF i.kind = "unknown" THEN 5
    ELSE IF i.scope = "root" THEN 4
    ELSE IF i.scope = "subtree" THEN 3
    ELSE IF rename_lineage_previous_path(i) # NoPath THEN 2
    ELSE 1

\* Variant: a change of a renamed path forgets where it came from.
MergeForgetsPrevious(target, evidence) ==
    IF target.kind = "rename" /\ evidence.kind = "reconcile"
    THEN [target EXCEPT !.kind = "reconcile", !.previous = NoPath] ELSE target

\* A change of a renamed path keeps both facts: reconcile, with the old path.
merge_dirty_rename_semantics(target, evidence) ==
    LET t == path_rename_lineage_previous_path(target)
        e == path_rename_lineage_previous_path(evidence)
        previous == IF target.kind = "reconcile" THEN e
                    ELSE IF evidence.kind = "reconcile" THEN t ELSE NoPath
    IN  IF \/ target.scope # "path" \/ evidence.scope # "path"
           \/ target.path # evidence.path
           \/ t # NoPath /\ e # NoPath /\ t # e
           \/ previous = NoPath
        THEN target
        ELSE [target EXCEPT !.kind = "reconcile", !.previous = previous]

\* Variant: the newer intent replaces the older one but for its kind.
MergeOverwrites(target, evidence) == [evidence EXCEPT !.kind = target.kind]

merge_newer_evidence(target, evidence) ==
    [merge_dirty_rename_semantics(target, evidence) EXCEPT !.origin = evidence.origin]

preserves_inventory_control(i) ==
    i.kind # "unknown" /\ i.origin \notin {"catch_up", "audit"}

\* Variant: the paths stay behind.
RootGapWithPaths(i) == [i EXCEPT !.kind = "unknown", !.scope = "root"]

\* The root gap an intent degrades to.
RootGap(i) ==
    [i EXCEPT !.kind = "unknown", !.scope = "root", !.path = NoPath, !.previous = NoPath]

\* The places an intent obliges its worker to look at.
Footprint(i) ==
    CASE i.scope = "root"    -> Paths
      [] i.scope = "subtree" ->
            {p \in Paths : \E s \in affected_paths(i) : is_within_subtree(p, s)}
      [] OTHER               -> affected_paths(i)
=============================================================================
