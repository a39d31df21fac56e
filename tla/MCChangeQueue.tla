---------------------------- MODULE MCChangeQueue ----------------------------
(***************************************************************************)
(* Instances of ChangeQueue: the album a with the files a/p, a/q and a/r,  *)
(* and the file b outside of it.                                           *)
(***************************************************************************)
EXTENDS ChangeQueue

A  == <<"a">>
AP == <<"a", "p">>
AQ == <<"a", "q">>
AR == <<"a", "r">>
B  == <<"b">>

MCPaths == {A, AP, AQ, AR, B}

Intent(kind, scope, path, previous, origin) ==
    [kind |-> kind, scope |-> scope, path |-> path, previous |-> previous, origin |-> origin]

Changed(p)    == Intent("reconcile", "path", p, NoPath, "live")
Renamed(p, q) == Intent("rename", "path", q, p, "live")
Album         == Intent("reconcile", "subtree", A, NoPath, "live")
Gap           == Intent("unknown", "root", NoPath, NoPath, "live")
Journal(i)    == [i EXCEPT !.origin = "catch_up"]
Audit(i)      == [i EXCEPT !.origin = "audit"]

\* A story is what the sources of one behaviour report, and how far it goes.
VARIABLE story

Story(offers, most, leases, generations) ==
    [offers |-> offers, rows |-> most, leases |-> leases, generations |-> generations]

\* The watcher tells of a rename and of changes of both its paths.
RenameStory == Story({Renamed(AP, AQ), Changed(AQ), Changed(AP)}, 3, 1, 1)

\* A file is moved into an album that is itself reported.
MoveStory == Story({Renamed(B, AQ), Album}, 3, 1, 1)

\* More work than the queue has room for
CapacityStory == Story({Changed(AQ), Gap, Journal(Changed(AR))}, 3, 1, 1)

\* Two changes of one file, whose row is leased again and again
LeaseStory == Story({Changed(AQ), Renamed(AP, AQ)}, 2, 3, 1)

\* Journal ranges and audits, which a scan captures, beside live work
ScanStory == Story({Journal(Changed(AQ)), Journal(Album), Audit(Changed(AP)), Changed(AQ)}, 2, 2, 1)

\* Journal and live work in two generations of the root
GenerationStory == Story({Journal(Album), Changed(AQ)}, 2, 2, 2)

\* A rename inside an album that is reported too
AlbumStory == Story({Renamed(AP, AQ), Changed(AQ), Album}, 4, 2, 1)

CoalescingStories == {RenameStory, MoveStory, CapacityStory}
LeaseStories      == {LeaseStory, ScanStory, GenerationStory}
AlbumStories      == {AlbumStory}

MCOffers == UNION {s.offers : s \in CoalescingStories \cup LeaseStories \cup AlbumStories}

\* Bound: no behaviour leaves its story.
WithinStory ==
    /\ last <= story.rows /\ root.generation <= story.generations
    /\ \A id \in Ids : rows[id].lease <= story.leases

Tell == (Source(story.offers) \/ Worker \/ Scanner \/ UnregisterRoot) /\ UNCHANGED story

CoalescingInit == Init /\ story \in CoalescingStories
CoalescingSpec == CoalescingInit /\ [][Tell]_<<vars, story>>
LeaseInit == Init /\ story \in LeaseStories
LeaseSpec == LeaseInit /\ [][Tell]_<<vars, story>>
AlbumInit == Init /\ story \in AlbumStories
AlbumSpec == AlbumInit /\ [][Tell]_<<vars, story>>
=============================================================================
