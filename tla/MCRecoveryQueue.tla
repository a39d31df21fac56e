--------------------------- MODULE MCRecoveryQueue ---------------------------
(***************************************************************************)
(* Instances of RecoveryQueue over the album of MCChangeQueue.             *)
(***************************************************************************)
EXTENDS RecoveryQueue, MCChangeQueue

GapFound == {[Changed(AQ) EXCEPT !.origin = "inventory"]}
Audits   == {Audit(Changed(AP))}

RecoveryStory(offers, audits, most, leases, generations) ==
    [offers |-> offers, audits |-> audits, rows |-> most, leases |-> leases,
     generations |-> generations]

\* The watcher loses its buffer, and loses it again.
LostTwice == RecoveryStory({Gap}, {}, 4, 1, 1)

\* It loses its buffer beside a change of one file.
LostChange == RecoveryStory({Gap, Changed(AQ)}, {}, 3, 1, 1)

\* It loses its buffer in two generations, and a file is audited.
LostAudit == RecoveryStory({Gap}, Audits, 3, 1, 2)

\* An album is too large for its worker.
LargeAlbum == RecoveryStory({Album}, {}, 3, 1, 1)

\* The buffer is lost, and its inventory is continued under a later lease.
LongInventory == RecoveryStory({Gap}, {}, 3, 2, 1)

\* The buffer is lost twice, and the queue has no room for what is found.
FullQueue == RecoveryStory({Gap}, {}, 4, 1, 1)

\* The buffer is lost, and an audit meets the inventory.
AuditMeets == RecoveryStory({Gap}, Audits, 4, 1, 1)

\* The buffer is lost, and a file that the inventory finds is renamed.
FoundMoves == RecoveryStory({Gap, Changed(AQ), Renamed(AP, AQ)}, {}, 4, 1, 1)

RecoveryStories == {LostTwice, LostChange, LostAudit, LargeAlbum}
ResumedStories  == {LongInventory, FullQueue}
RecoveryOffers  == UNION {s.offers : s \in RecoveryStories \cup ResumedStories \cup {FoundMoves}}

Recover ==
    /\ \/ QueueSource(story.offers, story.audits) \/ QueueWorker \/ Inventory
       \/ Scanner /\ UNCHANGED runs
       \/ UnregisterWithRuns
    /\ UNCHANGED story

StoriesInit == RecoveryInit /\ story \in RecoveryStories
StoriesSpec == StoriesInit /\ [][Recover]_<<rvars, story>>
ResumedInit == RecoveryInit /\ story \in ResumedStories
ResumedSpec == ResumedInit /\ [][Recover]_<<rvars, story>>
AuditInit == RecoveryInit /\ story = AuditMeets
AuditSpec == AuditInit /\ [][Recover]_<<rvars, story>>
MovesInit == RecoveryInit /\ story = FoundMoves
MovesSpec == MovesInit /\ [][Recover]_<<rvars, story>>
=============================================================================
