--------------------------- MODULE MCCatalogSession ---------------------------
(* One caller scans; the other does anything beside it: another scan, the  *)
(* cancellation of the first scan's retained state, an ordinary use or a   *)
(* recovery.  MCRoles is for the invariants; WaitRoles, without the second *)
(* scan, for what a scan waits for.                                        *)
EXTENDS CatalogSession, TLC

CONSTANTS t1, t2, s1, s2

OtherUses == {<<"open", NoScan>>, <<"recover", NoScan>>}

MCRoles ==
    t1 :> {<<"scan", s1>>} @@ t2 :> {<<"scan", s2>>, <<"cancel", s1>>} \cup OtherUses

WaitRoles == t1 :> {<<"scan", s1>>} @@ t2 :> OtherUses

SafetySpec == Init /\ [][Next]_vars
=============================================================================
