---------------------------- MODULE MCEvidenceStore ----------------------------
(* Two runs on one store.  The blob of c1 and a temporary log of a killed    *)
(* run may be there from before.                                             *)
EXTENDS EvidenceStore, TLC

CONSTANTS c1, r1, r2, p1

ExistingNames == {BlobName(c1), <<"tmp", p1, 0, "stdout">>}
NoNames == {}
RunSymmetry == Permutations(Runs)

\* After a power loss no other run is started.
LossIsTheEnd == lost => \A r \in Runs : pc[r] \in {"idle", "ended"}
=============================================================================
