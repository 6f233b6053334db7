-------------------------- MODULE MCSnapshotBatcher --------------------------
(* SnapshotBatcher on a handful of versions.                                *)
EXTENDS SnapshotBatcher
=============================================================================
