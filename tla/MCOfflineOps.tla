---------------------------- MODULE MCOfflineOps ----------------------------
(***************************************************************************)
(* OfflineOps on an instance where batches mix and kinds follow each       *)
(* other: two messages can be marked read or unread, one can be moved.     *)
(***************************************************************************)
EXTENDS OfflineOps

CONSTANTS u1, u2

Changes == {<<u1, "flag_seen">>, <<u2, "flag_seen">>, <<u1, "move">>}
=============================================================================
