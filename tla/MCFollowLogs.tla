---------------------------- MODULE MCFollowLogs ----------------------------
(* Instances of FollowLogs for TLC.                                        *)
EXTENDS FollowLogs
=============================================================================
