---------------------------- MODULE OCILifecycle ----------------------------
(***************************************************************************)
(* What an OCI runtime promises of one container ID, as seen through       *)
(* `runu state`: the ID is unknown, or it has a container that is created, *)
(* running or stopped, and the status only moves forward.  A container may *)
(* already be stopped when it is first seen; only a stopped one goes away. *)
(***************************************************************************)
VARIABLE status

Init == status = "absent"

Create == status = "absent" /\ status' \in {"created", "stopped"}
Start == status = "created" /\ status' = "running"
Stop == status \in {"created", "running"} /\ status' = "stopped"
Delete == status = "stopped" /\ status' = "absent"

Next == Create \/ Start \/ Stop \/ Delete

Spec == Init /\ [][Next]_status

=============================================================================
