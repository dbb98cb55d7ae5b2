----------------------------- MODULE MCDevices -----------------------------
(* Instances of Devices for TLC. *)
EXTENDS Devices

\* Two servers with one SCP_devID, and a host that is in no file.
CONSTANTS a, b, x
Ids == [h \in Address |-> IF h = x THEN 7 ELSE 0]
AllUses == {[servers |-> <<a, b>>, inbound |-> {}, conns |-> 2],
            [servers |-> <<a>>, inbound |-> {a, x}, conns |-> 1]}
=============================================================================
