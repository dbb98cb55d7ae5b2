------------------------------- MODULE MCScp -------------------------------
(* Instances of Scp for TLC. *)
EXTENDS Scp

Use(slots, devices, puts, nested) ==
  [slots |-> slots, devices |-> devices, puts |-> puts, nested |-> nested]

\* Every reply and every timeout has the process send again; and a buffer
\* that is full whenever anybody puts a second packet, for two devices.
CONSTANTS d1, d2
ClientUses == {Use(3, {d1}, {"send"}, {"send"}), Use(1, {d1, d2}, {"send", "buffer"}, {})}
ServerUses == {Use(2, {d1}, {"send"}, {})}
CardUses == {Use(1, {d1}, {"send", "important"}, {})}
ReplyUses == {Use(3, {d1}, {"send"}, {"send"})}

ClientSymmetry == Permutations(Client)

\* A slot that is neither in the buffer nor pointed to is read by nobody before
\* it is filled again, but for its important.
Pointed ==
  Buffered \cup {SD} \cup {cur[d] : d \in Device} \cup {last[d] : d \in Device}
  \cup {stack[i].s : i \in {j \in 1..Len(stack) : stack[j].k = "timeout"}}

View ==
  <<use, [s \in DOMAIN mem |->
       IF s \in Pointed THEN <<mem[s]>> ELSE <<mem[s].important>>],
    timer, buffer, sd, deviceVars, awaits, stack>>
=============================================================================
