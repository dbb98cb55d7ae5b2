----------------------------- MODULE MCNetconf -----------------------------
(* Instances of Netconf for TLC. *)
EXTENDS Netconf

\* a and b are names, x is an address.
CONSTANTS a, b, x
Plain == [dhcp |-> FALSE, urls |-> <<a>>, ntp |-> << >>, entries |-> 2, udp |-> 2, busy |-> FALSE]
AllUses ==
  {[Plain EXCEPT !.urls = <<a, b>>, !.ntp = <<b>>],             \* two devices
   [Plain EXCEPT !.urls = <<x, a, x>>, !.ntp = <<a>>],           \* names shared
   [Plain EXCEPT !.urls = <<a, a>>, !.busy = TRUE],
   [Plain EXCEPT !.ntp = <<b, x>>, !.entries = 1],               \* a table too small
   [Plain EXCEPT !.dhcp = TRUE, !.entries = 1, !.udp = 3]}                      \* an address from DHCP
=============================================================================
