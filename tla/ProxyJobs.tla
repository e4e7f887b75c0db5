------------------------------ MODULE ProxyJobs ------------------------------
(***************************************************************************)
(* The requests of platform::SystemProxyService, which ProxyService queues *)
(* and SystemProxy carries out.                                            *)
(***************************************************************************)

CONSTANT Configs   \* the proxy configurations that can be asked for

Enables == [action : {"Enable"}, config : Configs]
Disable == [action |-> "Disable"]
Restore == [action |-> "Restore"]
Refresh == [action |-> "Refresh"]

Jobs == Enables \cup {Disable, Restore, Refresh}
=============================================================================
