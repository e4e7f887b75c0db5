------------------------------- MODULE MCPages -------------------------------
(* One page at a time: they have no state in common. *)
EXTENDS Pages, ServiceSettings

vars == <<pageVars, serviceVars>>

Init ==
    /\ page \in {"connections", "proxies", "providers", "logs", "graph", "service"}
    /\ PagesInit /\ ServiceInit
    /\ page # "service" => disk = FALSE /\ core.service = FALSE

Next ==
    \/ PagesNext /\ UNCHANGED serviceVars
    \/ page = "service" /\ ServiceNext /\ UNCHANGED pageVars

Spec == Init /\ [][Next]_vars /\ ServiceFairness
=============================================================================
