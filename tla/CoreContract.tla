----------------------------- MODULE CoreContract -----------------------------
(***************************************************************************)
(* What core::CoreProcess promises the rest of the program, without saying *)
(* how: commands are numbered start() calls or a stop(); at most one core  *)
(* lives at a time; a core is launched only for the newest command, and    *)
(* only once; a core that is ready stays ready until it exits or a newer   *)
(* command asks for something else.                                        *)
(***************************************************************************)
EXTENDS Naturals

VARIABLES
    wanted,    \* the request of the newest command, 0 after a stop()
    launched,  \* the newest request a launch was attempted for
    live,      \* the set of requests whose core is running
    ready      \* whether the live core has been announced as ready

vars == <<wanted, launched, live, ready>>

Init == wanted = 0 /\ launched = 0 /\ live = {} /\ ready = FALSE

\* start(): nothing happens to a ready core until its replacement is launched.
Request ==
    /\ wanted' \in Nat \ {0}
    /\ wanted' > launched
    /\ UNCHANGED <<launched, live, ready>>

\* stop()
Cancel ==
    /\ wanted' = 0
    /\ ready' = FALSE
    /\ UNCHANGED <<launched, live>>

\* The newest request is launched, when its predecessor is gone; the core may
\* fail to start.
Launch ==
    /\ wanted > launched
    /\ launched' = wanted
    /\ live' \in {{}, {wanted}}
    /\ ready' = FALSE
    /\ UNCHANGED wanted

BecomeReady ==
    /\ live = {wanted}
    /\ ready' = TRUE
    /\ UNCHANGED <<wanted, launched, live>>

\* A ready core is taken down only for a newer command.
Demote ==
    /\ wanted \notin live
    /\ ready' = FALSE
    /\ UNCHANGED <<wanted, launched, live>>

Exit ==
    /\ live' = {}
    /\ ready' = FALSE
    /\ UNCHANGED <<wanted, launched>>

Next == Request \/ Cancel \/ Launch \/ BecomeReady \/ Demote \/ Exit

Spec == Init /\ [][Next]_vars
=============================================================================
