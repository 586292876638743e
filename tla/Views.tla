------------------------------- MODULE Views -------------------------------
(***************************************************************************)
(* What is seen of the service from outside: the answer to a query over    *)
(* the stored rows (WindowQuery), a monitor's picture of who is connected  *)
(* (Registry), and a client's replies and subscription (Client).  The      *)
(* three share no state, so a behaviour is about one of them, which side   *)
(* names, and the others rest.                                             *)
(***************************************************************************)
EXTENDS Registry, WindowQuery, Client

VARIABLE side

viewsVars == <<side, vars, windowVars, clientVars>>

ViewsInit ==
    /\ side \in {"query", "monitor", "client"}
    /\ Init /\ WindowInit /\ ClientInit
    /\ side # "query" => watermark = 0 /\ maxRows = 0

ViewsNext ==
    /\ UNCHANGED side
    /\ \/ side = "query" /\ WindowNext /\ UNCHANGED <<vars, clientVars>>
       \/ side = "monitor" /\ Next /\ UNCHANGED <<windowVars, clientVars>>
       \/ side = "client" /\ ClientNext /\ UNCHANGED <<vars, windowVars>>

ViewsSpec == ViewsInit /\ [][ViewsNext]_viewsVars
=============================================================================
