---------------------------- MODULE MCInterfaces ----------------------------
(* What enters the host from outside: payloads and frames of the nodes, requests of
   the operator, and nodes that have no address yet.  The four share nothing: a
   behaviour explores one of them. *)
EXTENDS WireExchange, Framing, OperationsService, Commissioning

VARIABLE part

interfaceVars == <<wireVars, framingVars, allVars, commVars, part>>

\* The variables of a part that rests.
ServiceRests ==
    /\ ServiceInit
    /\ \A c, d \in Clients : client[c] = client[d] /\ client[c].kind = "EnterMaintenance"
CommRests == CommInit /\ slot = [s \in Hardware \X Nonces |-> 0]

MCInit ==
    /\ part \in {"payloads", "frames", "operations", "commissioning"}
    /\ Init /\ FramingInit
    /\ IF part = "operations" THEN ServiceInit ELSE ServiceRests
    /\ IF part = "commissioning" THEN CommInit ELSE CommRests

MCNext ==
    \/ part = "payloads" /\ Next /\ UNCHANGED <<framingVars, allVars, commVars, part>>
    \/ part = "frames" /\ FramingNext /\ UNCHANGED <<wireVars, allVars, commVars, part>>
    \/ part = "operations" /\ ServiceNext /\ UNCHANGED <<wireVars, framingVars, commVars, part>>
    \/ part = "commissioning" /\ CommNext /\ UNCHANGED <<wireVars, framingVars, allVars, part>>

MCSpec == MCInit /\ [][MCNext]_interfaceVars
=============================================================================
