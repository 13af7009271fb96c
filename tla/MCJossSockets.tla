---------------------------- MODULE MCJossSockets ----------------------------
(* The two kinds of WebSocket of a server.  They share nothing, so a         *)
(* behaviour of the instance that TLC checks moves one of them.              *)
EXTENDS JossHub, JossRooms

VARIABLE side
vars == <<side, hubVars, roomsVars>>

Init == HubInit /\ RoomsInit /\ side \in {"hub", "rooms"}
Next ==
    \/ side = "hub" /\ HubNext /\ UNCHANGED <<side, roomsVars>>
    \/ side = "rooms" /\ RoomsNext /\ UNCHANGED <<side, hubVars>>

Spec == Init /\ [][Next]_vars /\ RoomsFairness /\ HubFairness

\* Every variable has its type.
TypeOK == HubTypeOK /\ RoomsTypeOK
=============================================================================
