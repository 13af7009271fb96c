------------------------------- MODULE JossHub -------------------------------
(* The process-wide hub of server/websocket.go, behind the endpoint /ws and  *)
(* WebSocket::broadcast: one goroutine that owns the table of clients, and   *)
(* for each client a bounded queue, a goroutine that reads the socket and    *)
(* one that writes it.                                                       *)
EXTENDS Integers, Sequences, FiniteSets, SequencesExt

CONSTANTS
    Clients,      \* connections to /ws
    SendBuffer,   \* capacity of Client.send, 256 in the code
    MaxBroadcasts \* bound: calls of Broadcast; the k-th one has the message k

ASSUME HubAssumption == SendBuffer \in Nat \ {0} /\ MaxBroadcasts \in Nat

VARIABLES
    clients,  \* Hub.clients
    turn,     \* clients that the broadcast in progress has not reached yet
    message,  \* the message of that broadcast, 0 outside one
    waiting,  \* messages of Broadcast calls that the hub has not received
    reader,   \* client -> where ServeWs and then readPump is
    pump,     \* client -> where writePump is
    send,     \* client -> the queue
    closes,   \* client -> how often its queue has been closed
    out,      \* client -> what writePump has put into the message it writes
    more,     \* client -> how many queued messages it has still to add
    conn,     \* client -> whether the socket works
    log,      \* history: the messages in the order the hub received them
    joined,   \* client -> history: length of log when it was registered
    got       \* client -> history: what was written to the socket

hubVars == <<clients, turn, message, waiting, reader, pump, send, closes, out, more,
             conn, log, joined, got>>
writerState == <<pump, out, more, got>>
hubState == <<clients, turn, message, log, joined, closes>>

HubInit ==
    /\ clients = {} /\ turn = {} /\ message = 0 /\ waiting = {}
    /\ reader = [c \in Clients |-> "new"]
    /\ pump = [c \in Clients |-> "off"]
    /\ send = [c \in Clients |-> <<>>]
    /\ closes = [c \in Clients |-> 0]
    /\ out = [c \in Clients |-> <<>>]
    /\ more = [c \in Clients |-> 0]
    /\ conn = [c \in Clients |-> FALSE]
    /\ log = <<>>
    /\ joined = [c \in Clients |-> 0]
    /\ got = [c \in Clients |-> <<>>]

-----------------------------------------------------------------------------
(* ServeWs and Broadcast, called by handlers.                                *)

ServeWs(c) ==
    /\ reader[c] = "new"
    /\ reader' = [reader EXCEPT ![c] = "registering"]
    /\ conn' = [conn EXCEPT ![c] = TRUE]
    /\ UNCHANGED <<hubState, waiting, send, writerState>>

\* The caller waits: the channel has no buffer.
Broadcast ==
    LET k == Len(log) + Cardinality(waiting) + 1
    IN /\ k <= MaxBroadcasts
       /\ waiting' = waiting \cup {k}
       /\ UNCHANGED <<hubState, reader, send, conn, writerState>>

-----------------------------------------------------------------------------
(* Hub.Run: one case of its select at a time.                                *)

AtSelect == message = 0

HubRegister(c) ==
    /\ AtSelect /\ reader[c] = "registering"
    /\ clients' = clients \cup {c}
    /\ joined' = [joined EXCEPT ![c] = Len(log)]
    /\ reader' = [reader EXCEPT ![c] = "reading"]
    /\ pump' = [pump EXCEPT ![c] = "select"]
    /\ UNCHANGED <<turn, message, waiting, send, closes, out, more, conn, log, got>>

\* MUTANT: the queue is closed without looking whether the client is still there.
UnregisterBlindly(c) ==
    /\ AtSelect /\ reader[c] = "unregistering"
    /\ clients' = clients \ {c}
    /\ closes' = [closes EXCEPT ![c] = @ + 1]
    /\ reader' = [reader EXCEPT ![c] = "closing"]
    /\ UNCHANGED <<turn, message, waiting, send, conn, log, joined, writerState>>

HubUnregister(c) ==
    /\ AtSelect /\ reader[c] = "unregistering"
    /\ clients' = clients \ {c}
    /\ closes' = [closes EXCEPT ![c] = @ + IF c \in clients THEN 1 ELSE 0]
    /\ reader' = [reader EXCEPT ![c] = "closing"]
    /\ UNCHANGED <<turn, message, waiting, send, conn, log, joined, writerState>>

HubBroadcast(k) ==
    /\ AtSelect
    /\ waiting' = waiting \ {k}
    /\ message' = k
    /\ turn' = clients
    /\ log' = Append(log, k)
    /\ UNCHANGED <<clients, reader, send, closes, joined, conn, writerState>>

\* MUTANT: the queue takes one message more than it has room for.
OfferBeyond(c) ==
    /\ c \in turn
    /\ turn' = turn \ {c}
    /\ IF Len(send[c]) <= SendBuffer
       THEN send' = [send EXCEPT ![c] = Append(@, message)] /\ UNCHANGED <<clients, closes>>
       ELSE /\ clients' = clients \ {c}
            /\ closes' = [closes EXCEPT ![c] = @ + 1]
            /\ UNCHANGED send
    /\ UNCHANGED <<message, waiting, reader, conn, log, joined, writerState>>

\* MUTANT: the hub waits for room in the queue, with no default in its select.
OfferWaits(c) ==
    /\ c \in turn /\ Len(send[c]) < SendBuffer
    /\ turn' = turn \ {c}
    /\ send' = [send EXCEPT ![c] = Append(@, message)]
    /\ UNCHANGED <<clients, closes>>
    /\ UNCHANGED <<message, waiting, reader, conn, log, joined, writerState>>

\* A client whose queue is full is thrown out.
Offer(c) ==
    /\ c \in turn
    /\ turn' = turn \ {c}
    /\ IF Len(send[c]) < SendBuffer
       THEN send' = [send EXCEPT ![c] = Append(@, message)] /\ UNCHANGED <<clients, closes>>
       ELSE /\ clients' = clients \ {c}
            /\ closes' = [closes EXCEPT ![c] = @ + 1]
            /\ UNCHANGED send
    /\ UNCHANGED <<message, waiting, reader, conn, log, joined, writerState>>

BroadcastEnds ==
    /\ message # 0 /\ turn = {}
    /\ message' = 0
    /\ UNCHANGED <<clients, turn, waiting, reader, send, closes, conn, log, joined, writerState>>

-----------------------------------------------------------------------------
(* readPump.                                                                 *)

\* The socket fails, or the reader dislikes what it reads.
PumpReadFails(c) ==
    /\ reader[c] = "reading"
    /\ reader' = [reader EXCEPT ![c] = "unregistering"]
    /\ UNCHANGED <<hubState, waiting, send, conn, writerState>>

ReaderCloses(c) ==
    /\ reader[c] = "closing"
    /\ reader' = [reader EXCEPT ![c] = "done"]
    /\ conn' = [conn EXCEPT ![c] = FALSE]
    /\ UNCHANGED <<hubState, waiting, send, writerState>>

-----------------------------------------------------------------------------
(* writePump.                                                                *)

WriterLeaves(c) ==
    /\ pump' = [pump EXCEPT ![c] = "done"]
    /\ conn' = [conn EXCEPT ![c] = FALSE]

\* A message; NextWriter fails on a broken socket.
PumpTakes(c) ==
    /\ pump[c] = "select" /\ send[c] # <<>>
    /\ send' = [send EXCEPT ![c] = Tail(@)]
    /\ IF conn[c]
       THEN /\ out' = [out EXCEPT ![c] = <<Head(send[c])>>]
            /\ pump' = [pump EXCEPT ![c] = "message"]
            /\ more' = [more EXCEPT ![c] = -1]
            /\ UNCHANGED conn
       ELSE WriterLeaves(c) /\ UNCHANGED <<out, more>>
    /\ UNCHANGED <<hubState, waiting, reader, got>>

\* n := len(c.send)
PumpCounts(c) ==
    /\ pump[c] = "message" /\ more[c] = -1
    /\ more' = [more EXCEPT ![c] = Len(send[c])]
    /\ UNCHANGED <<hubState, waiting, reader, send, pump, out, conn, got>>

\* What the hub queued since is added to the message being written.
PumpAdds(c) ==
    /\ pump[c] = "message" /\ more[c] > 0 /\ send[c] # <<>>
    /\ send' = [send EXCEPT ![c] = Tail(@)]
    /\ out' = [out EXCEPT ![c] = Append(@, Head(send[c]))]
    /\ more' = [more EXCEPT ![c] = @ - 1]
    /\ UNCHANGED <<hubState, waiting, reader, pump, conn, got>>

PumpFlushes(c) ==
    /\ pump[c] = "message" /\ more[c] = 0
    /\ IF conn[c]
       THEN /\ got' = [got EXCEPT ![c] = @ \o out[c]]
            /\ pump' = [pump EXCEPT ![c] = "select"]
            /\ UNCHANGED conn
       ELSE WriterLeaves(c) /\ UNCHANGED got
    /\ out' = [out EXCEPT ![c] = <<>>]
    /\ UNCHANGED <<hubState, waiting, reader, send, more>>

\* The queue is closed and empty: a close frame, and the socket is closed.
PumpSeesClose(c) ==
    /\ pump[c] = "select" /\ send[c] = <<>> /\ closes[c] > 0
    /\ WriterLeaves(c)
    /\ UNCHANGED <<hubState, waiting, reader, send, out, more, got>>

\* The ping of the ticker fails.
PumpPingFails(c) ==
    /\ pump[c] = "select" /\ ~conn[c]
    /\ WriterLeaves(c)
    /\ UNCHANGED <<hubState, waiting, reader, send, out, more, got>>

\* The network or the browser goes away; writes have a deadline.
SocketBreaks(c) ==
    /\ conn[c]
    /\ conn' = [conn EXCEPT ![c] = FALSE]
    /\ UNCHANGED <<hubState, waiting, reader, send, writerState>>

-----------------------------------------------------------------------------
HubStep ==
    \/ \E c \in Clients : HubRegister(c) \/ HubUnregister(c) \/ Offer(c)
    \/ \E k \in waiting : HubBroadcast(k)
    \/ BroadcastEnds
ReaderStep(c) == PumpReadFails(c) \/ ReaderCloses(c)
PumpStep(c) ==
    \/ PumpTakes(c) \/ PumpCounts(c) \/ PumpAdds(c) \/ PumpFlushes(c)
    \/ PumpSeesClose(c) \/ PumpPingFails(c)

HubNext ==
    \/ HubStep \/ Broadcast
    \/ \E c \in Clients : ServeWs(c) \/ ReaderStep(c) \/ PumpStep(c) \/ SocketBreaks(c)

HubSpec == HubInit /\ [][HubNext]_hubVars

\* The goroutines run: the hub, whose select takes each call of the few that
\* wait, and of every client the writer, and the reader once the socket is gone
\* (its read then fails) or once the hub has taken it off.  No peer has to break
\* its socket, and nobody has to call Broadcast.
HubFairness ==
    /\ WF_hubVars(HubStep)
    /\ \A c \in Clients : /\ WF_hubVars(PumpStep(c))
                          /\ WF_hubVars((~conn[c] /\ PumpReadFails(c)) \/ ReaderCloses(c))

-----------------------------------------------------------------------------
(* Properties.                                                               *)

\* Every variable has its type.
HubTypeOK ==
    /\ clients \subseteq Clients /\ turn \subseteq Clients
    /\ message \in 0..MaxBroadcasts /\ waiting \subseteq 1..MaxBroadcasts
    /\ reader \in [Clients -> {"new", "registering", "reading", "unregistering", "closing", "done"}]
    /\ pump \in [Clients -> {"off", "select", "message", "done"}]
    /\ closes \in [Clients -> Nat] /\ more \in [Clients -> -1..SendBuffer]
    /\ conn \in [Clients -> BOOLEAN] /\ joined \in [Clients -> 0..MaxBroadcasts]
    /\ \A c \in Clients : Len(send[c]) <= SendBuffer

\* A queue is closed at most once, and never while the hub may still offer to
\* it: closing it twice or sending to a closed one would panic in the goroutine
\* of the hub and end the process.
QueuesAreClosedOnce ==
    \A c \in Clients :
        /\ closes[c] = IF reader[c] \in {"new", "registering"} \/ c \in clients THEN 0 ELSE 1
        /\ c \in turn => c \in clients

\* What a client has received, is being written and is queued is what the hub
\* received since it was registered, in that order and without a gap; as long as
\* its writer runs and it is in the table, nothing of it is missing.
NoGaps ==
    \A c \in Clients :
        LET have == got[c] \o out[c] \o send[c]
            all == SubSeq(log, joined[c] + 1, Len(log))
            due == IF c \in turn THEN Len(all) - 1 ELSE Len(all)
        IN /\ pump[c] # "done" => IsPrefix(have, all)
           /\ IsPrefix(got[c], all)
           /\ c \in clients /\ pump[c] # "done" => Len(have) = due

\* The two together: until it is thrown out, a client receives every message.
ClientsReceiveInOrder == QueuesAreClosedOnce /\ NoGaps

\* Nothing remains of a client: it is not in the table, its socket is closed
\* and its two goroutines have ended.
Gone(c) == c \notin clients /\ ~conn[c] /\ reader[c] = "done" /\ pump[c] = "done"

\* The writer of c has something to do: the guards of PumpStep(c).
PumpIsBusy(c) ==
    \/ pump[c] = "select" /\ (send[c] # <<>> \/ closes[c] > 0 \/ ~conn[c])
    \/ pump[c] = "message" /\ (more[c] \in {-1, 0} \/ send[c] # <<>>)

\* The goroutines of c wait for something that only its peer or the hub can
\* bring: neither has a step of its own, and none has asked the hub for one.
AtRest(c) ==
    /\ reader[c] \in {"reading", "done"} /\ ~PumpIsBusy(c)
    /\ reader[c] = "reading" => conn[c]

\* A client that is not in the table, or whose socket is gone, does not come to
\* rest before nothing remains of it: its goroutines are not left behind, the
\* writer waiting at a queue that nobody fills or closes, the reader at a socket
\* that nobody closes (writePump, readPump, Hub.Run).
NothingRemains ==
    \A c \in Clients : AtRest(c) /\ (~conn[c] \/ c \notin clients) => Gone(c)

\* A Broadcast returns, however slow or dead the clients are.
BroadcastsReturn == \A k \in 1..MaxBroadcasts : k \in waiting ~> k \notin waiting

\* A client whose socket is gone, or whom the hub has thrown out, leaves.
ClientsLeave ==
    \A c \in Clients : (reader[c] # "new" /\ ~conn[c]) \/ closes[c] > 0 ~> Gone(c)

\* The hub keeps nobody: no caller, and no goroutine of a client that is over.
HubLetsGo == []NothingRemains /\ BroadcastsReturn /\ ClientsLeave
=============================================================================
