------------------------------ MODULE JossRooms ------------------------------
(* WebSocket connections of Router::ws and the rooms they subscribe to:      *)
(* core/websocket.go, DispatchWebSocket of core/dispatcher.go and            *)
(* handleWebSocketRoute of server/handler_routing.go.  Each connection has   *)
(* the goroutine of its request, which reads and runs the callbacks, and a   *)
(* task that the handler started with the socket captured.                   *)
EXTENDS Integers, FiniteSets

CONSTANTS
    Conns,   \* connections
    Tasks,   \* the connections whose handler starts a task
    Rooms,   \* channels, as the code calls them
    MaxCalls, \* bound: calls of the methods
    None     \* nobody, nothing

ASSUME RoomsAssumption == None \notin Conns /\ Tasks \subseteq Conns /\ MaxCalls \in Nat

VARIABLES
    alive,   \* whether the process runs
    phase,   \* connection -> where its goroutine is in DispatchWebSocket
    sock,    \* connection -> whether neither end has closed its socket
    stalled, \* connections whose other end neither reads nor answers
    members, \* room -> instances in webSocketChannels.members
    subs,    \* connection -> its _subscriptions
    writer,  \* connection -> the goroutine that holds its writeMu
    job,     \* goroutine -> the call in progress
    calls,   \* calls made so far
    late     \* history: connections whose task has subscribed after the clean-up

roomsVars == <<alive, phase, sock, stalled, members, subs, writer, job, calls, late>>
tables == <<members, subs, late>>

Main(c) == <<c, "main">>
Task(c) == <<c, "task">>
Actors == {Main(c) : c \in Conns} \cup {Task(c) : c \in Tasks}
Owner(a) == a[1]

NoJob == [op |-> "none", room |-> None, todo |-> {}, at |-> None, bad |-> None]
Idle(a) == job[a] = NoJob

RoomsInit ==
    /\ alive = TRUE
    /\ phase = [c \in Conns |-> "new"]
    /\ sock = [c \in Conns |-> FALSE]
    /\ stalled = {}
    /\ members = [r \in Rooms |-> {}]
    /\ subs = [c \in Conns |-> {}]
    /\ writer = [c \in Conns |-> None]
    /\ job = [a \in Actors |-> NoJob]
    /\ calls = 0
    /\ late = {}

-----------------------------------------------------------------------------
(* The goroutine of a connection.                                            *)

Move(c, to) == phase' = [phase EXCEPT ![c] = to]

\* The upgrade succeeds and the handler starts.
Accept(c) ==
    /\ phase[c] = "new"
    /\ Move(c, "setup")
    /\ sock' = [sock EXCEPT ![c] = TRUE]
    /\ UNCHANGED <<alive, stalled, tables, writer, job, calls>>

\* The handler returns: the event loop starts.
SetupReturns(c) ==
    /\ phase[c] = "setup" /\ Idle(Main(c))
    /\ Move(c, "reading")
    /\ UNCHANGED <<alive, sock, stalled, tables, writer, job, calls>>

\* No handler is found, or it panics: the deferred clean-up.
SetupFails(c) ==
    /\ phase[c] = "setup" /\ Idle(Main(c))
    /\ Move(c, "onClose")
    /\ UNCHANGED <<alive, sock, stalled, tables, writer, job, calls>>

\* A message arrives and _on_message is called.
Message(c) ==
    /\ phase[c] = "reading" /\ sock[c] /\ c \notin stalled
    /\ Move(c, "onMessage")
    /\ UNCHANGED <<alive, sock, stalled, tables, writer, job, calls>>

CallbackReturns(c) ==
    /\ phase[c] = "onMessage" /\ Idle(Main(c))
    /\ Move(c, "reading")
    /\ UNCHANGED <<alive, sock, stalled, tables, writer, job, calls>>

\* callWebSocketCallback recovers the panic and the loop ends.
CallbackPanics(c) ==
    /\ phase[c] = "onMessage" /\ Idle(Main(c))
    /\ Move(c, "onClose")
    /\ UNCHANGED <<alive, sock, stalled, tables, writer, job, calls>>

\* The socket is closed; a peer that does not answer
\* pings runs into the read deadline.
ReadFails(c) ==
    /\ phase[c] = "reading"
    /\ ~sock[c] \/ c \in stalled
    /\ Move(c, "onClose")
    /\ UNCHANGED <<alive, sock, stalled, tables, writer, job, calls>>

\* cleanup: _on_close, if there is one, then every room, then the socket.
OnCloseReturns(c) ==
    /\ phase[c] = "onClose" /\ Idle(Main(c))
    /\ Move(c, "leaving")
    /\ UNCHANGED <<alive, sock, stalled, tables, writer, job, calls>>

\* MUTANT: the clean-up closes the socket only.
StaysInRooms(c) ==
    /\ phase[c] = "leaving"
    /\ subs' = [subs EXCEPT ![c] = {}]
    /\ Move(c, "closing")
    /\ UNCHANGED <<alive, sock, stalled, members, late, writer, job, calls>>

unsubscribeWebSocketFromAllChannels(c) ==
    /\ phase[c] = "leaving"
    /\ members' = [r \in Rooms |-> IF r \in subs[c] THEN members[r] \ {c} ELSE members[r]]
    /\ subs' = [subs EXCEPT ![c] = {}]
    /\ Move(c, "closing")
    /\ UNCHANGED <<alive, sock, stalled, late, writer, job, calls>>

\* lifecycle.close: the Once lets the first caller close the socket.
CloseLast(c) ==
    /\ phase[c] = "closing"
    /\ sock' = [sock EXCEPT ![c] = FALSE]
    /\ Move(c, "done")
    /\ UNCHANGED <<alive, stalled, tables, writer, job, calls>>

\* The goroutine that pings: it needs writeMu, its write has a deadline of ten
\* seconds and a failure closes the socket.
PingFails(c) ==
    /\ phase[c] \notin {"new", "done"} /\ sock[c]
    /\ writer[c] = None /\ c \in stalled
    /\ sock' = [sock EXCEPT ![c] = FALSE]
    /\ UNCHANGED <<alive, phase, stalled, tables, writer, job, calls>>

\* The other end stops reading and answering, or goes away.
PeerStalls(c) ==
    /\ phase[c] # "new" /\ c \notin stalled
    /\ stalled' = stalled \cup {c}
    /\ UNCHANGED <<alive, phase, sock, tables, writer, job, calls>>
PeerGoes(c) ==
    /\ phase[c] # "new" /\ sock[c]
    /\ sock' = [sock EXCEPT ![c] = FALSE]
    /\ UNCHANGED <<alive, phase, stalled, tables, writer, job, calls>>

-----------------------------------------------------------------------------
(* The methods, called by the handler, a callback or the task.               *)

MayCall(a) ==
    /\ Idle(a) /\ calls < MaxCalls
    /\ calls' = calls + 1
    /\ IF a = Main(Owner(a)) THEN phase[Owner(a)] \in {"setup", "onMessage", "onClose"}
                             ELSE phase[Owner(a)] # "new"

Without(r, c) ==
    /\ members' = [members EXCEPT ![r] = @ \ {c}]
    /\ subs' = [subs EXCEPT ![c] = @ \ {r}]

subscribe(a, r) ==
    LET c == Owner(a)
    IN /\ MayCall(a) /\ r \notin subs[c]
       /\ members' = [members EXCEPT ![r] = @ \cup {c}]
       /\ subs' = [subs EXCEPT ![c] = @ \cup {r}]
       /\ late' = IF phase[c] \in {"closing", "done"} THEN late \cup {c} ELSE late
       /\ UNCHANGED <<alive, phase, sock, stalled, writer, job>>

unsubscribe(a, r) ==
    /\ MayCall(a) /\ r \in subs[Owner(a)]
    /\ Without(r, Owner(a))
    /\ UNCHANGED <<alive, phase, sock, stalled, late, writer, job>>

close(a) ==
    /\ MayCall(a) /\ sock[Owner(a)]
    /\ sock' = [sock EXCEPT ![Owner(a)] = FALSE]
    /\ UNCHANGED <<alive, phase, stalled, tables, writer, job>>

Start(a, op, r, todo) ==
    job' = [job EXCEPT ![a] = [op |-> op, room |-> r, todo |-> todo, at |-> None, bad |-> None]]

sendOwn(a) ==
    /\ MayCall(a)
    /\ Start(a, "send", None, {Owner(a)})
    /\ UNCHANGED <<alive, phase, sock, stalled, tables, writer>>

\* The members are copied under the lock, without the publisher itself.
publish(a, r) ==
    /\ MayCall(a) /\ members[r] \ {Owner(a)} # {}
    /\ Start(a, "publish", r, members[r] \ {Owner(a)})
    /\ UNCHANGED <<alive, phase, sock, stalled, tables, writer>>

\* sender: it waits for the writeMu of the connection...
SenderLocks(a, m) ==
    /\ m \in job[a].todo /\ job[a].at = None /\ job[a].bad = None
    /\ writer[m] = None
    /\ writer' = [writer EXCEPT ![m] = a]
    /\ job' = [job EXCEPT ![a].todo = @ \ {m}, ![a].at = m]
    /\ UNCHANGED <<alive, phase, sock, stalled, tables, calls>>

\* MUTANT: writeMu is not released when the write fails.
WriterKeepsLock(a) ==
    LET m == job[a].at
    IN /\ m # None
       /\ ~sock[m] \/ m \notin stalled
       /\ writer' = IF ~sock[m] THEN writer ELSE [writer EXCEPT ![m] = None]
       /\ job' = [job EXCEPT ![a].at = None,
                             ![a].bad = IF ~sock[m] /\ job[a].op = "publish" THEN m ELSE None]
       /\ UNCHANGED <<alive, phase, sock, stalled, tables, calls>>

\* ... and writes, without a deadline: a peer that does not read keeps it there
\* until the socket is closed.  publish takes a member that fails out of the
\* room afterwards.
SenderWrites(a) ==
    LET m == job[a].at
    IN /\ m # None
       /\ ~sock[m] \/ m \notin stalled
       /\ writer' = [writer EXCEPT ![m] = None]
       /\ job' = [job EXCEPT ![a].at = None,
                             ![a].bad = IF ~sock[m] /\ job[a].op = "publish" THEN m ELSE None]
       /\ UNCHANGED <<alive, phase, sock, stalled, tables, calls>>

publishUnsubscribes(a) ==
    /\ job[a].bad # None
    /\ Without(job[a].room, job[a].bad)
    /\ job' = [job EXCEPT ![a].bad = None]
    /\ UNCHANGED <<alive, phase, sock, stalled, late, writer, calls>>

Returns(a) ==
    /\ ~Idle(a) /\ job[a].todo = {} /\ job[a].at = None /\ job[a].bad = None
    /\ job' = [job EXCEPT ![a] = NoJob]
    /\ UNCHANGED <<alive, phase, sock, stalled, tables, writer, calls>>

\* publish reads the Fields of a member without a lock while the handler, a
\* callback or the clean-up of that member writes them: the Go runtime may
\* find out and end the process, which leaves nothing.
FieldsRace(a, m) ==
    /\ job[a].op = "publish" /\ m \in job[a].todo /\ job[a].at = None /\ job[a].bad = None
    /\ \/ phase[m] \in {"setup", "onMessage", "onClose"} /\ Idle(Main(m))
       \/ phase[m] = "leaving"
    /\ alive' = FALSE
    /\ phase' = [c \in Conns |-> "done"]
    /\ sock' = [c \in Conns |-> FALSE]
    /\ stalled' = {}
    /\ members' = [r \in Rooms |-> {}]
    /\ subs' = [c \in Conns |-> {}]
    /\ writer' = [c \in Conns |-> None]
    /\ job' = [b \in Actors |-> NoJob]
    /\ calls' = MaxCalls
    /\ late' = {}

-----------------------------------------------------------------------------
ConnStep(c) ==
    \/ SetupReturns(c) \/ CallbackReturns(c) \/ ReadFails(c) \/ OnCloseReturns(c)
    \/ unsubscribeWebSocketFromAllChannels(c) \/ CloseLast(c) \/ PingFails(c)

JobStep(a) ==
    SenderWrites(a) \/ publishUnsubscribes(a) \/ Returns(a) \/ \E m \in Conns : SenderLocks(a, m)

RoomsNext ==
    /\ alive
    /\ \/ \E c \in Conns :
            \/ ConnStep(c) \/ Accept(c) \/ SetupFails(c) \/ Message(c) \/ CallbackPanics(c)
            \/ PeerStalls(c) \/ PeerGoes(c)
       \/ \E a \in Actors :
            \/ JobStep(a) \/ sendOwn(a) \/ close(a)
            \/ \E r \in Rooms : subscribe(a, r) \/ unsubscribe(a, r) \/ publish(a, r)
            \/ \E m \in Conns : FieldsRace(a, m)

\* Goroutines are scheduled, callbacks end and deadlines pass.
RoomsFairness ==
    /\ \A c \in Conns : WF_roomsVars(alive /\ ConnStep(c))
    /\ \A a \in Actors : WF_roomsVars(alive /\ JobStep(a))

RoomsSpec == RoomsInit /\ [][RoomsNext]_roomsVars /\ RoomsFairness

-----------------------------------------------------------------------------
(* Properties.                                                               *)

Jobs == [op : {"none", "send", "publish"}, room : Rooms \cup {None}, todo : SUBSET Conns,
         at : Conns \cup {None}, bad : Conns \cup {None}]
Phases == {"new", "setup", "reading", "onMessage", "onClose", "leaving", "closing", "done"}

\* Every variable has its type.
RoomsTypeOK ==
    /\ alive \in BOOLEAN
    /\ phase \in [Conns -> Phases]
    /\ sock \in [Conns -> BOOLEAN]
    /\ stalled \subseteq Conns
    /\ members \in [Rooms -> SUBSET Conns]
    /\ subs \in [Conns -> SUBSET Rooms]
    /\ writer \in [Conns -> Actors \cup {None}]
    /\ job \in [Actors -> Jobs]
    /\ late \subseteq Conns
    /\ calls \in 0..MaxCalls

\* The two tables that the lock protects agree, whoever subscribes, leaves or is
\* thrown out by a publisher, and a connection whose clean-up is over is in a
\* room only if its own task entered it afterwards.
RoomsAreConsistent ==
    /\ \A c \in Conns, r \in Rooms : c \in members[r] <=> r \in subs[c]
    /\ \A c \in Conns, r \in Rooms :
         c \in members[r] /\ phase[c] \in {"closing", "done"} => c \in late

\* The goroutine of a connection that does not read is itself in a call.
Stuck == \E c \in Conns : c \in stalled /\ sock[c] /\ ~Idle(Main(c))

\* publish and send return: a peer that does not read delays them only until
\* the read deadline of its connection, except while the goroutine of such a
\* connection waits in a call itself.
PublishReturns == \A a \in Actors : ~Idle(a) ~> Idle(a) \/ Stuck

=============================================================================
