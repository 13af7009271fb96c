--------------------------- MODULE JossSocketsProofs ---------------------------
(***************************************************************************)
(* The two kinds of WebSocket, for any number of connections, rooms,       *)
(* clients and messages.  JossRooms: the table of rooms and the            *)
(* subscriptions of the connections agree, and a connection that is over   *)
(* is in no room it did not enter afterwards.  JossHub: queues are closed  *)
(* once, and a client receives what was broadcast, in order and without a  *)
(* gap.                                                                    *)
(***************************************************************************)
EXTENDS MCJossSockets, SequenceTheorems, FiniteSetTheorems, TLAPS

--------------------------------------------------------------------------------
(* Rooms.                                                                  *)

\* Only a publisher takes members out of a room, and it knows which.
PublishersKnowTheirRoom ==
    \A a \in Actors :
        /\ job[a].op = "publish" => job[a].room \in Rooms
        /\ job[a].bad # None => job[a].op = "publish"

RoomsInv == RoomsTypeOK /\ PublishersKnowTheirRoom /\ RoomsAreConsistent

\* An actor is a goroutine of a connection.
LEMMA ActorsHaveOwners ==
    /\ \A c \in Conns : Main(c) \in Actors /\ Owner(Main(c)) = c
    /\ \A a \in Actors : Owner(a) \in Conns
    /\ NoJob \in Jobs
BY RoomsAssumption DEF Actors, Owner, Main, Task, NoJob, Jobs

LEMMA RoomsInvInit == RoomsInit => RoomsInv
BY RoomsAssumption, ActorsHaveOwners
DEF RoomsInit, RoomsInv, RoomsTypeOK, PublishersKnowTheirRoom, RoomsAreConsistent, Phases, NoJob

\* What the goroutine of a connection does.
LEMMA ConnectionsKeepRooms ==
    ASSUME RoomsInv, NEW c \in Conns,
           \/ ConnStep(c) \/ Accept(c) \/ SetupFails(c) \/ Message(c) \/ CallbackPanics(c)
           \/ PeerStalls(c) \/ PeerGoes(c)
    PROVE  RoomsInv'
<1> USE DEF RoomsInv, RoomsTypeOK, PublishersKnowTheirRoom, RoomsAreConsistent, tables, Move, Phases
<1>1. CASE SetupReturns(c) \/ CallbackReturns(c) \/ ReadFails(c) \/ OnCloseReturns(c)
  BY <1>1 DEF SetupReturns, CallbackReturns, ReadFails, OnCloseReturns
<1>2. CASE Accept(c) \/ SetupFails(c) \/ Message(c) \/ CallbackPanics(c)
  BY <1>2 DEF Accept, SetupFails, Message, CallbackPanics
<1>3. CASE PeerStalls(c) \/ PeerGoes(c) \/ PingFails(c)
  BY <1>3 DEF PeerStalls, PeerGoes, PingFails
<1>4. CASE CloseLast(c)
  BY <1>4 DEF CloseLast
<1>5. CASE unsubscribeWebSocketFromAllChannels(c)
  <2>1. members' \in [Rooms -> SUBSET Conns] /\ subs' \in [Conns -> SUBSET Rooms]
    BY <1>5 DEF unsubscribeWebSocketFromAllChannels
  <2>2. \A d \in Conns, r \in Rooms : d \in members'[r] <=> d \in members[r] /\ d # c
    BY <1>5 DEF unsubscribeWebSocketFromAllChannels
  <2>3. \A d \in Conns, r \in Rooms : r \in subs'[d] <=> r \in subs[d] /\ d # c
    BY <1>5 DEF unsubscribeWebSocketFromAllChannels
  <2>4. \A d \in Conns : d # c => phase'[d] = phase[d]
    BY <1>5 DEF unsubscribeWebSocketFromAllChannels
  <2>5. phase' \in [Conns -> Phases] /\ UNCHANGED <<alive, sock, stalled, late, writer, job, calls>>
    BY <1>5 DEF unsubscribeWebSocketFromAllChannels
  <2>6. QED
    BY <2>1, <2>2, <2>3, <2>4, <2>5
<1>6. QED
  BY <1>1, <1>2, <1>3, <1>4, <1>5 DEF ConnStep

\* What the methods of a socket do.
LEMMA MethodsKeepRooms ==
    ASSUME RoomsInv, NEW a \in Actors,
           \/ JobStep(a) \/ sendOwn(a) \/ close(a)
           \/ \E r \in Rooms : subscribe(a, r) \/ unsubscribe(a, r) \/ publish(a, r)
           \/ \E m \in Conns : FieldsRace(a, m)
    PROVE  RoomsInv'
<1> DEFINE c == Owner(a)
<1> USE RoomsAssumption, ActorsHaveOwners DEF RoomsInv, RoomsTypeOK, tables
<1>0. c \in Conns
  BY ActorsHaveOwners
<1>1. CASE SenderWrites(a)
  BY <1>1 DEF SenderWrites, Jobs, PublishersKnowTheirRoom, RoomsAreConsistent
<1>2. CASE Returns(a)
  BY <1>2 DEF Returns, NoJob, PublishersKnowTheirRoom, RoomsAreConsistent
<1>3. ASSUME NEW m \in Conns, SenderLocks(a, m) PROVE RoomsInv'
  BY <1>3 DEF SenderLocks, Jobs, PublishersKnowTheirRoom, RoomsAreConsistent
<1>4. CASE publishUnsubscribes(a)
  <2> DEFINE m == job[a].bad
             r == job[a].room
  <2>1. m \in Conns /\ r \in Rooms
    BY <1>4 DEF publishUnsubscribes, PublishersKnowTheirRoom, Jobs
  <2>2. members' \in [Rooms -> SUBSET Conns] /\ subs' \in [Conns -> SUBSET Rooms]
    BY <1>4, <2>1 DEF publishUnsubscribes, Without
  <2>3. \A d \in Conns, s \in Rooms : d \in members'[s] <=> d \in members[s] /\ <<d, s>> # <<m, r>>
    BY <1>4, <2>1 DEF publishUnsubscribes, Without
  <2>4. \A d \in Conns, s \in Rooms : s \in subs'[d] <=> s \in subs[d] /\ <<d, s>> # <<m, r>>
    BY <1>4, <2>1 DEF publishUnsubscribes, Without
  <2>5. job' \in [Actors -> Jobs] /\ PublishersKnowTheirRoom'
    BY <1>4 DEF publishUnsubscribes, Jobs, PublishersKnowTheirRoom
  <2>6. UNCHANGED <<alive, phase, sock, stalled, late, writer, calls>>
    BY <1>4 DEF publishUnsubscribes
  <2>7. QED
    BY <2>2, <2>3, <2>4, <2>5, <2>6 DEF RoomsAreConsistent
<1>5. CASE sendOwn(a)
  <2> DEFINE new == [op |-> "send", room |-> None, todo |-> {c}, at |-> None, bad |-> None]
  <2>1. new \in Jobs
    BY <1>0 DEF Jobs
  <2>2. job' = [job EXCEPT ![a] = new]
    BY <1>5 DEF sendOwn, Start
  <2>3. calls' \in 0..MaxCalls /\ UNCHANGED <<alive, phase, sock, stalled, members, subs, late, writer>>
    BY <1>5 DEF sendOwn, MayCall, Start
  <2>4. QED
    BY <2>1, <2>2, <2>3 DEF PublishersKnowTheirRoom, RoomsAreConsistent
<1>6. CASE close(a)
  BY <1>0, <1>6 DEF close, MayCall, PublishersKnowTheirRoom, RoomsAreConsistent
<1>7. ASSUME NEW r \in Rooms, subscribe(a, r) PROVE RoomsInv'
  <2>1. members' \in [Rooms -> SUBSET Conns] /\ subs' \in [Conns -> SUBSET Rooms]
    BY <1>0, <1>7 DEF subscribe
  <2>2. \A d \in Conns, s \in Rooms : d \in members'[s] <=> d \in members[s] \/ <<d, s>> = <<c, r>>
    BY <1>0, <1>7 DEF subscribe
  <2>3. \A d \in Conns, s \in Rooms : s \in subs'[d] <=> s \in subs[d] \/ <<d, s>> = <<c, r>>
    BY <1>0, <1>7 DEF subscribe
  <2>4. late' \subseteq Conns /\ late \subseteq late' /\ (phase[c] \in {"closing", "done"} => c \in late')
    BY <1>0, <1>7 DEF subscribe
  <2>5. calls' \in 0..MaxCalls /\ UNCHANGED <<alive, phase, sock, stalled, writer, job>>
    BY <1>7 DEF subscribe, MayCall
  <2>6. PublishersKnowTheirRoom'
    BY <2>5 DEF PublishersKnowTheirRoom
  <2>7. RoomsAreConsistent'
    BY <2>2, <2>3, <2>4, <2>5 DEF RoomsAreConsistent
  <2>8. QED
    BY <2>1, <2>4, <2>5, <2>6, <2>7
<1>8. ASSUME NEW r \in Rooms, unsubscribe(a, r) PROVE RoomsInv'
  <2>1. members' \in [Rooms -> SUBSET Conns] /\ subs' \in [Conns -> SUBSET Rooms]
    BY <1>0, <1>8 DEF unsubscribe, Without
  <2>2. \A d \in Conns, s \in Rooms : d \in members'[s] <=> d \in members[s] /\ <<d, s>> # <<c, r>>
    BY <1>0, <1>8 DEF unsubscribe, Without
  <2>3. \A d \in Conns, s \in Rooms : s \in subs'[d] <=> s \in subs[d] /\ <<d, s>> # <<c, r>>
    BY <1>0, <1>8 DEF unsubscribe, Without
  <2>4. calls' \in 0..MaxCalls /\ UNCHANGED <<alive, phase, sock, stalled, late, writer, job>>
    BY <1>8 DEF unsubscribe, MayCall
  <2>5. PublishersKnowTheirRoom'
    BY <2>4 DEF PublishersKnowTheirRoom
  <2>6. RoomsAreConsistent'
    BY <2>2, <2>3, <2>4 DEF RoomsAreConsistent
  <2>7. QED
    BY <2>1, <2>4, <2>5, <2>6
<1>9. ASSUME NEW r \in Rooms, publish(a, r) PROVE RoomsInv'
  <2> DEFINE new == [op |-> "publish", room |-> r, todo |-> members[r] \ {c}, at |-> None, bad |-> None]
  <2>1. new \in Jobs
    BY <1>0 DEF Jobs
  <2>2. job' = [job EXCEPT ![a] = new]
    BY <1>9 DEF publish, Start
  <2>3. calls' \in 0..MaxCalls /\ UNCHANGED <<alive, phase, sock, stalled, members, subs, late, writer>>
    BY <1>9 DEF publish, MayCall
  <2>4. QED
    BY <2>1, <2>2, <2>3 DEF PublishersKnowTheirRoom, RoomsAreConsistent
<1>10. ASSUME NEW m \in Conns, FieldsRace(a, m) PROVE RoomsInv'
  <2>1. NoJob.op = "none" /\ NoJob.bad = None /\ job' = [b \in Actors |-> NoJob]
    BY <1>10 DEF FieldsRace, NoJob
  <2>2. PublishersKnowTheirRoom'
    BY <2>1 DEF PublishersKnowTheirRoom
  <2>3. members' = [r \in Rooms |-> {}] /\ subs' = [d \in Conns |-> {}] /\ late' = {}
    BY <1>10 DEF FieldsRace
  <2>4. RoomsAreConsistent'
    BY <2>3 DEF RoomsAreConsistent
  <2>5. /\ alive' = FALSE /\ phase' = [d \in Conns |-> "done"] /\ sock' = [d \in Conns |-> FALSE]
        /\ stalled' = {} /\ writer' = [d \in Conns |-> None] /\ calls' = MaxCalls
    BY <1>10 DEF FieldsRace
  <2>7. RoomsTypeOK'
    <3>1. job' \in [Actors -> Jobs] /\ calls' \in 0..MaxCalls /\ late' \subseteq Conns
      BY <2>1, <2>3, <2>5
    <3>2. phase' \in [Conns -> Phases] /\ members' \in [Rooms -> SUBSET Conns] /\ subs' \in [Conns -> SUBSET Rooms]
      BY <2>3, <2>5 DEF Phases
    <3>3. QED
      BY <2>5, <3>1, <3>2
  <2>6. QED
    BY <2>2, <2>4, <2>7
<1>11. QED
  BY <1>1, <1>2, <1>3, <1>4, <1>5, <1>6, <1>7, <1>8, <1>9, <1>10 DEF JobStep

LEMMA RoomsInvStep == RoomsInv /\ [RoomsNext]_roomsVars => RoomsInv'
<1> SUFFICES ASSUME RoomsInv, [RoomsNext]_roomsVars PROVE RoomsInv'
  OBVIOUS
<1>1. CASE RoomsNext
  BY <1>1, ConnectionsKeepRooms, MethodsKeepRooms DEF RoomsNext
<1>2. CASE UNCHANGED roomsVars
  BY <1>2 DEF roomsVars, RoomsInv, RoomsTypeOK, PublishersKnowTheirRoom, RoomsAreConsistent
<1>3. QED
  BY <1>1, <1>2

\* Every variable of JossRooms has its type.
THEOREM RoomsAreTyped == RoomsSpec => []RoomsTypeOK
<1>1. RoomsInv => RoomsTypeOK
  BY DEF RoomsInv
<1>2. QED
  BY <1>1, RoomsInvInit, RoomsInvStep, PTL DEF RoomsSpec

\* Who is in a room and what a connection is subscribed to agree, and a
\* connection whose clean-up is over is in a room only if its own task entered
\* it afterwards (websocket.go, dispatcher.go).
THEOREM RoomsForget == RoomsSpec => []RoomsAreConsistent
<1>1. RoomsInv => RoomsAreConsistent
  BY DEF RoomsInv
<1>2. QED
  BY <1>1, RoomsInvInit, RoomsInvStep, PTL DEF RoomsSpec

--------------------------------------------------------------------------------
(* The hub.                                                                *)

Messages == 1..MaxBroadcasts

HubTypes ==
    /\ HubTypeOK
    /\ log \in Seq(Messages)
    /\ send \in [Clients -> Seq(Messages)]
    /\ out \in [Clients -> Seq(Messages)]
    /\ got \in [Clients -> Seq(Messages)]
    /\ Len(log) + Cardinality(waiting) <= MaxBroadcasts

\* q is what follows the first `from' messages of the log l.
Follows(q, l, from) == from + Len(q) <= Len(l) /\ \A i \in 1..Len(q) : q[i] = l[from + i]

\* What a client has received, is being written and is queued, by its place in
\* the log.
Written(c) == joined[c] + Len(got[c])
Queued(c)  == Written(c) + Len(out[c])

InPlace(c) ==
    /\ joined[c] <= Len(log)
    /\ Follows(got[c], log, joined[c])
    /\ pump[c] # "done" =>
         /\ Follows(out[c], log, Written(c)) /\ Follows(send[c], log, Queued(c))
         /\ c \in clients => Queued(c) + Len(send[c]) = Len(log) - (IF c \in turn THEN 1 ELSE 0)

\* Where the goroutines of a client are and what it has go together.
AtHome(c) ==
    /\ c \in clients => reader[c] \in {"reading", "unregistering"}
    /\ reader[c] \in {"new", "registering"} =>
         pump[c] = "off" /\ got[c] = <<>> /\ out[c] = <<>> /\ send[c] = <<>>
    /\ pump[c] = "select" => out[c] = <<>>
    /\ c \in turn => joined[c] < Len(log)

\* The message of a broadcast in progress is the last of the log.
Broadcasting ==
    /\ message = 0 => turn = {}
    /\ message # 0 => Len(log) > 0 /\ message = log[Len(log)]

HubInv ==
    /\ HubTypes /\ QueuesAreClosedOnce /\ Broadcasting
    /\ \A c \in Clients : InPlace(c) /\ AtHome(c)

LEMMA HubInvInit == HubInit => HubInv
<1> SUFFICES ASSUME HubInit PROVE HubInv
  OBVIOUS
<1> USE HubAssumption DEF HubInit
<1>1. Cardinality(waiting) = 0
  BY FS_EmptySet
<1>2. HubTypes
  BY <1>1 DEF HubTypes, HubTypeOK
<1>3. QueuesAreClosedOnce /\ Broadcasting
  BY DEF QueuesAreClosedOnce, Broadcasting
<1>4. \A c \in Clients : InPlace(c) /\ AtHome(c)
  BY DEF InPlace, AtHome, Follows, Written, Queued
<1>5. QED
  BY <1>2, <1>3, <1>4 DEF HubInv

\* The messages of waiting calls and of the log are within the bound.
LEMMA WaitingIsFinite ==
    ASSUME HubTypes
    PROVE  /\ IsFiniteSet(waiting) /\ Cardinality(waiting) \in Nat
           /\ \A k \in waiting : Cardinality(waiting \ {k}) = Cardinality(waiting) - 1
           /\ \A k : Cardinality(waiting \cup {k}) <= Cardinality(waiting) + 1
<1>1. IsFiniteSet(waiting)
  <2>1. IsFiniteSet(1..MaxBroadcasts)
    BY HubAssumption, FS_Interval
  <2>2. waiting \in SUBSET (1..MaxBroadcasts)
    BY DEF HubTypes, HubTypeOK
  <2>3. QED
    BY <2>1, <2>2, FS_Subset
<1>2. Cardinality(waiting) \in Nat
  BY <1>1, FS_CardinalityType
<1>3. ASSUME NEW k \in waiting PROVE Cardinality(waiting \ {k}) = Cardinality(waiting) - 1
  BY <1>1, FS_RemoveElement
<1>4. ASSUME NEW k PROVE Cardinality(waiting \cup {k}) <= Cardinality(waiting) + 1
  BY <1>1, <1>2, FS_AddElement
<1>5. QED
  BY <1>1, <1>2, <1>3, <1>4

\* Every step of the hub and of the handlers keeps the types.
LEMMA HubTypesStep == HubTypes /\ Broadcasting /\ [HubNext]_hubVars => HubTypes'
<1> SUFFICES ASSUME HubTypes, Broadcasting, [HubNext]_hubVars PROVE HubTypes'
  OBVIOUS
<1>a. /\ Cardinality(waiting) \in Nat /\ Len(log) \in Nat
      /\ \A k \in waiting : Cardinality(waiting \ {k}) = Cardinality(waiting) - 1
      /\ Len(log) + Cardinality(waiting) <= MaxBroadcasts
  BY WaitingIsFinite, LenProperties DEF HubTypes
<1>b. /\ send \in [Clients -> Seq(Messages)]
      /\ \A d \in Clients : Len(send[d]) \in Nat /\ Len(send[d]) <= SendBuffer
  BY LenProperties DEF HubTypes, HubTypeOK
<1>c. SendBuffer \in Nat /\ MaxBroadcasts \in Nat
  BY HubAssumption
<1> USE HubAssumption DEF HubTypes, HubTypeOK, hubState, writerState, Messages
<1>1. ASSUME NEW c \in Clients, ServeWs(c) PROVE HubTypes'
  BY <1>1 DEF ServeWs
<1>2. CASE Broadcast
  <2> DEFINE k == Len(log) + Cardinality(waiting) + 1
  <2>1. k \in Messages /\ waiting' = waiting \cup {k}
    BY <1>2, WaitingIsFinite DEF Broadcast
  <2>2. Len(log) + Cardinality(waiting') <= MaxBroadcasts
    <3>1. Cardinality(waiting') <= Cardinality(waiting) + 1
      BY <2>1, WaitingIsFinite
    <3>2. Cardinality(waiting') \in Nat
      BY <2>1, WaitingIsFinite, FS_AddElement, FS_CardinalityType
    <3>3. QED
      BY <1>2, <3>1, <3>2, WaitingIsFinite DEF Broadcast
  <2>3. UNCHANGED <<hubState, reader, send, conn, writerState>>
    BY <1>2 DEF Broadcast
  <2>4. QED
    BY <2>1, <2>2, <2>3
<1>3. ASSUME NEW c \in Clients, HubRegister(c) PROVE HubTypes'
  <2>1. Len(log) \in 0..MaxBroadcasts
    BY ONLY <1>a, <1>c
  <2>2. clients' \subseteq Clients /\ joined' \in [Clients -> 0..MaxBroadcasts]
    BY <1>3, <2>1 DEF HubRegister
  <2>3. QED
    BY <1>3, <2>2 DEF HubRegister
<1>4. ASSUME NEW c \in Clients, HubUnregister(c) PROVE HubTypes'
  BY <1>4 DEF HubUnregister
<1>5. ASSUME NEW k \in waiting, HubBroadcast(k) PROVE HubTypes'
  <2>1. waiting' = waiting \ {k} /\ log' = Append(log, k) /\ k \in Messages
    BY <1>5 DEF HubBroadcast
  <2>2. log' \in Seq(Messages) /\ Len(log') = Len(log) + 1
    BY <2>1
  <2>3. Len(log') + Cardinality(waiting') <= MaxBroadcasts
    BY ONLY <1>5, <1>a, <1>c, <2>1, <2>2
  <2>4. /\ message' = k /\ turn' = clients
        /\ UNCHANGED <<clients, reader, send, closes, joined, conn, writerState>>
    BY <1>5 DEF HubBroadcast
  <2>5. QED
    BY <2>1, <2>2, <2>3, <2>4
<1>6. ASSUME NEW c \in Clients, Offer(c) PROVE HubTypes'
  <2>1. /\ turn' = turn \ {c} /\ clients' \subseteq clients
        /\ UNCHANGED <<message, waiting, reader, conn, log, joined, writerState>>
    BY <1>6 DEF Offer
  <2>2. closes' \in [Clients -> Nat]
    <3>1. closes' = closes \/ closes' = [closes EXCEPT ![c] = @ + 1]
      BY <1>6 DEF Offer
    <3>2. closes \in [Clients -> Nat]
      OBVIOUS
    <3>3. QED
      BY ONLY <3>1, <3>2
  <2>3. send' \in [Clients -> Seq(Messages)] /\ \A d \in Clients : Len(send'[d]) <= SendBuffer
    <3>1. CASE Len(send[c]) < SendBuffer
      <4>1. message \in Messages
        BY <1>6 DEF Offer, Broadcasting
      <4>2. Append(send[c], message) \in Seq(Messages) /\ Len(Append(send[c], message)) = Len(send[c]) + 1
        BY <4>1
      <4>3. send' = [send EXCEPT ![c] = Append(@, message)]
        BY <1>6, <3>1 DEF Offer
      <4>4. QED
        BY ONLY <1>b, <1>c, <3>1, <4>2, <4>3
    <3>2. CASE ~(Len(send[c]) < SendBuffer)
      BY <1>6, <3>2 DEF Offer
    <3>3. QED
      BY <3>1, <3>2
  <2>4. QED
    BY <2>1, <2>2, <2>3
<1>7. CASE BroadcastEnds
  BY <1>7 DEF BroadcastEnds
<1>8. ASSUME NEW c \in Clients, ReaderStep(c) PROVE HubTypes'
  BY <1>8 DEF ReaderStep, PumpReadFails, ReaderCloses
<1>9. ASSUME NEW c \in Clients, PumpTakes(c) PROVE HubTypes'
  <2>1. /\ send' = [send EXCEPT ![c] = Tail(@)]
        /\ Head(send[c]) \in Messages /\ Tail(send[c]) \in Seq(Messages)
        /\ Len(Tail(send[c])) = Len(send[c]) - 1
    BY <1>9, HeadTailProperties DEF PumpTakes
  <2>2. send' \in [Clients -> Seq(Messages)] /\ \A d \in Clients : Len(send'[d]) <= SendBuffer
    BY ONLY <1>b, <1>c, <2>1
  <2>3. pump' \in [Clients -> {"off", "select", "message", "done"}] /\ conn' \in [Clients -> BOOLEAN]
    BY <1>9 DEF PumpTakes, WriterLeaves
  <2>4. out' \in [Clients -> Seq(Messages)]
    <3>1. out' = out \/ out' = [out EXCEPT ![c] = <<Head(send[c])>>]
      BY <1>9 DEF PumpTakes
    <3>2. <<Head(send[c])>> \in Seq(Messages)
      BY ONLY <2>1
    <3>3. QED
      BY <3>1, <3>2
  <2>5. UNCHANGED <<hubState, waiting, reader, got>>
    BY <1>9 DEF PumpTakes
  <2>6. more' \in [Clients -> -1..SendBuffer]
    <3>1. more' = more \/ more' = [more EXCEPT ![c] = -1]
      BY <1>9 DEF PumpTakes
    <3>2. -1 \in -1..SendBuffer /\ more \in [Clients -> -1..SendBuffer]
      BY <1>c
    <3>3. QED
      BY ONLY <3>1, <3>2
  <2>7. QED
    BY <2>2, <2>3, <2>4, <2>5, <2>6
<1>10. ASSUME NEW c \in Clients, PumpCounts(c) PROVE HubTypes'
  BY <1>10 DEF PumpCounts
<1>11. ASSUME NEW c \in Clients, PumpAdds(c) PROVE HubTypes'
  <2>1. /\ send' = [send EXCEPT ![c] = Tail(@)] /\ out' = [out EXCEPT ![c] = Append(@, Head(send[c]))]
        /\ Head(send[c]) \in Messages /\ Tail(send[c]) \in Seq(Messages)
        /\ Len(Tail(send[c])) = Len(send[c]) - 1
    BY <1>11, HeadTailProperties DEF PumpAdds
  <2>2. send' \in [Clients -> Seq(Messages)] /\ \A d \in Clients : Len(send'[d]) <= SendBuffer
    BY ONLY <1>b, <1>c, <2>1
  <2>3. out' \in [Clients -> Seq(Messages)]
    BY <2>1
  <2>4. more' \in [Clients -> -1..SendBuffer] /\ UNCHANGED <<hubState, waiting, reader, pump, conn, got>>
    BY <1>11 DEF PumpAdds
  <2>5. QED
    BY <2>2, <2>3, <2>4
<1>12. ASSUME NEW c \in Clients, PumpFlushes(c) PROVE HubTypes'
  <2>1. got[c] \o out[c] \in Seq(Messages) /\ <<>> \in Seq(Messages)
    BY ConcatProperties
  <2>2. got' \in [Clients -> Seq(Messages)] /\ out' \in [Clients -> Seq(Messages)]
    BY <1>12, <2>1 DEF PumpFlushes
  <2>3. /\ pump' \in [Clients -> {"off", "select", "message", "done"}] /\ conn' \in [Clients -> BOOLEAN]
        /\ UNCHANGED <<hubState, waiting, reader, send, more>>
    BY <1>12 DEF PumpFlushes, WriterLeaves
  <2>4. QED
    BY <2>2, <2>3
<1>13. ASSUME NEW c \in Clients, PumpSeesClose(c) \/ PumpPingFails(c) PROVE HubTypes'
  BY <1>13 DEF PumpSeesClose, PumpPingFails, WriterLeaves
<1>14. ASSUME NEW c \in Clients, SocketBreaks(c) PROVE HubTypes'
  BY <1>14 DEF SocketBreaks
<1>15. CASE UNCHANGED hubVars
  BY <1>15 DEF hubVars
<1>16. QED
  BY <1>1, <1>2, <1>3, <1>4, <1>5, <1>6, <1>7, <1>8, <1>9, <1>10, <1>11, <1>12, <1>13, <1>14, <1>15
  DEF HubNext, HubStep, PumpStep

\* What is in front of a queue, and behind it.
LEMMA InFront ==
    ASSUME NEW a \in Nat, NEW b \in Nat, NEW c \in Nat
    PROVE  a + (b + c) = (a + b) + c
OBVIOUS

\* Queues that follow the log: a message taken out, added, joined to what was
\* there, and a log that grows.
LEMMA FollowsEmpty ==
    ASSUME NEW l \in Seq(Messages), NEW n \in Nat, n <= Len(l)
    PROVE  Follows(<<>>, l, n)
BY DEF Follows

LEMMA FollowsTaken ==
    ASSUME NEW l \in Seq(Messages), NEW q \in Seq(Messages), q # <<>>, NEW n \in Nat, Follows(q, l, n)
    PROVE  /\ Len(q) > 0 /\ n + 1 <= Len(l)
           /\ Head(q) = l[n + 1] /\ Follows(Tail(q), l, n + 1) /\ Follows(<<Head(q)>>, l, n)
<1>1. /\ Head(q) \in Messages /\ Tail(q) \in Seq(Messages) /\ Len(Tail(q)) = Len(q) - 1
      /\ \A i \in 1..Len(Tail(q)) : Tail(q)[i] = q[i + 1]
  BY ONLY HeadTailProperties, q \in Seq(Messages), q # <<>>
<1>2. Len(q) \in Nat /\ Len(l) \in Nat /\ Len(q) > 0 /\ Head(q) = q[1]
  OBVIOUS
<1>3. Head(q) = l[n + 1] /\ n + 1 <= Len(l)
  BY <1>2 DEF Follows
<1>4. Follows(Tail(q), l, n + 1)
  <2>1. (n + 1) + Len(Tail(q)) <= Len(l)
    BY <1>1, <1>2 DEF Follows
  <2>2. ASSUME NEW i \in 1..Len(Tail(q)) PROVE Tail(q)[i] = l[(n + 1) + i]
    <3>1. i + 1 \in 1..Len(q) /\ n + (i + 1) = (n + 1) + i
      BY <1>1, <1>2
    <3>2. QED
      BY <1>1, <3>1 DEF Follows
  <2>3. QED
    BY <2>1, <2>2 DEF Follows
<1>5. Follows(<<Head(q)>>, l, n)
  BY <1>3 DEF Follows
<1>6. QED
  BY <1>2, <1>3, <1>4, <1>5

LEMMA FollowsAdded ==
    ASSUME NEW l \in Seq(Messages), NEW q \in Seq(Messages), NEW n \in Nat, Follows(q, l, n),
           n + Len(q) < Len(l), NEW m \in Messages, m = l[n + Len(q) + 1]
    PROVE  Follows(Append(q, m), l, n) /\ Len(Append(q, m)) = Len(q) + 1
<1>1. /\ Len(Append(q, m)) = Len(q) + 1 /\ Append(q, m)[Len(q) + 1] = m
      /\ \A i \in 1..Len(q) : Append(q, m)[i] = q[i]
  BY ONLY AppendProperties, q \in Seq(Messages), m \in Messages
<1>2. Len(q) \in Nat /\ Len(l) \in Nat
  OBVIOUS
<1>3. ASSUME NEW i \in 1..(Len(q) + 1) PROVE Append(q, m)[i] = l[n + i]
  <2>1. CASE i \in 1..Len(q)
    BY <1>1, <2>1 DEF Follows
  <2>2. CASE i = Len(q) + 1
    BY <1>1, <1>2, <2>2
  <2>3. QED
    BY <1>2, <2>1, <2>2
<1>4. n + (Len(q) + 1) <= Len(l)
  BY <1>2
<1>5. QED
  BY ONLY <1>1, <1>3, <1>4 DEF Follows

\* Two queues in a row, the second behind the first.
Joined(p, q) == p \o q

LEMMA FollowsJoined ==
    ASSUME NEW l \in Seq(Messages), NEW p \in Seq(Messages), NEW q \in Seq(Messages), NEW n \in Nat, NEW k \in Nat,
           k = n + Len(p), Follows(p, l, n), Follows(q, l, k)
    PROVE  /\ Joined(p, q) \in Seq(Messages) /\ Follows(Joined(p, q), l, n)
           /\ Len(Joined(p, q)) = Len(p) + Len(q)
<1> DEFINE w == Joined(p, q)
<1>1. /\ w \in Seq(Messages) /\ Len(w) = Len(p) + Len(q)
      /\ \A i \in 1..(Len(p) + Len(q)) : w[i] = IF i <= Len(p) THEN p[i] ELSE q[i - Len(p)]
  BY ONLY ConcatProperties, p \in Seq(Messages), q \in Seq(Messages) DEF Joined
<1> HIDE DEF w
<1>2. Len(p) \in Nat /\ Len(q) \in Nat /\ Len(l) \in Nat
  OBVIOUS
<1>3. ASSUME NEW i \in 1..(Len(p) + Len(q)) PROVE w[i] = l[n + i]
  <2>1. CASE i <= Len(p)
    BY <1>1, <1>2, <2>1 DEF Follows
  <2>2. CASE ~(i <= Len(p))
    <3>1. i - Len(p) \in 1..Len(q) /\ k + (i - Len(p)) = n + i
      BY <1>2, <2>2
    <3>2. QED
      BY <1>1, <2>2, <3>1 DEF Follows
  <2>3. QED
    BY <2>1, <2>2
<1>4. n + (Len(p) + Len(q)) <= Len(l)
  BY <1>2 DEF Follows
<1>5. QED
  BY ONLY <1>1, <1>3, <1>4 DEF Follows, w

LEMMA FollowsLonger ==
    ASSUME NEW l \in Seq(Messages), NEW q \in Seq(Messages), NEW n \in Nat, Follows(q, l, n), NEW m \in Messages
    PROVE  Follows(q, Append(l, m), n)
<1>1. Len(Append(l, m)) = Len(l) + 1 /\ \A i \in 1..Len(l) : Append(l, m)[i] = l[i]
  BY ONLY AppendProperties, l \in Seq(Messages), m \in Messages
<1>2. Len(q) \in Nat /\ Len(l) \in Nat
  OBVIOUS
<1>3. ASSUME NEW i \in 1..Len(q) PROVE q[i] = Append(l, m)[n + i]
  <2>1. n + i \in 1..Len(l)
    BY <1>2 DEF Follows
  <2>2. QED
    BY <1>1, <2>1 DEF Follows
<1>4. QED
  BY <1>1, <1>2, <1>3 DEF Follows

\* A client that a step leaves alone, in a log that it leaves alone.
LEMMA Untouched ==
    ASSUME NEW d \in Clients, InPlace(d), AtHome(d), log' = log, joined'[d] = joined[d],
           got'[d] = got[d], out'[d] = out[d], send'[d] = send[d], pump'[d] = pump[d],
           reader'[d] = reader[d], d \in clients' <=> d \in clients, d \in turn' <=> d \in turn
    PROVE  InPlace(d)' /\ AtHome(d)'
BY DEF InPlace, AtHome, Written, Queued, Follows

\* The types of what belongs to one client.
LEMMA ClientTypes ==
    ASSUME HubTypes, NEW c \in Clients
    PROVE  /\ log \in Seq(Messages) /\ Len(log) \in Nat
           /\ joined[c] \in Nat /\ got[c] \in Seq(Messages) /\ out[c] \in Seq(Messages)
           /\ send[c] \in Seq(Messages) /\ Len(got[c]) \in Nat /\ Len(out[c]) \in Nat /\ Len(send[c]) \in Nat
           /\ Written(c) \in Nat /\ Queued(c) \in Nat
<1>1. log \in Seq(Messages) /\ joined[c] \in Nat /\ got[c] \in Seq(Messages) /\ out[c] \in Seq(Messages)
      /\ send[c] \in Seq(Messages)
  BY HubAssumption DEF HubTypes, HubTypeOK
<1>2. Len(log) \in Nat /\ Len(got[c]) \in Nat /\ Len(out[c]) \in Nat /\ Len(send[c]) \in Nat
  BY ONLY <1>1
<1>3. QED
  BY ONLY <1>1, <1>2 DEF Written, Queued

\* Every step keeps the queues closed at most once and what a broadcast in
\* progress knows.
LEMMA HubClosesStep ==
    ASSUME HubInv, [HubNext]_hubVars
    PROVE  QueuesAreClosedOnce' /\ Broadcasting'
<1>a. clients \subseteq Clients /\ turn \subseteq Clients /\ closes \in [Clients -> Nat]
  BY DEF HubInv, HubTypes, HubTypeOK
<1>b. /\ reader \in [Clients -> {"new", "registering", "reading", "unregistering", "closing", "done"}]
      /\ log \in Seq(Messages) /\ waiting \subseteq Messages
  BY DEF HubInv, HubTypes, HubTypeOK, Messages
<1>c. QueuesAreClosedOnce /\ Broadcasting /\ \A c \in clients : reader[c] \in {"reading", "unregistering"}
  BY <1>a DEF HubInv, AtHome
<1> USE <1>a, <1>b, <1>c DEF QueuesAreClosedOnce, Broadcasting, hubState, writerState
<1>1. ASSUME NEW c \in Clients, HubRegister(c) PROVE QueuesAreClosedOnce' /\ Broadcasting'
  BY <1>1 DEF HubRegister, AtSelect
<1>2. ASSUME NEW c \in Clients, HubUnregister(c) PROVE QueuesAreClosedOnce' /\ Broadcasting'
  BY <1>2 DEF HubUnregister, AtSelect
<1>3. ASSUME NEW k \in waiting, HubBroadcast(k) PROVE QueuesAreClosedOnce' /\ Broadcasting'
  <2>1. k \in Messages /\ k # 0
    BY <1>3 DEF Messages
  <2>2. Len(Append(log, k)) = Len(log) + 1 /\ Append(log, k)[Len(log) + 1] = k /\ Len(log) \in Nat
    BY ONLY AppendProperties, log \in Seq(Messages), <1>b, <2>1
  <2>3. QED
    BY <1>3, <2>1, <2>2 DEF HubBroadcast
<1>4. ASSUME NEW c \in Clients, Offer(c) PROVE QueuesAreClosedOnce' /\ Broadcasting'
  BY <1>4 DEF Offer
<1>5. CASE BroadcastEnds
  BY <1>5 DEF BroadcastEnds
<1>6. CASE Broadcast
  BY <1>6 DEF Broadcast
<1>7. ASSUME NEW c \in Clients, ServeWs(c) \/ ReaderStep(c) PROVE QueuesAreClosedOnce' /\ Broadcasting'
  BY <1>7 DEF ServeWs, ReaderStep, PumpReadFails, ReaderCloses
<1>8. ASSUME NEW c \in Clients, PumpStep(c) \/ SocketBreaks(c) PROVE QueuesAreClosedOnce' /\ Broadcasting'
  BY <1>8 DEF PumpStep, PumpTakes, PumpCounts, PumpAdds, PumpFlushes, PumpSeesClose, PumpPingFails, SocketBreaks
<1>9. CASE UNCHANGED hubVars
  BY <1>9 DEF hubVars
<1>10. QED
  BY <1>1, <1>2, <1>3, <1>4, <1>5, <1>6, <1>7, <1>8, <1>9 DEF HubNext, HubStep

\* Every step of the hub keeps every client in its place.
LEMMA HubKeepsPlaces ==
    ASSUME HubInv, HubStep, NEW d \in Clients
    PROVE  InPlace(d)' /\ AtHome(d)'
<1>a. /\ InPlace(d) /\ AtHome(d) /\ QueuesAreClosedOnce /\ Broadcasting /\ HubTypes
      /\ clients \subseteq Clients /\ turn \subseteq clients
  BY DEF HubInv, HubTypes, HubTypeOK, QueuesAreClosedOnce
<1>b. /\ log \in Seq(Messages) /\ Len(log) \in Nat /\ joined[d] \in Nat /\ Len(got[d]) \in Nat
      /\ Len(out[d]) \in Nat /\ Len(send[d]) \in Nat /\ Written(d) \in Nat /\ Queued(d) \in Nat
      /\ got[d] \in Seq(Messages) /\ out[d] \in Seq(Messages) /\ send[d] \in Seq(Messages)
  BY <1>a, ClientTypes
<1>c. /\ joined \in [Clients -> Nat] /\ send \in [Clients -> Seq(Messages)]
      /\ reader \in [Clients -> {"new", "registering", "reading", "unregistering", "closing", "done"}]
      /\ pump \in [Clients -> {"off", "select", "message", "done"}]
      /\ waiting \subseteq Messages /\ message \in 0..MaxBroadcasts
  BY HubAssumption DEF HubInv, HubTypes, HubTypeOK, Messages
<1>1. ASSUME NEW c \in Clients, HubRegister(c) PROVE InPlace(d)' /\ AtHome(d)'
  <2>1. /\ log' = log /\ got' = got /\ out' = out /\ send' = send /\ turn' = {} /\ turn = {}
        /\ clients' = clients \cup {c} /\ reader[c] = "registering"
        /\ joined' = [joined EXCEPT ![c] = Len(log)] /\ reader' = [reader EXCEPT ![c] = "reading"]
        /\ pump' = [pump EXCEPT ![c] = "select"]
    BY <1>1, <1>a DEF HubRegister, AtSelect, Broadcasting
  <2>2. CASE d # c
    BY ONLY <1>a, <1>c, <2>1, <2>2, Untouched, d \in Clients
  <2>3. CASE d = c
    <3>1. got[d] = <<>> /\ out[d] = <<>> /\ send[d] = <<>>
      BY <1>a, <2>1, <2>3 DEF AtHome
    <3>2. joined'[d] = Len(log) /\ reader'[d] = "reading" /\ pump'[d] = "select"
      BY <1>c, <2>1, <2>3
    <3>3. Follows(<<>>, log, Len(log))
      BY <1>b, FollowsEmpty
    <3>4. InPlace(d)'
      BY <1>b, <2>1, <3>1, <3>2, <3>3 DEF InPlace, Written, Queued
    <3>5. AtHome(d)'
      BY <2>1, <3>1, <3>2 DEF AtHome
    <3>6. QED
      BY <3>4, <3>5
  <2>4. QED
    BY <2>2, <2>3
<1>2. ASSUME NEW c \in Clients, HubUnregister(c) PROVE InPlace(d)' /\ AtHome(d)'
  <2>1. /\ UNCHANGED <<log, got, out, send, pump, joined, turn>> /\ turn = {}
        /\ clients' = clients \ {c} /\ reader' = [reader EXCEPT ![c] = "closing"]
    BY <1>2, <1>a DEF HubUnregister, AtSelect, Broadcasting, writerState
  <2>2. CASE d # c
    BY ONLY <1>a, <1>c, <2>1, <2>2, Untouched, d \in Clients
  <2>3. CASE d = c
    BY <1>a, <1>c, <2>1, <2>3 DEF InPlace, AtHome, Written, Queued, Follows
  <2>4. QED
    BY <2>2, <2>3
<1>3. ASSUME NEW k \in waiting, HubBroadcast(k) PROVE InPlace(d)' /\ AtHome(d)'
  <2>1. /\ UNCHANGED <<got, out, send, pump, joined, clients, reader>>
        /\ log' = Append(log, k) /\ turn' = clients /\ turn = {} /\ k \in Messages
    BY <1>3, <1>a, <1>c DEF HubBroadcast, AtSelect, Broadcasting, writerState
  <2>2. Len(log') = Len(log) + 1
    BY ONLY AppendProperties, <1>b, <2>1
  <2>3. Follows(got[d], log', joined[d])
    BY <1>a, <1>b, <2>1, FollowsLonger DEF InPlace
  <2>4. pump[d] # "done" => Follows(out[d], log', Written(d)) /\ Follows(send[d], log', Queued(d))
    BY <1>a, <1>b, <2>1, FollowsLonger DEF InPlace
  <2>5. Written(d)' = Written(d) /\ Queued(d)' = Queued(d)
    BY <2>1 DEF Written, Queued
  <2>6. InPlace(d)'
    BY <1>a, <1>b, <2>1, <2>2, <2>3, <2>4, <2>5 DEF InPlace
  <2>7. AtHome(d)'
    BY <1>a, <1>b, <2>1, <2>2 DEF AtHome, InPlace
  <2>8. QED
    BY <2>6, <2>7
<1>4. ASSUME NEW c \in Clients, Offer(c) PROVE InPlace(d)' /\ AtHome(d)'
  <2>1. UNCHANGED <<got, out, pump, joined, log, reader>> /\ turn' = turn \ {c} /\ c \in turn
    BY <1>4 DEF Offer, writerState
  <2>2. \/ send' = [send EXCEPT ![c] = Append(@, message)] /\ clients' = clients
        \/ send' = send /\ clients' = clients \ {c}
    BY <1>4 DEF Offer
  <2>3. CASE d # c
    BY ONLY <1>a, <1>c, <2>1, <2>2, <2>3, Untouched, d \in Clients
  <2>4. CASE d = c /\ send' = send /\ clients' = clients \ {c}
    BY <1>a, <1>c, <2>1, <2>4 DEF InPlace, AtHome, Written, Queued, Follows
  <2>5. CASE d = c /\ send' = [send EXCEPT ![c] = Append(@, message)] /\ clients' = clients
    <3>1. message \in Messages /\ message = log[Len(log)]
      BY <1>a, <1>c, <2>1 DEF Broadcasting, Messages
    <3>2. send'[d] = Append(send[d], message) /\ d \in clients /\ d \in turn /\ d \notin turn'
      BY <1>a, <1>c, <2>1, <2>5
    <3>3. ASSUME pump[d] # "done"
          PROVE  /\ Follows(send'[d], log, Queued(d)) /\ Len(send'[d]) = Len(send[d]) + 1
                 /\ Queued(d) + Len(send'[d]) = Len(log)
      <4>1. Queued(d) + Len(send[d]) = Len(log) - 1 /\ Follows(send[d], log, Queued(d))
        BY <1>a, <3>2, <3>3 DEF InPlace
      <4>2. message = log[Queued(d) + Len(send[d]) + 1] /\ Queued(d) + Len(send[d]) < Len(log)
        BY <1>b, <3>1, <4>1
      <4>3. Follows(Append(send[d], message), log, Queued(d)) /\ Len(Append(send[d], message)) = Len(send[d]) + 1
        BY <1>b, <3>1, <4>1, <4>2, FollowsAdded
      <4>4. Queued(d) + (Len(send[d]) + 1) = Len(log)
        BY <1>b, <4>1
      <4>5. QED
        BY <3>2, <4>3, <4>4
    <3>4. Written(d)' = Written(d) /\ Queued(d)' = Queued(d)
      BY <2>1 DEF Written, Queued
    <3>5. InPlace(d)'
      BY <1>a, <2>1, <3>2, <3>3, <3>4 DEF InPlace
    <3>6. AtHome(d)'
      BY <1>a, <2>1, <2>5, <3>2 DEF AtHome
    <3>7. QED
      BY <3>5, <3>6
  <2>6. QED
    BY <2>2, <2>3, <2>4, <2>5
<1>5. CASE BroadcastEnds
  <2>1. UNCHANGED <<got, out, pump, joined, log, reader, send, clients, turn>>
    BY <1>5 DEF BroadcastEnds, writerState
  <2>2. QED
    BY ONLY <1>a, <2>1, Untouched, d \in Clients
<1>6. QED
  BY HubStep, <1>1, <1>2, <1>3, <1>4, <1>5 DEF HubStep

\* Every step of a handler and of the goroutines of a client keeps every client
\* in its place.
LEMMA ClientsKeepPlaces ==
    ASSUME HubInv, NEW d \in Clients,
           \/ Broadcast
           \/ \E c \in Clients : ServeWs(c) \/ ReaderStep(c) \/ PumpStep(c) \/ SocketBreaks(c)
    PROVE  InPlace(d)' /\ AtHome(d)'
<1>a. InPlace(d) /\ AtHome(d) /\ HubTypes
  BY DEF HubInv
<1>b. /\ log \in Seq(Messages) /\ Len(log) \in Nat /\ joined[d] \in Nat /\ Len(got[d]) \in Nat
      /\ Len(out[d]) \in Nat /\ Len(send[d]) \in Nat /\ Written(d) \in Nat /\ Queued(d) \in Nat
      /\ got[d] \in Seq(Messages) /\ out[d] \in Seq(Messages) /\ send[d] \in Seq(Messages)
  BY <1>a, ClientTypes
<1>c. /\ joined \in [Clients -> Nat] /\ send \in [Clients -> Seq(Messages)] /\ out \in [Clients -> Seq(Messages)]
      /\ got \in [Clients -> Seq(Messages)]
      /\ reader \in [Clients -> {"new", "registering", "reading", "unregistering", "closing", "done"}]
      /\ pump \in [Clients -> {"off", "select", "message", "done"}]
  BY HubAssumption DEF HubInv, HubTypes, HubTypeOK
<1>1. CASE Broadcast
  <2>1. UNCHANGED <<got, out, pump, joined, log, reader, send, clients, turn>>
    BY <1>1 DEF Broadcast, hubState, writerState
  <2>2. QED
    BY ONLY <1>a, <2>1, Untouched, d \in Clients
<1>2. ASSUME NEW c \in Clients, ServeWs(c) PROVE InPlace(d)' /\ AtHome(d)'
  <2>1. /\ UNCHANGED <<got, out, pump, joined, log, send, clients, turn>>
        /\ reader[c] = "new" /\ reader' = [reader EXCEPT ![c] = "registering"]
    BY <1>2 DEF ServeWs, hubState, writerState
  <2>2. InPlace(d)'
    BY <1>a, <2>1 DEF InPlace, Written, Queued, Follows
  <2>3. AtHome(d)'
    BY <1>a, <1>c, <2>1 DEF AtHome
  <2>4. QED
    BY <2>2, <2>3
<1>3. ASSUME NEW c \in Clients, ReaderStep(c) PROVE InPlace(d)' /\ AtHome(d)'
  <2>1. /\ UNCHANGED <<got, out, pump, joined, log, send, clients, turn>>
        /\ \/ reader[c] = "reading" /\ reader' = [reader EXCEPT ![c] = "unregistering"]
           \/ reader[c] = "closing" /\ reader' = [reader EXCEPT ![c] = "done"]
    BY <1>3 DEF ReaderStep, PumpReadFails, ReaderCloses, hubState, writerState
  <2>2. InPlace(d)'
    BY <1>a, <2>1 DEF InPlace, Written, Queued, Follows
  <2>3. AtHome(d)'
    BY <1>a, <1>c, <2>1 DEF AtHome
  <2>4. QED
    BY <2>2, <2>3
<1>4. ASSUME NEW c \in Clients, SocketBreaks(c) \/ PumpCounts(c) PROVE InPlace(d)' /\ AtHome(d)'
  <2>1. UNCHANGED <<got, out, pump, joined, log, reader, send, clients, turn>>
    BY <1>4 DEF SocketBreaks, PumpCounts, hubState, writerState
  <2>2. QED
    BY ONLY <1>a, <2>1, Untouched, d \in Clients
\* A writer that leaves.
<1>5. ASSUME NEW c \in Clients, pump[c] # "off", pump' = [pump EXCEPT ![c] = "done"],
             UNCHANGED <<got, joined, log, reader, clients, turn>>,
             \A e \in Clients : e # c => out'[e] = out[e] /\ send'[e] = send[e]
      PROVE  InPlace(d)' /\ AtHome(d)'
  <2>1. CASE d # c
    BY ONLY <1>a, <1>c, <1>5, <2>1, Untouched, d \in Clients
  <2>2. CASE d = c
    <3>1. pump'[d] = "done" /\ pump[d] # "off"
      BY <1>c, <1>5, <2>2
    <3>2. QED
      BY <1>a, <1>5, <3>1 DEF InPlace, AtHome, Follows
  <2>3. QED
    BY <2>1, <2>2
<1>6. ASSUME NEW c \in Clients, PumpTakes(c) PROVE InPlace(d)' /\ AtHome(d)'
  <2>1. /\ UNCHANGED <<got, joined, log, reader, clients, turn>>
        /\ pump[c] = "select" /\ send[c] # <<>> /\ send' = [send EXCEPT ![c] = Tail(@)]
    BY <1>6 DEF PumpTakes, hubState
  <2>2. CASE ~conn[c]
    BY <1>5, <1>6, <1>c, <2>1, <2>2 DEF PumpTakes, WriterLeaves
  <2>3. CASE conn[c]
    <3>1. out' = [out EXCEPT ![c] = <<Head(send[c])>>] /\ pump' = [pump EXCEPT ![c] = "message"]
      BY <1>6, <2>3 DEF PumpTakes
    <3>2. CASE d # c
      BY ONLY <1>a, <1>c, <2>1, <3>1, <3>2, Untouched, d \in Clients
    <3>3. CASE d = c
      <4>1. out[d] = <<>> /\ pump[d] = "select" /\ Len(out[d]) = 0
        BY <1>a, <2>1, <3>3 DEF AtHome
      <4>2. send'[d] = Tail(send[d]) /\ out'[d] = <<Head(send[d])>> /\ pump'[d] = "message" /\ send[d] # <<>>
        BY <1>c, <2>1, <3>1, <3>3
      <4>3. Queued(d) = Written(d) /\ Follows(send[d], log, Written(d))
        BY <1>a, <1>b, <4>1 DEF InPlace, Queued
      <4>4. Follows(out'[d], log, Written(d)) /\ Follows(send'[d], log, Written(d) + 1)
        BY <1>b, <4>2, <4>3, FollowsTaken
      <4>5. Written(d)' = Written(d) /\ Queued(d)' = Written(d) + 1
        BY <2>1, <4>2 DEF Written, Queued
      <4>6. Len(send'[d]) = Len(send[d]) - 1
        BY ONLY <1>b, <4>2, HeadTailProperties
      <4>7. d \in clients' => Queued(d)' + Len(send'[d]) = Len(log) - (IF d \in turn THEN 1 ELSE 0)
        <5>1. d \in clients => Written(d) + Len(send[d]) = Len(log) - (IF d \in turn THEN 1 ELSE 0)
          BY <1>a, <4>1, <4>3 DEF InPlace
        <5>2. (Written(d) + 1) + (Len(send[d]) - 1) = Written(d) + Len(send[d])
          BY <1>b
        <5>3. QED
          BY <2>1, <4>5, <4>6, <5>1, <5>2
      <4>8. InPlace(d)'
        BY <1>a, <2>1, <4>4, <4>5, <4>7 DEF InPlace
      <4>9. AtHome(d)'
        BY <1>a, <2>1, <4>1, <4>2 DEF AtHome
      <4>10. QED
        BY <4>8, <4>9
    <3>4. QED
      BY <3>2, <3>3
  <2>4. QED
    BY <2>2, <2>3
<1>7. ASSUME NEW c \in Clients, PumpAdds(c) PROVE InPlace(d)' /\ AtHome(d)'
  <2>1. /\ UNCHANGED <<got, joined, log, reader, clients, turn, pump>>
        /\ pump[c] = "message" /\ send[c] # <<>> /\ send' = [send EXCEPT ![c] = Tail(@)]
        /\ out' = [out EXCEPT ![c] = Append(@, Head(send[c]))]
    BY <1>7 DEF PumpAdds, hubState
  <2>2. CASE d # c
    BY ONLY <1>a, <1>c, <2>1, <2>2, Untouched, d \in Clients
  <2>3. CASE d = c
    <3>1. /\ send'[d] = Tail(send[d]) /\ out'[d] = Append(out[d], Head(send[d]))
          /\ pump[d] = "message" /\ send[d] # <<>>
      BY <1>c, <2>1, <2>3
    <3>2. Follows(out[d], log, Written(d)) /\ Follows(send[d], log, Queued(d))
      BY <1>a, <3>1 DEF InPlace
    <3>3. Head(send[d]) = log[Queued(d) + 1] /\ Follows(send'[d], log, Queued(d) + 1) /\ Queued(d) + 1 <= Len(log)
      BY <1>b, <3>1, <3>2, FollowsTaken
    <3>4. Head(send[d]) \in Messages /\ Len(send'[d]) = Len(send[d]) - 1
      BY ONLY <1>b, <3>1, HeadTailProperties
    <3>5. Follows(out'[d], log, Written(d)) /\ Len(out'[d]) = Len(out[d]) + 1
      <4>1. Queued(d) = Written(d) + Len(out[d])
        BY DEF Queued
      <4>2. Written(d) + Len(out[d]) < Len(log) /\ Head(send[d]) = log[Written(d) + Len(out[d]) + 1]
        BY <1>b, <3>3, <4>1
      <4>3. /\ Follows(Append(out[d], Head(send[d])), log, Written(d))
            /\ Len(Append(out[d], Head(send[d]))) = Len(out[d]) + 1
        BY <1>b, <3>2, <3>4, <4>2, FollowsAdded
      <4>4. QED
        BY <3>1, <4>3
    <3>6. Written(d)' = Written(d) /\ Queued(d)' = Queued(d) + 1
      BY <1>b, <2>1, <3>5 DEF Written, Queued
    <3>7. d \in clients' => Queued(d)' + Len(send'[d]) = Len(log) - (IF d \in turn THEN 1 ELSE 0)
      <4>1. d \in clients => Queued(d) + Len(send[d]) = Len(log) - (IF d \in turn THEN 1 ELSE 0)
        BY <1>a, <3>1 DEF InPlace
      <4>2. (Queued(d) + 1) + (Len(send[d]) - 1) = Queued(d) + Len(send[d])
        BY <1>b
      <4>3. QED
        BY <2>1, <3>4, <3>6, <4>1, <4>2
    <3>8. InPlace(d)'
      BY <1>a, <2>1, <3>3, <3>5, <3>6, <3>7 DEF InPlace
    <3>9. AtHome(d)'
      BY <1>a, <2>1, <3>1 DEF AtHome
    <3>10. QED
      BY <3>8, <3>9
  <2>4. QED
    BY <2>2, <2>3
<1>8. ASSUME NEW c \in Clients, PumpFlushes(c) PROVE InPlace(d)' /\ AtHome(d)'
  <2>1. /\ UNCHANGED <<joined, log, reader, clients, turn, send>>
        /\ pump[c] = "message" /\ out' = [out EXCEPT ![c] = <<>>]
    BY <1>8 DEF PumpFlushes, hubState
  <2>2. CASE ~conn[c]
    BY <1>5, <1>8, <1>c, <2>1, <2>2 DEF PumpFlushes, WriterLeaves
  <2>3. CASE conn[c]
    <3>1. got' = [got EXCEPT ![c] = @ \o out[c]] /\ pump' = [pump EXCEPT ![c] = "select"]
      BY <1>8, <2>3 DEF PumpFlushes
    <3>2. CASE d # c
      BY ONLY <1>a, <1>c, <2>1, <3>1, <3>2, Untouched, d \in Clients
    <3>3. CASE d = c
      <4>1. got'[d] = got[d] \o out[d] /\ out'[d] = <<>> /\ pump'[d] = "select" /\ pump[d] = "message"
        BY <1>c, <2>1, <3>1, <3>3
      <4>2. /\ Follows(got[d], log, joined[d]) /\ Follows(out[d], log, Written(d))
            /\ Follows(send[d], log, Queued(d))
        BY <1>a, <4>1 DEF InPlace
      <4>3. Follows(got'[d], log, joined[d]) /\ Len(got'[d]) = Len(got[d]) + Len(out[d])
        <5>1. got'[d] = Joined(got[d], out[d])
          BY <4>1 DEF Joined
        <5>2. Written(d) = joined[d] + Len(got[d])
          BY DEF Written
        <5>3. QED
          BY ONLY <1>b, <1>c, <4>2, <5>1, <5>2, FollowsJoined
      <4>4. Written(d)' = Queued(d) /\ Queued(d)' = Queued(d)
        <5>1. Written(d)' = joined[d] + Len(got'[d]) /\ Queued(d)' = Written(d)' + Len(out'[d])
          BY <2>1 DEF Written, Queued
        <5>2. Queued(d) = (joined[d] + Len(got[d])) + Len(out[d])
          BY DEF Written, Queued
        <5>3. Len(out'[d]) = 0
          BY <4>1
        <5>4. QED
          BY <1>b, <1>c, <4>3, <5>1, <5>2, <5>3
      <4>5. Follows(<<>>, log, Queued(d))
        <5>1. Queued(d) <= Len(log)
          BY <1>b, <4>2 DEF Follows
        <5>2. QED
          BY <1>b, <5>1, FollowsEmpty
      <4>6. InPlace(d)'
        BY <1>a, <2>1, <4>1, <4>2, <4>3, <4>4, <4>5 DEF InPlace
      <4>7. AtHome(d)'
        BY <1>a, <2>1, <4>1 DEF AtHome
      <4>8. QED
        BY <4>6, <4>7
    <3>4. QED
      BY <3>2, <3>3
  <2>4. QED
    BY <2>2, <2>3
<1>9. ASSUME NEW c \in Clients, PumpSeesClose(c) \/ PumpPingFails(c) PROVE InPlace(d)' /\ AtHome(d)'
  BY <1>5, <1>9 DEF PumpSeesClose, PumpPingFails, WriterLeaves, hubState
<1>10. QED
  BY <1>1, <1>2, <1>3, <1>4, <1>6, <1>7, <1>8, <1>9 DEF PumpStep

LEMMA HubInvStep == HubInv /\ [HubNext]_hubVars => HubInv'
<1> SUFFICES ASSUME HubInv, [HubNext]_hubVars PROVE HubInv'
  OBVIOUS
<1>1. HubTypes' /\ QueuesAreClosedOnce' /\ Broadcasting'
  BY HubTypesStep, HubClosesStep DEF HubInv
<1>2. ASSUME NEW d \in Clients PROVE InPlace(d)' /\ AtHome(d)'
  <2>1. CASE HubNext
    BY <2>1, HubKeepsPlaces, ClientsKeepPlaces DEF HubNext
  <2>2. CASE UNCHANGED hubVars
    <3>1. UNCHANGED <<got, out, pump, joined, log, reader, send, clients, turn>> /\ InPlace(d) /\ AtHome(d)
      BY <2>2 DEF hubVars, HubInv
    <3>2. QED
      BY ONLY <3>1, Untouched, d \in Clients
  <2>3. QED
    BY <2>1, <2>2
<1>3. QED
  BY <1>1, <1>2 DEF HubInv

\* A queue that follows the log from n is a prefix of what comes after n.
LEMMA FollowersArePrefixes ==
    ASSUME NEW l \in Seq(Messages), NEW q \in Seq(Messages), NEW n \in Nat, Follows(q, l, n)
    PROVE  IsPrefix(q, SubSeq(l, n + 1, Len(l))) /\ Len(SubSeq(l, n + 1, Len(l))) = Len(l) - n
<1> DEFINE all == SubSeq(l, n + 1, Len(l))
<1>1. Len(l) \in Nat /\ Len(q) \in Nat /\ n + Len(q) <= Len(l)
  BY DEF Follows
<1>2. all \in Seq(Messages) /\ Len(all) = Len(l) - n /\ \A i \in 1..(Len(l) - n) : all[i] = l[n + i]
  BY <1>1
<1>3. \A i \in 1..Len(q) : q[i] = all[i]
  BY <1>1, <1>2 DEF Follows
<1>4. SubSeq(q, 1, Len(q)) = SubSeq(all, 1, Len(q))
  <2> HIDE DEF all
  <2>1. SubSeq(q, 1, Len(q)) = [i \in 1..Len(q) |-> q[i]]
    BY <1>1
  <2>2. SubSeq(all, 1, Len(q)) = [i \in 1..Len(q) |-> all[i]]
    BY <1>1, <1>2
  <2>3. QED
    BY <1>3, <2>1, <2>2
<1>5. QED
  BY <1>1, <1>2, <1>4 DEF IsPrefix

LEMMA PlacesLeaveNoGaps == HubInv => NoGaps
<1> SUFFICES ASSUME HubInv, NEW c \in Clients
             PROVE  LET have == got[c] \o out[c] \o send[c]
                        all == SubSeq(log, joined[c] + 1, Len(log))
                        due == IF c \in turn THEN Len(all) - 1 ELSE Len(all)
                    IN /\ pump[c] # "done" => IsPrefix(have, all)
                       /\ IsPrefix(got[c], all)
                       /\ c \in clients /\ pump[c] # "done" => Len(have) = due
  BY DEF NoGaps
<1> DEFINE all  == SubSeq(log, joined[c] + 1, Len(log))
           have == got[c] \o out[c] \o send[c]
           t    == IF c \in turn THEN 1 ELSE 0
<1>a. InPlace(c) /\ HubTypes
  BY DEF HubInv
<1>b. /\ log \in Seq(Messages) /\ joined[c] \in Nat /\ got[c] \in Seq(Messages)
      /\ out[c] \in Seq(Messages) /\ send[c] \in Seq(Messages)
  BY <1>a, ClientTypes
<1>c. Written(c) \in Nat /\ Queued(c) \in Nat /\ Len(log) \in Nat /\ Len(send[c]) \in Nat
  BY <1>a, ClientTypes
<1>d. /\ joined \in [Clients -> Nat] /\ send \in [Clients -> Seq(Messages)]
      /\ out \in [Clients -> Seq(Messages)] /\ got \in [Clients -> Seq(Messages)]
  BY HubAssumption DEF HubInv, HubTypes, HubTypeOK
<1>1. IsPrefix(got[c], all) /\ Len(all) = Len(log) - joined[c]
  BY <1>a, <1>b, FollowersArePrefixes DEF InPlace
<1>2. ASSUME pump[c] # "done"
      PROVE  IsPrefix(have, all) /\ (c \in clients => Len(have) = Len(all) - t)
  <2>1. /\ Follows(got[c], log, joined[c]) /\ Follows(out[c], log, Written(c))
        /\ Follows(send[c], log, Queued(c))
    BY <1>a, <1>2 DEF InPlace
  <2>2. Written(c) = joined[c] + Len(got[c])
    BY DEF Written
  <2>3. ASSUME NEW old, old = Joined(got[c], out[c]), NEW new, new = Joined(old, send[c])
        PROVE  IsPrefix(new, all) /\ (c \in clients => Len(new) = Len(all) - t)
    <3>1. old \in Seq(Messages) /\ Follows(old, log, joined[c]) /\ Len(old) = Len(got[c]) + Len(out[c])
      BY <1>b, <1>c, <1>d, <2>1, <2>2, <2>3, FollowsJoined
    <3>2. Len(got[c]) \in Nat /\ Len(out[c]) \in Nat /\ Len(old) \in Nat
      BY ONLY <1>b, <1>d, <3>1
    <3>3. Queued(c) = joined[c] + Len(old)
      <4>1. joined[c] + (Len(got[c]) + Len(out[c])) = (joined[c] + Len(got[c])) + Len(out[c])
        BY ONLY <1>b, <1>d, <3>2, InFront
      <4>2. QED
        BY ONLY <1>d, <2>2, <3>1, <4>1 DEF Queued
    <3>4. new \in Seq(Messages) /\ Follows(new, log, joined[c]) /\ Len(new) = Len(old) + Len(send[c])
      <4>1. old \in Seq(Messages) /\ Follows(old, log, joined[c]) /\ new = Joined(old, send[c])
        BY <2>3, <3>1
      <4>2. QED
        BY ONLY <1>b, <1>c, <1>d, <2>1, <3>3, <4>1, FollowsJoined
    <3>5. IsPrefix(new, all)
      BY <1>b, <3>4, FollowersArePrefixes
    <3>6. ASSUME c \in clients PROVE Len(new) = Len(all) - t
      <4>1. ASSUME NEW x \in Nat, Queued(c) + Len(send[c]) = Len(log) - x
            PROVE  Len(new) = Len(all) - x
        <5> HIDE DEF t, all
        <5>1. Len(old) + Len(send[c]) = (Len(log) - joined[c]) - x
          <6>1. /\ joined[c] \in Nat /\ Len(old) \in Nat /\ Queued(c) \in Nat
                /\ Len(send[c]) \in Nat /\ Len(log) \in Nat
            BY <1>b, <1>c, <3>2
          <6>2. ASSUME NEW j \in Nat, Queued(c) = j + Len(old)
                PROVE  Len(old) + Len(send[c]) = (Len(log) - j) - x
            BY ONLY <1>d, <6>1, <6>2, <4>1
          <6>3. QED
            BY ONLY <1>d, <6>1, <6>2, <3>3
        <5>2. QED
          BY ONLY <1>1, <1>d, <3>4, <5>1
      <4>2. Queued(c) + Len(send[c]) = Len(log) - t /\ t \in Nat
        BY <1>a, <1>2, <3>6 DEF InPlace
      <4>3. QED
        BY ONLY <4>1, <4>2
    <3>7. QED
      BY <3>5, <3>6
  <2>4. have = Joined(Joined(got[c], out[c]), send[c])
    BY DEF Joined
  <2>5. QED
    BY ONLY <2>3, <2>4
<1>3. QED
  <2> HIDE DEF have
  <2>1. Len(all) - 0 = Len(all)
    BY <1>b, <1>1
  <2> HIDE DEF all
  <2>2. QED
    BY <1>1, <1>2, <2>1 DEF have, all

\* Every variable of JossHub has its type; no queue grows beyond its buffer.
THEOREM HubIsTyped == HubSpec => []HubTypeOK
<1>1. HubInv => HubTypeOK
  BY DEF HubInv, HubTypes
<1>2. QED
  BY <1>1, HubInvInit, HubInvStep, PTL DEF HubSpec

\* However many clients and messages there are, the hub closes the queue of a
\* client once, never offers to a closed one, and what a client has received, is
\* being written and is queued is what was broadcast since it was registered, in
\* order and without a gap (Hub.Run, readPump and writePump of websocket.go).
THEOREM HubDelivers == HubSpec => []ClientsReceiveInOrder
<1>1. HubInv => ClientsReceiveInOrder
  BY PlacesLeaveNoGaps DEF HubInv, ClientsReceiveInOrder
<1>2. QED
  BY <1>1, HubInvInit, HubInvStep, PTL DEF HubSpec

--------------------------------------------------------------------------------
(* The hub: no goroutine is left behind.                                   *)

\* Who has ended has closed the socket, and a writer that adds queued messages
\* to the one it writes finds as many as it counted.
Leaving(c) ==
    /\ pump[c] = "off" => reader[c] \in {"new", "registering"}
    /\ pump[c] = "done" => ~conn[c]
    /\ reader[c] = "done" => ~conn[c]
    /\ pump[c] = "message" => more[c] <= Len(send[c])

LeavingInv == HubInv /\ \A c \in Clients : Leaving(c)

LEMMA LeavingInvInit == HubInit => LeavingInv
BY HubInvInit DEF HubInit, LeavingInv, Leaving

\* What Leaving and the types say of the clients that a step does not concern.
LEMMA LeavingStays ==
    ASSUME NEW d \in Clients, Leaving(d), pump'[d] = pump[d], reader'[d] = reader[d],
           conn'[d] => conn[d], more'[d] = more[d], send[d] = send'[d]
    PROVE  Leaving(d)'
BY DEF Leaving

LEMMA ClientsKeepLeaving ==
    ASSUME LeavingInv, NEW c \in Clients, NEW d \in Clients,
           ServeWs(c) \/ ReaderStep(c) \/ PumpStep(c) \/ SocketBreaks(c)
    PROVE  Leaving(d)'
<1>1. /\ reader \in [Clients -> {"new", "registering", "reading", "unregistering", "closing", "done"}]
      /\ pump \in [Clients -> {"off", "select", "message", "done"}]
      /\ conn \in [Clients -> BOOLEAN] /\ more \in [Clients -> -1..SendBuffer]
      /\ send \in [Clients -> Seq(Messages)]
      /\ Leaving(c) /\ Leaving(d) /\ AtHome(c)
  BY DEF LeavingInv, HubInv, HubTypes, HubTypeOK
<1>2. CASE ServeWs(c)
  BY <1>1, <1>2 DEF ServeWs, Leaving, AtHome, writerState
<1>3. CASE ReaderStep(c)
  BY <1>1, <1>3 DEF ReaderStep, PumpReadFails, ReaderCloses, Leaving, AtHome, writerState
<1>4. CASE SocketBreaks(c)
  BY <1>1, <1>4 DEF SocketBreaks, Leaving, writerState
<1>5. CASE PumpTakes(c)
  <2>1. CASE d # c
    BY <1>1, <1>5, <2>1, LeavingStays DEF PumpTakes, WriterLeaves
  <2>2. CASE d = c
    <3>1. Len(Tail(send[c])) \in Nat /\ send'[c] = Tail(send[c])
      BY <1>1, <1>5 DEF PumpTakes
    <3> QED
      BY <1>1, <1>5, <2>2, <3>1 DEF PumpTakes, WriterLeaves, Leaving
  <2> QED
    BY <2>1, <2>2
<1>6. CASE PumpCounts(c)
  BY <1>1, <1>6 DEF PumpCounts, Leaving
<1>7. CASE PumpAdds(c)
  <2>1. CASE d # c
    BY <1>1, <1>7, <2>1, LeavingStays DEF PumpAdds
  <2>2. CASE d = c
    <3>1. Len(Tail(send[c])) = Len(send[c]) - 1 /\ send'[c] = Tail(send[c]) /\ more'[c] = more[c] - 1
      BY <1>1, <1>7 DEF PumpAdds
    <3> QED
      BY <1>1, <1>7, <2>2, <3>1 DEF PumpAdds, Leaving
  <2> QED
    BY <2>1, <2>2
<1>8. CASE PumpFlushes(c)
  BY <1>1, <1>8 DEF PumpFlushes, WriterLeaves, Leaving
<1>9. CASE PumpSeesClose(c) \/ PumpPingFails(c)
  BY <1>1, <1>9 DEF PumpSeesClose, PumpPingFails, WriterLeaves, Leaving
<1> QED
  BY <1>2, <1>3, <1>4, <1>5, <1>6, <1>7, <1>8, <1>9 DEF PumpStep

LEMMA HubKeepsLeaving ==
    ASSUME LeavingInv, NEW d \in Clients, HubStep \/ Broadcast
    PROVE  Leaving(d)'
<1>1. /\ reader \in [Clients -> {"new", "registering", "reading", "unregistering", "closing", "done"}]
      /\ pump \in [Clients -> {"off", "select", "message", "done"}]
      /\ more \in [Clients -> -1..SendBuffer]
      /\ send \in [Clients -> Seq(Messages)] /\ Leaving(d) /\ AtHome(d)
  BY DEF LeavingInv, HubInv, HubTypes, HubTypeOK
<1>2. CASE Broadcast \/ BroadcastEnds \/ \E k \in waiting : HubBroadcast(k)
  BY <1>1, <1>2 DEF Broadcast, BroadcastEnds, HubBroadcast, Leaving, writerState
<1>3. ASSUME NEW c \in Clients, HubRegister(c) \/ HubUnregister(c) PROVE Leaving(d)'
  BY <1>1, <1>3 DEF HubRegister, HubUnregister, Leaving, AtHome, writerState
<1>4. ASSUME NEW c \in Clients, Offer(c) PROVE Leaving(d)'
  <2>1. UNCHANGED <<reader, conn, pump, more>>
    BY <1>4 DEF Offer, writerState
  <2>2. Len(send[d]) <= Len(send'[d])
    <3>1. CASE send' = send
      BY <3>1, <1>1
    <3>2. CASE send' = [send EXCEPT ![c] = Append(@, message)] /\ c # d
      BY <3>2, <1>1
    <3>3. CASE send' = [send EXCEPT ![c] = Append(@, message)] /\ c = d
      BY <3>3, <1>1
    <3> QED
      BY <1>4, <3>1, <3>2, <3>3 DEF Offer
  <2>3. Len(send[d]) \in Nat /\ Len(send'[d]) \in Nat
    <3>1. send' = send \/ send' = [send EXCEPT ![c] = Append(@, message)]
      BY <1>4 DEF Offer
    <3> QED
      BY <1>1, <3>1
  <2> QED
    BY <1>1, <2>1, <2>2, <2>3 DEF Leaving
<1> QED
  BY <1>2, <1>3, <1>4 DEF HubStep

LEMMA LeavingInvStep == LeavingInv /\ [HubNext]_hubVars => LeavingInv'
<1> SUFFICES ASSUME LeavingInv, [HubNext]_hubVars PROVE LeavingInv'
  OBVIOUS
<1>1. HubInv'
  BY HubInvStep DEF LeavingInv
<1>2. ASSUME NEW d \in Clients PROVE Leaving(d)'
  <2>1. CASE UNCHANGED hubVars
    BY <2>1, LeavingStays DEF hubVars, LeavingInv
  <2>2. CASE HubNext
    BY <2>2, ClientsKeepLeaving, HubKeepsLeaving DEF HubNext
  <2> QED
    BY <2>1, <2>2
<1> QED
  BY <1>1, <1>2 DEF LeavingInv

\* However many clients there are, and wherever each of them stopped: the two
\* goroutines of a client that left the table, or whose socket is gone, do not
\* come to rest before both have ended (Hub.Run, readPump and writePump of
\* websocket.go).
THEOREM NothingRemainsOfAClient == HubSpec => []NothingRemains
<1>1. LeavingInv => NothingRemains
  <2> SUFFICES ASSUME LeavingInv, NEW c \in Clients, AtRest(c), ~conn[c] \/ c \notin clients
               PROVE  Gone(c)
    BY DEF NothingRemains
  <2>1. /\ reader[c] \in {"reading", "done"} /\ (reader[c] = "reading" => conn[c]) /\ ~PumpIsBusy(c)
        /\ pump[c] \in {"off", "select", "message", "done"}
        /\ more[c] \in -1..SendBuffer /\ send[c] \in Seq(Messages)
        /\ Leaving(c) /\ AtHome(c)
        /\ closes[c] = IF reader[c] \in {"new", "registering"} \/ c \in clients THEN 0 ELSE 1
    BY DEF AtRest, LeavingInv, HubInv, HubTypes, HubTypeOK, QueuesAreClosedOnce
  <2>2. pump[c] # "off" /\ (c \in clients => reader[c] = "reading")
    BY <2>1 DEF Leaving, AtHome
  <2>3. c \notin clients
    BY <2>1, <2>2
  <2>4. pump[c] # "select"
    BY <2>1, <2>3 DEF PumpIsBusy
  <2>5. pump[c] # "message"
    <3> SUFFICES ASSUME pump[c] = "message" PROVE FALSE
      OBVIOUS
    <3>1. more[c] > 0 /\ send[c] = <<>>
      BY <2>1 DEF PumpIsBusy
    <3> QED
      BY <2>1, <3>1 DEF Leaving
  <2> QED
    BY <2>1, <2>2, <2>3, <2>4, <2>5 DEF Leaving, Gone
<1> QED
  BY <1>1, LeavingInvInit, LeavingInvStep, PTL DEF HubSpec

--------------------------------------------------------------------------------
(* Both side by side.                                                      *)

\* Every variable of a server with both kinds of WebSocket has its type.
THEOREM SocketsAreTyped == Spec => []TypeOK
<1>1. Init => HubInv /\ RoomsInv
  BY HubInvInit, RoomsInvInit DEF Init
<1>2. HubInv /\ RoomsInv /\ [Next]_vars => HubInv' /\ RoomsInv'
  <2>1. [Next]_vars => [HubNext]_hubVars /\ [RoomsNext]_roomsVars
    BY DEF Next, vars
  <2>2. QED
    BY <2>1, HubInvStep, RoomsInvStep
<1>3. HubInv /\ RoomsInv => TypeOK
  BY DEF HubInv, HubTypes, RoomsInv, TypeOK
<1>4. QED
  BY <1>1, <1>2, <1>3, PTL DEF Spec
=============================================================================
