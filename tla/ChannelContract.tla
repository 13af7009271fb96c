---------------------------- MODULE ChannelContract ----------------------------
(***************************************************************************)
(* What a Joss channel promises to the statements that use it, with no     *)
(* flag, counter, reservation or signal in sight: a bounded FIFO that goes *)
(* from open to closing to closed, and the outcome each statement may see. *)
(* JossChannel, which models pkg/core/channel.go step by step, is checked  *)
(* to implement this module.                                               *)
(***************************************************************************)
EXTENDS Integers, Sequences

CONSTANTS Procs,     \* the goroutines that execute channel statements
          Channels,  \* the channels they share
          Capacity   \* [Channels -> Nat], the argument of make_chan

VARIABLES buf,    \* [Channels -> Seq(Procs)]: accepted values, named by sender
          phase,  \* [Channels -> {"open", "closing", "closed"}]
          out     \* [Procs -> Outcomes]: what the last statement returned

cvars == <<buf, phase, out>>

Outcomes == {<<"none">>, <<"sent">>, <<"nil">>, <<"refused">>, <<"cancelled">>,
             <<"thrown">>, <<"default">>, <<"closed">>} \cup ({"received"} \X Procs)

CInit == /\ buf = [c \in Channels |-> <<>>]
         /\ phase = [c \in Channels |-> "open"]
         /\ out = [p \in Procs |-> <<"none">>]

\* A statement starts: its outcome is not known yet.
CStart(p) == /\ out' = [out EXCEPT ![p] = <<"none">>]
             /\ UNCHANGED <<buf, phase>>

\* Exactly one value of p enters the queue, never after the channel closed.
CSend(p, c) == /\ out[p] = <<"none">>
               /\ phase[c] # "closed"
               /\ Len(buf[c]) < Capacity[c]
               /\ buf' = [buf EXCEPT ![c] = Append(@, p)]
               /\ out' = [out EXCEPT ![p] = <<"sent">>]
               /\ UNCHANGED phase

\* The oldest value leaves the queue, in every phase.
CRecv(q, c) == /\ out[q] = <<"none">>
               /\ buf[c] # <<>>
               /\ buf' = [buf EXCEPT ![c] = Tail(@)]
               /\ out' = [out EXCEPT ![q] = <<"received", Head(buf[c])>>]
               /\ UNCHANGED phase

\* A sender meets a receiver on a channel with nothing queued.
CHandOff(p, q, c) == /\ p # q
                     /\ out[p] = <<"none">>
                     /\ out[q] = <<"none">>
                     /\ phase[c] # "closed"
                     /\ buf[c] = <<>>
                     /\ out' = [out EXCEPT ![p] = <<"sent">>,
                                           ![q] = <<"received", p>>]
                     /\ UNCHANGED <<buf, phase>>

\* nil means: closed, and every accepted value has been received.
CNil(q, c) == /\ out[q] = <<"none">>
              /\ phase[c] = "closed"
              /\ buf[c] = <<>>
              /\ out' = [out EXCEPT ![q] = <<"nil">>]
              /\ UNCHANGED <<buf, phase>>

\* A send is refused only once a close has begun; so is a second close, which
\* answers at once whatever p did before.
CRefuse(p, c) == /\ out[p] = <<"none">>
                 /\ phase[c] # "open"
                 /\ out' = [out EXCEPT ![p] = <<"refused">>]
                 /\ UNCHANGED <<buf, phase>>

CRefuseClose(p, c) == /\ phase[c] # "open"
                      /\ out' = [out EXCEPT ![p] = <<"refused">>]
                      /\ UNCHANGED <<buf, phase>>

\* Cancellation, an exception of an expression and default leave every channel
\* alone.
CGiveUp(p) == /\ out[p] = <<"none">>
              /\ \E o \in {<<"cancelled">>, <<"thrown">>, <<"default">>} :
                    out' = [out EXCEPT ![p] = o]
              /\ UNCHANGED <<buf, phase>>

CBeginClose(p, c) == /\ phase[c] = "open"
                     /\ phase' = [phase EXCEPT ![c] = "closing"]
                     /\ out' = [out EXCEPT ![p] = <<"none">>]
                     /\ UNCHANGED buf

\* close() returns in the step that makes the channel closed.
CEndClose(p, c) == /\ out[p] = <<"none">>
                   /\ phase[c] = "closing"
                   /\ phase' = [phase EXCEPT ![c] = "closed"]
                   /\ out' = [out EXCEPT ![p] = <<"closed">>]
                   /\ UNCHANGED buf

\* A close evaluated inside a select case completes; its own statement goes on.
CEndNestedClose(c) == /\ phase[c] = "closing"
                      /\ phase' = [phase EXCEPT ![c] = "closed"]
                      /\ UNCHANGED <<buf, out>>

CNext == \/ \E p \in Procs : CStart(p) \/ CGiveUp(p)
         \/ \E p \in Procs, c \in Channels :
               \/ CSend(p, c) \/ CRecv(p, c) \/ CNil(p, c) \/ CRefuse(p, c)
               \/ CRefuseClose(p, c) \/ CBeginClose(p, c) \/ CEndClose(p, c)
         \/ \E p, q \in Procs, c \in Channels : CHandOff(p, q, c)
         \/ \E c \in Channels : CEndNestedClose(c)

CSpec == CInit /\ [][CNext]_cvars
================================================================================
