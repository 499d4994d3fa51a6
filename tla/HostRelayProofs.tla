--------------------------- MODULE HostRelayProofs ---------------------------
(***************************************************************************)
(* Proofs about the relay and the Host's client for every set of requests, *)
(* every number of connections and every limit.  The inductive invariant   *)
(* has three parts: the relay's books (what #pending, the timers and the   *)
(* answers say of a request agrees with where #proxy is), the client's     *)
(* books (of timer, discovery and connection exactly one exists until the  *)
(* Host closes), and what is known of a request that is on the wire.       *)
(***************************************************************************)
EXTENDS HostRelay, FiniteSetTheorems, TLAPS

-----------------------------------------------------------------------------
(* The inductive invariant.                                                *)

RelayType ==
    /\ relayEnd \in [Sockets -> RelayStates]
    /\ phase \in [Requests -> Phases]
    /\ via \in [Requests -> Sockets \cup {NoSocket}]
    /\ pending \subseteq Requests
    /\ timers \subseteq Requests

WireType ==
    /\ toHost \in [Sockets -> SUBSET Requests]
    /\ toRelay \in [Sockets -> SUBSET (Requests \X Replies)]

HostType ==
    /\ hostEnd \in [Sockets -> HostStates]
    /\ socket \in Sockets \cup {NoSocket}
    /\ discovering \in Nat
    /\ timer \in BOOLEAN
    /\ closed \in BOOLEAN
    /\ forwarding \subseteq Sockets \X Requests
    /\ handled \subseteq Requests

(* A request has its one answer exactly when #proxy is done with it.       *)
AnswersOK ==
    /\ DOMAIN answers = Requests /\ answers = [r \in Requests |-> answers[r]]
    /\ \A r \in Requests :
         IF phase[r] = "done" THEN \E o \in Outcomes : answers[r] = <<o>>
                              ELSE answers[r] = <<>>

(* A request is pending, with its timer armed, exactly as long as it waits.*)
PendingOK ==
    \A r \in Requests : /\ (r \in pending) = (phase[r] = "waiting")
                        /\ (r \in timers) = (r \in pending)

(* #proxy holds a socket from the moment it awaits the body.               *)
ViaOK == \A r \in Requests : phase[r] \in {"body", "waiting"} => via[r] \in Sockets

(* There is one open socket at most.                                       *)
SingleHost ==
    \A s, t \in Sockets : relayEnd[s] = "open" /\ relayEnd[t] = "open" => s = t

RelayBooks == RelayType /\ AnswersOK /\ PendingOK /\ ViaOK /\ SingleHost

(* The Host's connections whose close event is still to come.              *)
Up == {s \in Sockets : hostEnd[s] \in {"handshake", "open", "closing"}}

(* Until close(), exactly one of the three kinds of attempt exists, and a  *)
(* connection is the one #socket names, so that close() reaches it.        *)
AttemptOK ==
    ~closed =>
        \/ timer /\ discovering = 0 /\ Up = {}
        \/ ~timer /\ discovering = 1 /\ Up = {}
        \/ ~timer /\ discovering = 0 /\ socket \in Sockets /\ Up = {socket}

ClientBooks == HostType /\ AttemptOK /\ ClosedStaysQuiet

(* A request that was passed on: it waits, or was answered and not refused.*)
PassedOn(r) ==
    /\ phase[r] \in {"waiting", "done"}
    /\ phase[r] = "done" => answers[r][1] \notin Refusals

(* Only requests that were passed on travel or reach the local server, and *)
(* an answer of the Host, on its way or given, is one of a request the     *)
(* local server has performed.                                             *)
TransitOK ==
    /\ \A s \in Sockets : \A r \in toHost[s] : PassedOn(r)
    /\ \A f \in forwarding : PassedOn(f[2])
    /\ \A r \in handled : PassedOn(r)
    /\ \A s \in Sockets : \A m \in toRelay[s] : m[2] = "host" => m[1] \in handled
    /\ \A r \in Requests : phase[r] = "done" /\ answers[r][1] = "host" => r \in handled

IInv == RelayBooks /\ ClientBooks /\ WireType /\ TransitOK

-----------------------------------------------------------------------------
(* A response put to a request that had none is its only one.              *)
LEMMA FirstAnswer ==
  ASSUME NEW o
  PROVE  Append(<<>>, o) = <<o>> /\ Len(<<o>>) = 1 /\ <<o>>[1] = o
  OBVIOUS

(* A relay without sockets or requests satisfies the invariant.            *)
LEMMA InitIInv == Init => IInv
<1> SUFFICES ASSUME Init PROVE IInv
  OBVIOUS
<1>1. RelayBooks
  BY HostRelayAssumption DEF Init, RelayBooks, RelayType, RelayStates, Phases, AnswersOK, PendingOK,
     ViaOK, SingleHost
<1>2. ClientBooks
  BY HostRelayAssumption DEF Init, ClientBooks, HostType, HostStates, AttemptOK, ClosedStaysQuiet, Up
<1>3. WireType /\ TransitOK
  BY DEF Init, WireType, TransitOK, PassedOn
<1> QED BY <1>1, <1>2, <1>3 DEF IInv

-----------------------------------------------------------------------------
(* The relay's steps.                                                      *)

(* Answering requests that #proxy is not done with keeps the books of the  *)
(* answers, whatever the answer is, and touches no other request.          *)
LEMMA Answering ==
  ASSUME NEW R \in SUBSET Requests, NEW o \in Outcomes,
         RelayType, AnswersOK,
         \A r \in R : phase[r] # "done",
         Respond(R, o), Finish(R)
  PROVE  /\ phase' \in [Requests -> Phases]
         /\ AnswersOK'
         /\ \A r \in Requests : r \notin R => phase'[r] = phase[r] /\ answers'[r] = answers[r]
         /\ \A r \in R : phase'[r] = "done" /\ answers'[r] = <<o>>
<1>1. phase' \in [Requests -> Phases]
  BY DEF Finish, RelayType, Phases
<1>2. \A r \in Requests : r \notin R => phase'[r] = phase[r] /\ answers'[r] = answers[r]
  BY DEF Finish, Respond
<1>3. ASSUME NEW r \in R PROVE phase'[r] = "done" /\ answers'[r] = <<o>>
  <2>1. answers[r] = <<>>
    BY DEF AnswersOK
  <2>2. answers'[r] = Append(answers[r], o) /\ phase'[r] = "done"
    BY DEF Finish, Respond
  <2> QED BY <2>1, <2>2, FirstAnswer
<1>4. DOMAIN answers' = Requests /\ answers' = [r \in Requests |-> answers'[r]]
  BY DEF Respond
<1>5. ASSUME NEW r \in Requests
      PROVE  IF phase'[r] = "done" THEN \E p \in Outcomes : answers'[r] = <<p>>
                                   ELSE answers'[r] = <<>>
  <2>1. CASE r \in R
    BY <2>1, <1>3
  <2>2. CASE r \notin R
    BY <2>2, <1>2 DEF AnswersOK
  <2> QED BY <2>1, <2>2
<1> QED BY <1>1, <1>2, <1>3, <1>4, <1>5 DEF AnswersOK

(* The relay's books are kept by each of its steps.                        *)
LEMMA RelayBooksKept == RelayBooks /\ RelayStep => RelayBooks'
<1> SUFFICES ASSUME RelayBooks, RelayStep PROVE RelayBooks'
  OBVIOUS
<1> USE DEF RelayBooks
<1>1. ASSUME NEW r \in Requests, Proxy(r) PROVE RelayBooks'
  <2>1. CASE \E o \in {"offline", "busy"} : Respond({r}, o) /\ Finish({r}) /\ UNCHANGED via
    <3>1. PICK o \in {"offline", "busy"} : Respond({r}, o) /\ Finish({r}) /\ UNCHANGED via
      BY <2>1
    <3>2. o \in Outcomes /\ {r} \in SUBSET Requests /\ \A q \in {r} : phase[q] # "done"
      BY <1>1 DEF Proxy, Outcomes, Refusals
    <3> HIDE DEF RelayBooks
    <3>3. /\ phase' \in [Requests -> Phases]
          /\ AnswersOK'
          /\ \A q \in Requests : q # r => phase'[q] = phase[q]
          /\ phase'[r] = "done"
      BY <3>1, <3>2, Answering DEF RelayBooks
    <3>4. UNCHANGED <<relayEnd, via, pending, timers>>
      BY <1>1, <3>1 DEF Proxy
    <3>5. phase[r] = "new"
      BY <1>1 DEF Proxy
    <3> QED BY <3>3, <3>4, <3>5 DEF RelayBooks, RelayType, PendingOK, ViaOK, SingleHost
  <2>2. CASE /\ \E s \in ConnectedHosts : via' = [via EXCEPT ![r] = s]
             /\ phase' = [phase EXCEPT ![r] = "body"]
             /\ UNCHANGED answers
    <3>1. PICK s \in Sockets : via' = [via EXCEPT ![r] = s]
      BY <2>2 DEF ConnectedHosts
    <3>2. UNCHANGED <<relayEnd, pending, timers>> /\ phase[r] = "new"
      BY <1>1 DEF Proxy
    <3>3. RelayType'
      BY <2>2, <3>1, <3>2 DEF RelayType, Phases
    <3>4. AnswersOK'
      BY <2>2, <3>2 DEF AnswersOK, RelayType
    <3>5. PendingOK' /\ ViaOK' /\ SingleHost'
      BY <2>2, <3>1, <3>2 DEF PendingOK, ViaOK, SingleHost, RelayType
    <3> QED BY <3>3, <3>4, <3>5
  <2> QED BY <1>1, <2>1, <2>2 DEF Proxy
<1>2. ASSUME NEW r \in Requests, BodyRefused(r) PROVE RelayBooks'
  <2>0. PICK o \in {"invalid", "broken"} : Respond({r}, o)
    BY <1>2 DEF BodyRefused
  <2>1. /\ o \in Outcomes /\ {r} \in SUBSET Requests
        /\ \A q \in {r} : phase[q] # "done"
    BY <1>2 DEF BodyRefused, Outcomes, Refusals
  <2>2. Respond({r}, o) /\ Finish({r}) /\ phase[r] = "body"
        /\ UNCHANGED <<relayEnd, via, pending, timers>>
    BY <1>2, <2>0 DEF BodyRefused
  <2>3. /\ phase' \in [Requests -> Phases]
        /\ AnswersOK'
        /\ \A q \in Requests : q # r => phase'[q] = phase[q]
        /\ phase'[r] = "done"
    BY <2>1, <2>2, Answering
  <2> QED BY <2>2, <2>3 DEF RelayType, PendingOK, ViaOK, SingleHost
<1>3. ASSUME NEW r \in Requests, BodyRead(r) PROVE RelayBooks'
  <2>1. CASE Respond({r}, "gone") /\ Finish({r}) /\ UNCHANGED <<pending, timers>>
    <3>1. /\ "gone" \in Outcomes /\ {r} \in SUBSET Requests
          /\ \A q \in {r} : phase[q] # "done"
      BY <1>3 DEF BodyRead, Outcomes
    <3>2. phase[r] = "body" /\ UNCHANGED <<relayEnd, via>>
      BY <1>3 DEF BodyRead
    <3>3. /\ phase' \in [Requests -> Phases]
          /\ AnswersOK'
          /\ \A q \in Requests : q # r => phase'[q] = phase[q]
          /\ phase'[r] = "done"
      BY <2>1, <3>1, Answering
    <3> QED BY <2>1, <3>2, <3>3 DEF RelayType, PendingOK, ViaOK, SingleHost
  <2>2. CASE /\ pending' = pending \cup {r}
             /\ timers' = timers \cup {r}
             /\ phase' = [phase EXCEPT ![r] = "waiting"]
             /\ UNCHANGED answers
    <3>1. phase[r] = "body" /\ UNCHANGED <<relayEnd, via>>
      BY <1>3 DEF BodyRead
    <3>2. RelayType' /\ AnswersOK'
      BY <2>2, <3>1 DEF RelayType, Phases, AnswersOK
    <3>3. PendingOK' /\ ViaOK' /\ SingleHost'
      BY <2>2, <3>1 DEF RelayType, PendingOK, ViaOK, SingleHost
    <3> QED BY <3>2, <3>3
  <2> QED BY <1>3, <2>1, <2>2 DEF BodyRead
<1>4. ASSUME NEW R \in SUBSET Requests, NEW o \in Outcomes,
             R \subseteq pending, pending' = pending \ R, timers' = timers \ R,
             Respond(R, o), Finish(R), UNCHANGED via,
             relayEnd' \in [Sockets -> RelayStates], SingleHost'
      PROVE  RelayBooks'
  <2>1. \A q \in R : phase[q] # "done"
    BY <1>4 DEF PendingOK
  <2>2. /\ phase' \in [Requests -> Phases]
        /\ AnswersOK'
        /\ \A q \in Requests : q \notin R => phase'[q] = phase[q]
        /\ \A q \in R : phase'[q] = "done"
    BY <1>4, <2>1, Answering
  <2> QED BY <1>4, <2>2 DEF RelayType, PendingOK, ViaOK
<1>5. ASSUME NEW r \in Requests, RequestTimeout(r) PROVE RelayBooks'
  <2>1. /\ {r} \in SUBSET Requests /\ {r} \subseteq pending
        /\ "late" \in Outcomes
    BY <1>5 DEF RequestTimeout, PendingOK, Outcomes
  <2>2. relayEnd' \in [Sockets -> RelayStates] /\ SingleHost'
    BY <1>5 DEF RequestTimeout, RelayType, SingleHost
  <2> QED BY <1>4, <1>5, <2>1, <2>2 DEF RequestTimeout
<1>6. ASSUME NEW s \in Sockets, NEW r \in Requests, NEW reply \in Replies,
             WebSocketMessage(s, r, reply)
      PROVE  RelayBooks'
  <2>1. relayEnd' \in [Sockets -> RelayStates] /\ SingleHost'
    BY <1>6 DEF WebSocketMessage, RelayType, SingleHost
  <2>2. CASE r \notin pending
    BY <1>6, <2>1, <2>2
    DEF WebSocketMessage, RelayType, AnswersOK, PendingOK, ViaOK
  <2>3. CASE r \in pending
    BY <1>4, <1>6, <2>1, <2>3 DEF WebSocketMessage, Outcomes
  <2> QED BY <2>2, <2>3
<1>7. ASSUME NEW s \in Sockets, WebSocketClose(s) PROVE RelayBooks'
  <2>1. relayEnd' \in [Sockets -> RelayStates] /\ SingleHost'
    BY <1>7 DEF WebSocketClose, RelayType, RelayStates, SingleHost
  <2>2. CASE FinishPending
    <3>1. pending \in SUBSET Requests /\ "gone" \in Outcomes /\ pending \ pending = {}
      BY DEF RelayType, Outcomes
    <3> QED BY <1>4, <1>7, <2>1, <2>2, <3>1 DEF WebSocketClose, FinishPending
  <2>3. CASE UNCHANGED <<pending, timers, phase, answers>>
    BY <1>7, <2>1, <2>3 DEF WebSocketClose, RelayType, AnswersOK, PendingOK, ViaOK
  <2> QED BY <1>7, <2>2, <2>3 DEF WebSocketClose
<1>8. ASSUME NEW s \in Sockets, Accept(s) PROVE RelayBooks'
  <2>1. relayEnd' \in [Sockets -> RelayStates] /\ SingleHost'
    BY <1>8 DEF Accept, RelayType, RelayStates, SingleHost, ConnectedHosts
  <2> QED BY <1>8, <2>1 DEF Accept, RelayType, AnswersOK, PendingOK, ViaOK
<1>9. ASSUME RelayRestarts PROVE RelayBooks'
  <2> DEFINE carried == {r \in Requests : phase[r] \in {"body", "waiting"}}
  <2>1. relayEnd' \in [Sockets -> RelayStates] /\ SingleHost'
    BY <1>9 DEF RelayRestarts, RelayType, RelayStates, SingleHost
  <2>2. /\ pending' = {} /\ timers' = {} /\ UNCHANGED via
        /\ Respond(carried, "reset") /\ Finish(carried)
    BY <1>9 DEF RelayRestarts
  <2>3. /\ carried \in SUBSET Requests /\ "reset" \in Outcomes
        /\ \A q \in carried : phase[q] # "done"
    BY DEF Outcomes
  <2>4. \A q \in Requests : q \notin carried => phase[q] \notin {"body", "waiting"}
    OBVIOUS
  <2> HIDE DEF carried
  <2>5. /\ phase' \in [Requests -> Phases]
        /\ AnswersOK'
        /\ \A q \in Requests : q \notin carried => phase'[q] = phase[q]
        /\ \A q \in carried : phase'[q] = "done"
    BY <2>2, <2>3, Answering
  <2> QED BY <2>1, <2>2, <2>4, <2>5 DEF RelayType, PendingOK, ViaOK
<1>10. ASSUME NEW s \in Sockets, NEW r \in Requests, NEW reply \in Replies,
              WebSocketRefuses(s, r, reply)
       PROVE  RelayBooks'
  <2>1. relayEnd' \in [Sockets -> RelayStates] /\ SingleHost'
    BY <1>10 DEF WebSocketRefuses, RelayType, RelayStates, SingleHost
  <2> QED BY <1>10, <2>1 DEF WebSocketRefuses, RelayType, AnswersOK, PendingOK, ViaOK
<1> QED BY <1>1, <1>2, <1>3, <1>5, <1>6, <1>7, <1>8, <1>9, <1>10 DEF RelayStep

-----------------------------------------------------------------------------
(* The Host's steps.                                                       *)

(* The client's books are kept by each of its steps.                       *)
LEMMA ClientBooksKept == ClientBooks /\ HostStep => ClientBooks'
<1> SUFFICES ASSUME ClientBooks, HostStep PROVE ClientBooks'
  OBVIOUS
<1> USE HostRelayAssumption DEF ClientBooks
<1>1. ASSUME ReconnectTimerFires PROVE ClientBooks'
  <2>1. ~closed /\ discovering = 0 /\ Up = {}
    BY <1>1 DEF ReconnectTimerFires, AttemptOK, ClosedStaysQuiet
  <2>2. /\ timer' = FALSE /\ discovering' = 1
        /\ UNCHANGED <<hostEnd, socket, closed, forwarding, handled>>
    BY <1>1, <2>1 DEF ReconnectTimerFires
  <2>3. Up' = {}
    BY <2>1, <2>2 DEF Up
  <2>4. HostType'
    BY <2>2 DEF HostType
  <2>5. AttemptOK'
    BY <2>1, <2>2, <2>3 DEF AttemptOK
  <2> QED BY <2>1, <2>2, <2>4, <2>5 DEF ClosedStaysQuiet
<1>2. ASSUME DiscoveryFails PROVE ClientBooks'
  <2>1. HostType'
    BY <1>2 DEF DiscoveryFails, ScheduleReconnect, HostType
  <2>2. CASE closed
    BY <1>2, <2>1, <2>2 DEF DiscoveryFails, ScheduleReconnect, AttemptOK, ClosedStaysQuiet
  <2>3. CASE ~closed
    <3>1. discovering = 1 /\ Up = {}
      BY <1>2, <2>3 DEF DiscoveryFails, AttemptOK
    <3>2. timer' /\ discovering' = 0 /\ UNCHANGED <<hostEnd, socket, closed>>
      <4>1. discovering' = 0
        BY <1>2, <3>1 DEF DiscoveryFails
      <4>2. timer' /\ UNCHANGED <<hostEnd, socket, closed>>
        BY <1>2, <2>3, Zenon DEF DiscoveryFails, ScheduleReconnect
      <4> QED BY <4>1, <4>2
    <3>3. Up' = {}
      BY <3>1, <3>2 DEF Up
    <3>4. AttemptOK'
      BY <2>3, <3>2, <3>3 DEF AttemptOK
    <3> QED BY <2>1, <2>3, <3>2, <3>4 DEF ClosedStaysQuiet
  <2> QED BY <2>2, <2>3
<1>3. ASSUME Close PROVE ClientBooks'
  <2>1. HostType'
    BY <1>3 DEF Close, HostType, HostStates
  <2>2. ASSUME NEW s \in Sockets PROVE hostEnd'[s] \notin {"handshake", "open"}
    <3>1. CASE s = socket
      BY <1>3, <3>1 DEF Close
    <3>2. CASE s # socket
      BY <1>3, <3>2 DEF Close, AttemptOK, Up
    <3> QED BY <3>1, <3>2
  <2> QED BY <1>3, <2>1, <2>2 DEF Close, AttemptOK, ClosedStaysQuiet
<1>4. ASSUME NEW s \in Sockets, DiscoveryReturns(s) PROVE ClientBooks'
  <2>1. CASE closed /\ UNCHANGED <<hostEnd, socket>>
    BY <1>4, <2>1 DEF DiscoveryReturns, HostType, AttemptOK, ClosedStaysQuiet
  <2>2. CASE ~closed /\ hostEnd' = [hostEnd EXCEPT ![s] = "handshake"] /\ socket' = s
    <3>1. HostType'
      BY <1>4, <2>2 DEF DiscoveryReturns, HostType, HostStates
    <3>2. Up = {} /\ ~timer /\ discovering = 1
      BY <1>4, <2>2 DEF DiscoveryReturns, AttemptOK
    <3>3. Up' = {s}
      BY <2>2, <3>2 DEF Up, HostType
    <3> QED BY <1>4, <2>2, <3>1, <3>2, <3>3
            DEF DiscoveryReturns, AttemptOK, ClosedStaysQuiet
  <2> QED BY <1>4, <2>1, <2>2 DEF DiscoveryReturns
<1>5. ASSUME NEW s \in Sockets, Opened(s) PROVE ClientBooks'
  <2>1. HostType'
    BY <1>5 DEF Opened, HostType, HostStates
  <2>2. Up' = Up
    BY <1>5 DEF Opened, Up, HostType
  <2>3. ~closed
    BY <1>5 DEF Opened, ClosedStaysQuiet
  <2> QED BY <1>5, <2>1, <2>2, <2>3 DEF Opened, AttemptOK, ClosedStaysQuiet
<1>6. ASSUME NEW s \in Sockets, Closed(s) PROVE ClientBooks'
  <2>1. HostType'
    BY <1>6 DEF Closed, ScheduleReconnect, HostType, HostStates
  <2>2. CASE closed
    BY <1>6, <2>1, <2>2
    DEF Closed, ScheduleReconnect, AttemptOK, ClosedStaysQuiet, HostType
  <2>3. CASE ~closed
    <3>1. s \in Up
      BY <1>6, <2>3 DEF Closed, AttemptOK, Up
    <3>2. ~timer /\ discovering = 0 /\ Up = {s}
      BY <2>3, <3>1 DEF AttemptOK
    <3>3. Up' = {}
      BY <1>6, <3>2 DEF Closed, Up, HostType
    <3> QED BY <1>6, <2>1, <2>3, <3>2, <3>3
            DEF Closed, ScheduleReconnect, AttemptOK, ClosedStaysQuiet
  <2> QED BY <2>2, <2>3
<1>7. ASSUME UNCHANGED <<hostEnd, socket, discovering, timer, closed>>,
             forwarding' \subseteq Sockets \X Requests, handled' \subseteq Requests
      PROVE  ClientBooks'
  BY <1>7 DEF HostType, AttemptOK, ClosedStaysQuiet, Up
<1>8. ASSUME NEW s \in Sockets, NEW r \in Requests,
             Message(s, r) \/ LocalServerHandles(s, r)
                \/ ForwardReturns(s, r) \/ ForwardFails(s, r)
      PROVE  ClientBooks'
  <2>1. CASE Message(s, r)
    BY <1>7, <2>1 DEF Message, HostType
  <2>2. CASE LocalServerHandles(s, r)
    BY <1>7, <2>2 DEF LocalServerHandles, HostType
  <2>3. CASE ForwardReturns(s, r) \/ ForwardFails(s, r)
    BY <1>7, <2>3 DEF ForwardReturns, ForwardFails, SendReply, HostType
  <2> QED BY <1>8, <2>1, <2>2, <2>3
<1>9. ASSUME NEW s \in Sockets, NEW r \in Requests, MessageRefused(s, r) PROVE ClientBooks'
  <2>1. /\ UNCHANGED <<socket, discovering, timer, closed, forwarding, handled>>
        /\ hostEnd' = [hostEnd EXCEPT ![s] = "closing"]
        /\ hostEnd[s] \in {"open", "closing"}
    BY <1>9 DEF MessageRefused
  <2>2. HostType'
    BY <2>1 DEF HostType, HostStates
  <2>3. Up' = Up
    BY <2>1 DEF Up, HostType
  <2>4. AttemptOK'
    BY <2>1, <2>3 DEF AttemptOK
  <2>5. ClosedStaysQuiet'
    BY <2>1 DEF ClosedStaysQuiet, HostType
  <2> QED BY <2>2, <2>4, <2>5
<1> QED BY <1>1, <1>2, <1>3, <1>4, <1>5, <1>6, <1>8, <1>9 DEF HostStep

-----------------------------------------------------------------------------
(* The wire.                                                               *)

(* Where a step of the relay may leave a request: what was passed on stays *)
(* so, and the Host's answer is given to a request it has performed.       *)
LEMMA RelayTransitKept == IInv /\ RelayStep => WireType' /\ TransitOK'
<1> SUFFICES ASSUME IInv, RelayStep PROVE WireType' /\ TransitOK'
  OBVIOUS
<1> USE DEF IInv, RelayBooks
<1>1. hostVars' = hostVars
  BY DEF RelayStep, Proxy, BodyRefused, BodyRead, RequestTimeout, WebSocketMessage,
         WebSocketRefuses, WebSocketClose, Accept, RelayRestarts
<1>2. ASSUME \A r \in Requests : PassedOn(r) => PassedOn(r)',
             \A r \in Requests : (phase'[r] = "done" /\ answers'[r][1] = "host")
                                   => r \in handled,
             toHost' \in [Sockets -> SUBSET Requests],
             toRelay' \in [Sockets -> SUBSET (Requests \X Replies)],
             \A s \in Sockets : \A r \in toHost'[s] : PassedOn(r)',
             \A s \in Sockets : toRelay'[s] \subseteq toRelay[s]
      PROVE  WireType' /\ TransitOK'
  <2>1. forwarding' = forwarding /\ handled' = handled
    BY <1>1 DEF hostVars
  <2>2. \A f \in forwarding : f[2] \in Requests
    BY DEF ClientBooks, HostType
  <2>3. \A f \in forwarding' : PassedOn(f[2])'
    BY <1>2, <2>1, <2>2 DEF TransitOK
  <2>4. \A r \in handled' : PassedOn(r)'
    BY <1>2, <2>1 DEF TransitOK, ClientBooks, HostType
  <2>5. \A s \in Sockets : \A m \in toRelay'[s] : m[2] = "host" => m[1] \in handled'
    BY <1>2, <2>1 DEF TransitOK
  <2> QED BY <1>2, <2>1, <2>3, <2>4, <2>5 DEF TransitOK, WireType
<1>3. \A s \in Sockets : \A r \in toHost[s] : r \in Requests /\ PassedOn(r)
  BY DEF TransitOK, WireType
<1>4. ASSUME NEW R \in SUBSET Requests, NEW o \in Outcomes,
             Respond(R, o), Finish(R),
             \A r \in R : phase[r] \in {"new", "body", "waiting"},
             \A r \in R : phase[r] = "waiting" => o \notin Refusals,
             \A r \in R : o = "host" => r \in handled,
             UNCHANGED toHost,
             toRelay' \in [Sockets -> SUBSET (Requests \X Replies)],
             \A s \in Sockets : toRelay'[s] \subseteq toRelay[s]
      PROVE  WireType' /\ TransitOK'
  <2>1. \A r \in R : phase[r] # "done"
    BY <1>4
  <2>2. /\ \A r \in Requests : r \notin R => phase'[r] = phase[r] /\ answers'[r] = answers[r]
        /\ \A r \in R : phase'[r] = "done" /\ answers'[r] = <<o>>
    BY <1>4, <2>1, Answering
  <2>3. \A r \in R : answers'[r][1] = o
    BY <2>2
  <2>4. \A r \in Requests : PassedOn(r) => PassedOn(r)'
    BY <1>4, <2>2, <2>3 DEF PassedOn
  <2>5. \A r \in Requests : (phase'[r] = "done" /\ answers'[r][1] = "host") => r \in handled
    BY <1>4, <2>2, <2>3 DEF TransitOK
  <2>6. \A s \in Sockets : \A r \in toHost'[s] : PassedOn(r)'
    BY <1>3, <1>4, <2>4
  <2> QED BY <1>2, <1>4, <2>4, <2>5, <2>6 DEF WireType
<1>5. ASSUME UNCHANGED <<phase, answers, toHost>>,
             toRelay' \in [Sockets -> SUBSET (Requests \X Replies)],
             \A s \in Sockets : toRelay'[s] \subseteq toRelay[s]
      PROVE  WireType' /\ TransitOK'
  <2>1. \A r \in Requests : PassedOn(r) => PassedOn(r)'
    BY <1>5 DEF PassedOn
  <2>2. \A r \in Requests : (phase'[r] = "done" /\ answers'[r][1] = "host") => r \in handled
    BY <1>5 DEF TransitOK
  <2>3. \A s \in Sockets : \A r \in toHost'[s] : PassedOn(r)'
    BY <1>3, <1>5, <2>1
  <2> QED BY <1>2, <1>5, <2>1, <2>2, <2>3 DEF WireType
<1>6. ASSUME NEW r \in Requests, NEW p \in {"body", "waiting"},
             phase' = [phase EXCEPT ![r] = p], phase[r] \in {"new", "body"},
             UNCHANGED <<answers, toRelay>>,
             toHost' \in [Sockets -> SUBSET Requests],
             \A s \in Sockets : \A q \in toHost'[s] : q \in toHost[s] \/ (q = r /\ p = "waiting")
      PROVE  WireType' /\ TransitOK'
  <2>1. phase'[r] = p /\ \A q \in Requests : q # r => phase'[q] = phase[q]
    BY <1>6 DEF RelayType
  <2>2. \A q \in Requests : PassedOn(q) => PassedOn(q)'
    BY <1>6, <2>1 DEF PassedOn
  <2>3. \A q \in Requests : (phase'[q] = "done" /\ answers'[q][1] = "host") => q \in handled
    BY <1>6, <2>1 DEF TransitOK
  <2>4. p = "waiting" => PassedOn(r)'
    BY <2>1 DEF PassedOn
  <2>5. \A s \in Sockets : \A q \in toHost'[s] : PassedOn(q)'
    BY <1>3, <1>6, <2>2, <2>4
  <2> QED BY <1>2, <1>6, <2>2, <2>3, <2>5 DEF WireType
<1>7. ASSUME NEW r \in Requests, Proxy(r) PROVE WireType' /\ TransitOK'
  <2>1. phase[r] = "new" /\ UNCHANGED <<toHost, toRelay>>
    BY <1>7 DEF Proxy, wireVars
  <2>2. CASE \E o \in {"offline", "busy"} : Respond({r}, o) /\ Finish({r})
    <3>1. PICK o \in {"offline", "busy"} : Respond({r}, o) /\ Finish({r})
      BY <2>2
    <3>2. o \in Outcomes /\ o # "host" /\ {r} \in SUBSET Requests
      BY DEF Outcomes, Refusals
    <3> QED BY <1>4, <2>1, <3>1, <3>2 DEF WireType
  <2>3. CASE phase' = [phase EXCEPT ![r] = "body"] /\ UNCHANGED answers
    BY <1>6, <2>1, <2>3 DEF WireType
  <2> QED BY <1>7, <2>2, <2>3 DEF Proxy
<1>8. ASSUME NEW r \in Requests, BodyRefused(r) PROVE WireType' /\ TransitOK'
  <2>1. PICK o \in {"invalid", "broken"} : Respond({r}, o)
    BY <1>8 DEF BodyRefused
  <2>2. o \in Outcomes /\ o # "host" /\ {r} \in SUBSET Requests
    BY DEF Outcomes, Refusals
  <2> QED BY <1>4, <1>8, <2>1, <2>2 DEF BodyRefused, wireVars, WireType
<1>9. ASSUME NEW r \in Requests, BodyRead(r) PROVE WireType' /\ TransitOK'
  <2>1. CASE Respond({r}, "gone") /\ Finish({r}) /\ UNCHANGED toHost
    <3>1. "gone" \in Outcomes /\ "gone" \notin Refusals /\ {r} \in SUBSET Requests
      BY DEF Outcomes, Refusals
    <3> QED BY <1>4, <1>9, <2>1, <3>1 DEF BodyRead, WireType
  <2>2. CASE /\ phase' = [phase EXCEPT ![r] = "waiting"]
             /\ toHost' = IF relayEnd[via[r]] = "open"
                             THEN [toHost EXCEPT ![via[r]] = @ \cup {r}]
                             ELSE toHost
             /\ UNCHANGED answers
    <3>1. via[r] \in Sockets /\ phase[r] = "body" /\ UNCHANGED toRelay
      BY <1>9 DEF BodyRead, ViaOK
    <3>2. /\ toHost' \in [Sockets -> SUBSET Requests]
          /\ \A s \in Sockets : \A q \in toHost'[s] : q \in toHost[s] \/ q = r
      BY <2>2, <3>1 DEF WireType
    <3> QED BY <1>6, <2>2, <3>1, <3>2
  <2> QED BY <1>9, <2>1, <2>2 DEF BodyRead
<1>10. ASSUME NEW r \in Requests, RequestTimeout(r) PROVE WireType' /\ TransitOK'
  <2>1. "late" \in Outcomes /\ "late" \notin Refusals /\ {r} \in SUBSET Requests
    BY DEF Outcomes, Refusals
  <2>2. phase[r] = "waiting"
    BY <1>10 DEF RequestTimeout, PendingOK
  <2> QED BY <1>4, <1>10, <2>1, <2>2 DEF RequestTimeout, wireVars, WireType
<1>11. ASSUME NEW s \in Sockets, NEW r \in Requests, NEW reply \in Replies,
              WebSocketMessage(s, r, reply)
       PROVE  WireType' /\ TransitOK'
  <2>1. /\ toRelay' \in [Sockets -> SUBSET (Requests \X Replies)]
        /\ \A t \in Sockets : toRelay'[t] \subseteq toRelay[t]
    BY <1>11 DEF WebSocketMessage, WireType
  <2>2. CASE r \notin pending
    BY <1>5, <1>11, <2>1, <2>2 DEF WebSocketMessage
  <2>3. CASE r \in pending
    <3>1. phase[r] = "waiting"
      BY <2>3 DEF PendingOK
    <3>2. reply = "host" => r \in handled
      <4>1. <<r, reply>> \in toRelay[s] /\ <<r, reply>>[1] = r /\ <<r, reply>>[2] = reply
        BY <1>11 DEF WebSocketMessage
      <4> QED BY <4>1 DEF TransitOK
    <3>3. reply \in Outcomes /\ reply \notin Refusals /\ {r} \in SUBSET Requests
      BY DEF Outcomes, Refusals, Replies
    <3>4. Respond({r}, reply) /\ Finish({r}) /\ UNCHANGED toHost
      BY <1>11, <2>3 DEF WebSocketMessage
    <3> QED BY <1>4, <2>1, <3>1, <3>2, <3>3, <3>4
  <2> QED BY <2>2, <2>3
<1>12. ASSUME NEW s \in Sockets, WebSocketClose(s) PROVE WireType' /\ TransitOK'
  <2>1. /\ toRelay' \in [Sockets -> SUBSET (Requests \X Replies)]
        /\ \A t \in Sockets : toRelay'[t] \subseteq toRelay[t]
    BY <1>12 DEF WebSocketClose, WireType
  <2>2. CASE FinishPending
    <3>1. "gone" \in Outcomes /\ "gone" \notin Refusals /\ pending \in SUBSET Requests
      BY DEF Outcomes, Refusals, RelayType
    <3>2. \A r \in pending : phase[r] = "waiting"
      BY <3>1 DEF PendingOK
    <3> QED BY <1>4, <1>12, <2>1, <2>2, <3>1, <3>2 DEF FinishPending, WebSocketClose
  <2>3. CASE UNCHANGED <<pending, timers, phase, answers>>
    BY <1>5, <1>12, <2>1, <2>3 DEF WebSocketClose
  <2> QED BY <1>12, <2>2, <2>3 DEF WebSocketClose
<1>13. ASSUME NEW s \in Sockets, Accept(s) PROVE WireType' /\ TransitOK'
  BY <1>5, <1>13 DEF Accept, wireVars, WireType
<1>14. ASSUME RelayRestarts PROVE WireType' /\ TransitOK'
  <2> DEFINE carried == {r \in Requests : phase[r] \in {"body", "waiting"}}
  <2>1. /\ toRelay' \in [Sockets -> SUBSET (Requests \X Replies)]
        /\ \A t \in Sockets : toRelay'[t] \subseteq toRelay[t]
    BY <1>14 DEF RelayRestarts, WireType
  <2>2. Respond(carried, "reset") /\ Finish(carried) /\ UNCHANGED toHost
    BY <1>14 DEF RelayRestarts
  <2>3. /\ carried \in SUBSET Requests /\ "reset" \in Outcomes /\ "reset" \notin Refusals
        /\ \A r \in carried : phase[r] \in {"new", "body", "waiting"}
    BY DEF Outcomes, Refusals
  <2> HIDE DEF carried
  <2> QED BY <1>4, <2>1, <2>2, <2>3
<1>15. ASSUME NEW s \in Sockets, NEW r \in Requests, NEW reply \in Replies,
              WebSocketRefuses(s, r, reply)
       PROVE  WireType' /\ TransitOK'
  <2>1. /\ toRelay' \in [Sockets -> SUBSET (Requests \X Replies)]
        /\ \A t \in Sockets : toRelay'[t] \subseteq toRelay[t]
    BY <1>15 DEF WebSocketRefuses, WireType
  <2> QED BY <1>5, <1>15, <2>1 DEF WebSocketRefuses
<1> QED BY <1>7, <1>8, <1>9, <1>10, <1>11, <1>12, <1>13, <1>14, <1>15 DEF RelayStep

(* The Host forwards only what reached it and answers for its server only  *)
(* what that server performed.                                             *)
LEMMA HostTransitKept == IInv /\ HostStep => WireType' /\ TransitOK'
<1> SUFFICES ASSUME IInv, HostStep PROVE WireType' /\ TransitOK'
  OBVIOUS
<1> USE DEF IInv
<1>1. relayVars' = relayVars
  BY DEF HostStep, ReconnectTimerFires, DiscoveryFails, Close, DiscoveryReturns, Opened,
         Closed, Message, MessageRefused, LocalServerHandles, ForwardReturns, ForwardFails, SendReply
<1>2. phase' = phase /\ answers' = answers
  BY <1>1 DEF relayVars
<1>3. ASSUME toHost' \in [Sockets -> SUBSET Requests],
             toRelay' \in [Sockets -> SUBSET (Requests \X Replies)],
             \A s \in Sockets : toHost'[s] \subseteq toHost[s],
             \A s \in Sockets : \A m \in toRelay'[s] :
                 m \in toRelay[s] \/ (m[2] = "host" => m[1] \in handled'),
             \A f \in forwarding' : f \in forwarding \/ PassedOn(f[2]),
             \A r \in handled' : r \in handled \/ PassedOn(r),
             handled \subseteq handled'
      PROVE  WireType' /\ TransitOK'
  <2>1. \A r \in Requests : PassedOn(r) = PassedOn(r)'
    BY <1>2 DEF PassedOn
  <2>2. \A s \in Sockets : \A r \in toHost'[s] : PassedOn(r)'
    BY <1>2, <1>3 DEF TransitOK, PassedOn
  <2>3. \A f \in forwarding' : PassedOn(f[2])'
    BY <1>2, <1>3 DEF TransitOK, PassedOn
  <2>4. \A r \in handled' : PassedOn(r)'
    BY <1>2, <1>3 DEF TransitOK, PassedOn
  <2>5. \A s \in Sockets : \A m \in toRelay'[s] : m[2] = "host" => m[1] \in handled'
    BY <1>3 DEF TransitOK
  <2>6. \A r \in Requests : phase'[r] = "done" /\ answers'[r][1] = "host" => r \in handled'
    BY <1>2, <1>3 DEF TransitOK
  <2> QED BY <1>3, <2>2, <2>3, <2>4, <2>5, <2>6 DEF TransitOK, WireType
<1>4. ASSUME UNCHANGED <<toHost, toRelay, forwarding, handled>> PROVE WireType' /\ TransitOK'
  BY <1>3, <1>4 DEF WireType
<1>5. ASSUME ReconnectTimerFires \/ DiscoveryFails \/ Close PROVE WireType' /\ TransitOK'
  BY <1>4, <1>5 DEF ReconnectTimerFires, DiscoveryFails, Close, wireVars
<1>6. ASSUME NEW s \in Sockets, DiscoveryReturns(s) \/ Opened(s) PROVE WireType' /\ TransitOK'
  BY <1>4, <1>6 DEF DiscoveryReturns, Opened, wireVars
<1>7. ASSUME NEW s \in Sockets, Closed(s) PROVE WireType' /\ TransitOK'
  <2>1. UNCHANGED <<toRelay, forwarding, handled>>
    BY <1>7 DEF Closed
  <2>2. /\ toHost' \in [Sockets -> SUBSET Requests]
        /\ \A t \in Sockets : toHost'[t] \subseteq toHost[t]
    BY <1>7 DEF Closed, WireType
  <2> QED BY <1>3, <2>1, <2>2 DEF WireType
<1>8. ASSUME NEW s \in Sockets, NEW r \in Requests, Message(s, r)
      PROVE  WireType' /\ TransitOK'
  <2>1. /\ UNCHANGED <<toRelay, handled>> /\ r \in toHost[s]
        /\ forwarding' = forwarding \cup {<<s, r>>}
    BY <1>8 DEF Message
  <2>2. /\ toHost' \in [Sockets -> SUBSET Requests]
        /\ \A t \in Sockets : toHost'[t] \subseteq toHost[t]
    BY <1>8 DEF Message, WireType
  <2>3. PassedOn(r) /\ <<s, r>>[2] = r
    BY <2>1 DEF TransitOK
  <2>4. \A f \in forwarding' : f \in forwarding \/ PassedOn(f[2])
    BY <2>1, <2>3
  <2> QED BY <1>3, <2>1, <2>2, <2>4 DEF WireType
<1>9. ASSUME NEW s \in Sockets, NEW r \in Requests, LocalServerHandles(s, r)
      PROVE  WireType' /\ TransitOK'
  <2>1. /\ UNCHANGED <<toHost, toRelay, forwarding>> /\ <<s, r>> \in forwarding
        /\ handled' = handled \cup {r}
    BY <1>9 DEF LocalServerHandles, wireVars
  <2>2. PassedOn(r)
    <3>1. <<s, r>>[2] = r
      OBVIOUS
    <3> QED BY <2>1, <3>1 DEF TransitOK
  <2> QED BY <1>3, <2>1, <2>2 DEF WireType
<1>10. ASSUME NEW s \in Sockets, NEW r \in Requests, NEW reply \in Replies,
              SendReply(s, r, reply), reply = "host" => r \in handled
       PROVE  WireType' /\ TransitOK'
  <2>1. UNCHANGED <<toHost, handled>> /\ forwarding' = forwarding \ {<<s, r>>}
    BY <1>10 DEF SendReply
  <2>2. /\ toRelay' \in [Sockets -> SUBSET (Requests \X Replies)]
        /\ \A t \in Sockets : \A m \in toRelay'[t] : m \in toRelay[t] \/ m = <<r, reply>>
    BY <1>10 DEF SendReply, WireType
  <2>3. <<r, reply>>[1] = r /\ <<r, reply>>[2] = reply
    OBVIOUS
  <2>4. \A t \in Sockets : \A m \in toRelay'[t] :
             m \in toRelay[t] \/ (m[2] = "host" => m[1] \in handled')
    BY <1>10, <2>1, <2>2, <2>3
  <2> QED BY <1>3, <2>1, <2>2, <2>4 DEF WireType
<1>11. ASSUME NEW s \in Sockets, NEW r \in Requests, ForwardReturns(s, r) \/ ForwardFails(s, r)
       PROVE  WireType' /\ TransitOK'
  BY <1>10, <1>11 DEF ForwardReturns, ForwardFails, Replies
<1>12. ASSUME NEW s \in Sockets, NEW r \in Requests, MessageRefused(s, r)
       PROVE  WireType' /\ TransitOK'
  <2>1. UNCHANGED <<toRelay, forwarding, handled>>
    BY <1>12 DEF MessageRefused
  <2>2. /\ toHost' \in [Sockets -> SUBSET Requests]
        /\ \A t \in Sockets : toHost'[t] \subseteq toHost[t]
    BY <1>12 DEF MessageRefused, WireType
  <2> QED BY <1>3, <2>1, <2>2 DEF WireType
<1> QED BY <1>5, <1>6, <1>7, <1>8, <1>9, <1>11, <1>12 DEF HostStep

-----------------------------------------------------------------------------
(* The theorems.                                                           *)

(* The invariant is inductive: a step of the relay leaves the client's     *)
(* books alone and a step of the Host those of the relay.                  *)
LEMMA NextIInv == IInv /\ [Next]_vars => IInv'
<1> SUFFICES ASSUME IInv, [Next]_vars PROVE IInv'
  OBVIOUS
<1>1. CASE RelayStep
  <2>1. hostVars' = hostVars
    BY <1>1 DEF RelayStep, Proxy, BodyRefused, BodyRead, RequestTimeout, WebSocketMessage,
           WebSocketRefuses, WebSocketClose, Accept, RelayRestarts
  <2>2. ClientBooks'
    BY <2>1 DEF IInv, hostVars, ClientBooks, HostType, AttemptOK, ClosedStaysQuiet, Up
  <2> QED BY <1>1, <2>2, RelayBooksKept, RelayTransitKept DEF IInv
<1>2. CASE HostStep
  <2>1. relayVars' = relayVars
    BY <1>2 DEF HostStep, ReconnectTimerFires, DiscoveryFails, Close, DiscoveryReturns, Opened,
           Closed, Message, MessageRefused, LocalServerHandles, ForwardReturns, ForwardFails, SendReply
  <2>2. RelayBooks'
    BY <2>1 DEF IInv, relayVars, RelayBooks, RelayType, AnswersOK, PendingOK, ViaOK, SingleHost
  <2> QED BY <1>2, <2>2, ClientBooksKept, HostTransitKept DEF IInv
<1>3. CASE UNCHANGED vars
  <2>1. RelayBooks'
    BY <1>3 DEF vars, relayVars, IInv, RelayBooks, RelayType, AnswersOK, PendingOK, ViaOK, SingleHost
  <2>2. ClientBooks'
    BY <1>3 DEF vars, hostVars, IInv, ClientBooks, HostType, AttemptOK, ClosedStaysQuiet, Up
  <2>3. WireType' /\ TransitOK'
    BY <1>3 DEF vars, relayVars, wireVars, hostVars, IInv, WireType, TransitOK, PassedOn
  <2> QED BY <2>1, <2>2, <2>3 DEF IInv
<1> QED BY <1>1, <1>2, <1>3 DEF Next

(* Hence the invariant holds in every reachable state.                     *)
LEMMA SpecIInv == Spec => []IInv
<1>1. Init => IInv
  BY InitIInv
<1>2. IInv /\ [Next]_vars => IInv'
  BY NextIInv
<1> QED BY <1>1, <1>2, PTL DEF Spec

(* #proxy's promise is resolved exactly once, whatever replies, timeouts,  *)
(* disconnections and restarts of the relay arrive and in whatever order.  *)
THEOREM EveryRequestAnsweredOnce == Spec => []AnsweredOnce
<1>1. IInv => AnsweredOnce
  <2> SUFFICES ASSUME IInv, NEW r \in Requests
               PROVE  /\ (r \in pending) = (phase[r] = "waiting")
                      /\ (r \in timers) = (r \in pending)
                      /\ Len(answers[r]) = IF phase[r] = "done" THEN 1 ELSE 0
    BY DEF AnsweredOnce
  <2>1. /\ (r \in pending) = (phase[r] = "waiting")
        /\ (r \in timers) = (r \in pending)
    BY DEF IInv, RelayBooks, PendingOK
  <2>2. CASE phase[r] = "done"
    <3>1. PICK o \in Outcomes : answers[r] = <<o>>
      BY <2>2 DEF IInv, RelayBooks, AnswersOK
    <3> QED BY <2>1, <2>2, <3>1
  <2>3. CASE phase[r] # "done"
    BY <2>1, <2>3 DEF IInv, RelayBooks, AnswersOK
  <2> QED BY <2>2, <2>3
<1> QED BY <1>1, SpecIInv, PTL

(* Both ends' books: one open Host socket at the relay; at the Host, until *)
(* close(), exactly one of reconnection timer, discovery and connection,   *)
(* and after close() none of them that could still open a socket.          *)
THEOREM ConnectionBooks == Spec => []ConnectionInvariant
<1>1. IInv => TypeOK
  <2> SUFFICES ASSUME IInv PROVE TypeOK
    OBVIOUS
  <2>1. answers \in [Requests -> Seq(Outcomes)]
    <3>1. ASSUME NEW r \in Requests PROVE answers[r] \in Seq(Outcomes)
      <4>1. CASE phase[r] = "done"
        <5>1. PICK o \in Outcomes : answers[r] = <<o>>
          BY <4>1 DEF IInv, RelayBooks, AnswersOK
        <5> QED BY <5>1
      <4>2. CASE phase[r] # "done"
        <5>1. answers[r] = <<>>
          BY <4>2 DEF IInv, RelayBooks, AnswersOK
        <5> QED BY <5>1
      <4> QED BY <4>1, <4>2
    <3> QED BY <3>1 DEF IInv, RelayBooks, AnswersOK
  <2> QED BY <2>1 DEF IInv, RelayBooks, RelayType, ClientBooks, HostType, WireType, TypeOK
<1>2. IInv => OneOpenHost
  <2> SUFFICES ASSUME IInv PROVE Cardinality(ConnectedHosts) <= 1
    BY DEF OneOpenHost
  <2>1. CASE ConnectedHosts = {}
    BY <2>1, FS_EmptySet
  <2>2. CASE ConnectedHosts # {}
    <3>1. PICK s : s \in ConnectedHosts
      BY <2>2
    <3>2. ConnectedHosts = {s}
      BY <3>1 DEF ConnectedHosts, IInv, RelayBooks, SingleHost
    <3>3. Cardinality({s}) = 1
      BY FS_Singleton
    <3> QED BY <3>2, <3>3
  <2> QED BY <2>1, <2>2
<1>3. IInv => OneAttempt
  <2> SUFFICES ASSUME IInv, ~closed PROVE Attempts = 1
    BY DEF OneAttempt
  <2>1. Attempts = (IF timer THEN 1 ELSE 0) + discovering + Cardinality(Up)
    BY DEF Attempts, Up
  <2>2. Cardinality({}) = 0 /\ Cardinality({socket}) = 1
    BY FS_EmptySet, FS_Singleton
  <2>3. CASE timer /\ discovering = 0 /\ Up = {}
    BY <2>1, <2>2, <2>3
  <2>4. CASE ~timer /\ discovering = 1 /\ Up = {}
    BY <2>1, <2>2, <2>4
  <2>5. CASE ~timer /\ discovering = 0 /\ Up = {socket}
    BY <2>1, <2>2, <2>5
  <2> QED BY <2>3, <2>4, <2>5 DEF IInv, ClientBooks, AttemptOK
<1>4. IInv => ClosedStaysQuiet
  BY DEF IInv, ClientBooks
<1>5. IInv => ConnectionInvariant
  BY <1>1, <1>2, <1>3, <1>4 DEF ConnectionInvariant
<1> QED BY <1>5, SpecIInv, PTL

(* The close event of a socket that was replaced fails no request that     *)
(* travels on the socket which replaced it: "the Host disconnected" is     *)
(* only ever told of a request whose own socket is not open afterwards.    *)
THEOREM ReplacedSocketFailsNobody == Spec => NewHostKeepsItsRequests
<1> DEFINE Told(r) == Len(answers'[r]) > Len(answers[r]) /\ answers'[r][Len(answers'[r])] = "gone"
<1>1. IInv /\ IInv' /\ [Next]_vars => [\A r \in Requests : Told(r) => relayEnd'[via[r]] # "open"]_vars
  <2> SUFFICES ASSUME IInv, IInv', Next, NEW r \in Requests, Told(r)
               PROVE  relayEnd'[via[r]] # "open"
    BY DEF vars
  <2> USE DEF IInv, RelayBooks
  <2>1. phase[r] # "done" /\ answers[r] = <<>>
    <3>1. CASE phase[r] = "done"
      <4>1. PICK o \in Outcomes : answers[r] = <<o>>
        BY <3>1 DEF AnswersOK
      <4>2. Len(answers'[r]) \in {0, 1}
        <5>1. CASE phase'[r] = "done"
          <6>1. PICK p \in Outcomes : answers'[r] = <<p>>
            BY <5>1 DEF AnswersOK
          <6> QED BY <6>1
        <5>2. CASE phase'[r] # "done"
          <6>1. answers'[r] = <<>>
            BY <5>2 DEF AnswersOK
          <6> QED BY <6>1
        <5> QED BY <5>1, <5>2
      <4>3. Len(answers[r]) = 1
        BY <4>1
      <4> QED BY <4>2, <4>3
    <3> QED BY <3>1 DEF AnswersOK
  <2>2. answers'[r] # answers[r]
    BY <2>1
  <2>3. ASSUME NEW R \in SUBSET Requests, NEW o \in Outcomes, Respond(R, o), Finish(R),
               \A q \in R : phase[q] # "done"
        PROVE  r \in R /\ o = "gone"
    <3>1. /\ r \notin R => answers'[r] = answers[r]
          /\ r \in R => answers'[r] = <<o>>
      BY <2>3, Answering
    <3>2. r \in R /\ answers'[r] = <<o>>
      BY <2>2, <3>1
    <3>3. Len(answers'[r]) = 1 /\ answers'[r][1] = o
      BY <3>2
    <3> QED BY <3>2, <3>3
  <2>4. ASSUME NEW q \in Requests, Proxy(q) PROVE FALSE
    <3>1. phase[q] # "done" /\ {q} \in SUBSET Requests
      BY <2>4 DEF Proxy
    <3>2. ~ \E o \in {"offline", "busy"} : Respond({q}, o) /\ Finish({q})
      BY <2>3, <3>1 DEF Outcomes, Refusals
    <3> QED BY <2>2, <2>4, <3>2 DEF Proxy
  <2>5. ASSUME NEW q \in Requests, BodyRefused(q) PROVE FALSE
    <3>1. PICK o \in {"invalid", "broken"} : Respond({q}, o)
      BY <2>5 DEF BodyRefused
    <3>2. o \in Outcomes /\ o # "gone" /\ {q} \in SUBSET Requests
      BY DEF Outcomes, Refusals
    <3> QED BY <2>3, <2>5, <3>1, <3>2 DEF BodyRefused
  <2>6. ASSUME NEW q \in Requests, BodyRead(q) PROVE relayEnd'[via[r]] # "open"
    <3>1. CASE Respond({q}, "gone") /\ Finish({q}) /\ relayEnd[via[q]] # "open"
      <4>1. r = q
        BY <2>3, <2>6, <3>1 DEF BodyRead, Outcomes
      <4> QED BY <2>6, <3>1, <4>1 DEF BodyRead
    <3> QED BY <2>2, <2>6, <3>1 DEF BodyRead
  <2>7. ASSUME NEW q \in Requests, RequestTimeout(q) PROVE FALSE
    <3>1. phase[q] # "done"
      BY <2>7 DEF RequestTimeout, PendingOK
    <3> QED BY <2>3, <2>7, <3>1 DEF RequestTimeout, Outcomes
  <2>8. ASSUME NEW s \in Sockets, NEW q \in Requests, NEW reply \in Replies,
               WebSocketMessage(s, q, reply)
        PROVE  FALSE
    <3>1. q \in pending
      BY <2>2, <2>8 DEF WebSocketMessage
    <3>2. phase[q] # "done" /\ Respond({q}, reply) /\ Finish({q})
      BY <2>8, <3>1 DEF WebSocketMessage, PendingOK
    <3>3. reply \in Outcomes /\ reply # "gone" /\ {q} \in SUBSET Requests
      BY DEF Outcomes, Replies
    <3> QED BY <2>3, <3>2, <3>3
  <2>9. ASSUME NEW s \in Sockets, WebSocketClose(s) PROVE relayEnd'[via[r]] # "open"
    <3>1. FinishPending /\ ConnectedHosts \ {s} = {}
      BY <2>2, <2>9 DEF WebSocketClose
    <3>2. /\ pending \in SUBSET Requests /\ "gone" \in Outcomes
          /\ \A q \in pending : phase[q] # "done"
      BY DEF RelayType, PendingOK, Outcomes
    <3>3. r \in pending
      BY <2>3, <3>1, <3>2 DEF FinishPending
    <3>4. via[r] \in Sockets
      BY <3>3 DEF PendingOK, ViaOK
    <3> QED BY <2>9, <3>1, <3>4 DEF WebSocketClose, ConnectedHosts, RelayType
  <2>10. ASSUME RelayRestarts PROVE FALSE
    <3> DEFINE carried == {q \in Requests : phase[q] \in {"body", "waiting"}}
    <3>1. Respond(carried, "reset") /\ Finish(carried)
      BY <2>10 DEF RelayRestarts
    <3>2. carried \in SUBSET Requests /\ \A q \in carried : phase[q] # "done"
      OBVIOUS
    <3> HIDE DEF carried
    <3> QED BY <2>3, <3>1, <3>2 DEF Outcomes
  <2>11. ASSUME NEW s \in Sockets, Accept(s) PROVE FALSE
    BY <2>2, <2>11 DEF Accept
  <2>12. ASSUME HostStep PROVE FALSE
    <3>1. relayVars' = relayVars
      BY <2>12 DEF HostStep, ReconnectTimerFires, DiscoveryFails, Close, DiscoveryReturns, Opened,
             Closed, Message, MessageRefused, LocalServerHandles, ForwardReturns, ForwardFails, SendReply
    <3> QED BY <2>2, <3>1 DEF relayVars
  <2>13. ASSUME NEW s \in Sockets, NEW q \in Requests, NEW reply \in Replies,
                WebSocketRefuses(s, q, reply)
         PROVE  FALSE
    BY <2>2, <2>13 DEF WebSocketRefuses
  <2> QED BY <2>4, <2>5, <2>6, <2>7, <2>8, <2>9, <2>10, <2>11, <2>12, <2>13 DEF Next, RelayStep
<1> QED BY <1>1, SpecIInv, PTL DEF Spec, NewHostKeepsItsRequests

(* What the contract's caller sees of an answer.                           *)
Seen(o) == CASE o = "host" -> "answered"
             [] o \in Refusals -> "refused"
             [] OTHER -> "abandoned"

(* Answering a set of requests changes what their callers see to what the  *)
(* answer is, and nothing else.                                            *)
LEMMA ContractStateAfter ==
  ASSUME NEW R \in SUBSET Requests, NEW o \in Outcomes,
         RelayType, AnswersOK,
         \A r \in R : phase[r] # "done",
         Respond(R, o), Finish(R)
  PROVE  contractState' = [r \in Requests |-> IF r \in R THEN Seen(o) ELSE contractState[r]]
<1>1. /\ \A r \in Requests : r \notin R => phase'[r] = phase[r] /\ answers'[r] = answers[r]
      /\ \A r \in R : phase'[r] = "done" /\ answers'[r] = <<o>>
  BY Answering
<1>2. \A r \in R : answers'[r][1] = o
  BY <1>1
<1>3. \A r \in Requests : r \notin R => Outcome(r)' = Outcome(r)
  BY <1>1 DEF Outcome
<1>4. \A r \in R : Outcome(r)' = Seen(o)
  BY <1>1, <1>2 DEF Outcome, Seen
<1> QED BY <1>3, <1>4 DEF contractState

(* Relay and Host implement the safety part of the relay's contract: each  *)
(* of their steps is one of the contract's or changes nothing a caller     *)
(* sees, so the Host's answer is only given for a request its server       *)
(* performed, and a refused request is never performed.                    *)
THEOREM RelayContractSafety ==
  Spec => Contract!ContractInit /\ [][Contract!ContractNext]_(Contract!contractVars)
<1> USE DEF Contract!contractVars
<1>1. Init => Contract!ContractInit
  BY DEF Init, Contract!ContractInit, contractState, Outcome
<1>2. IInv /\ [Next]_vars => [Contract!ContractNext]_(Contract!contractVars)
  <2> SUFFICES ASSUME IInv, [Next]_vars PROVE [Contract!ContractNext]_(Contract!contractVars)
    OBVIOUS
  <2> USE DEF IInv, RelayBooks
  <2>1. /\ \A r \in Requests : phase[r] = "new" => contractState[r] = "idle"
        /\ \A r \in Requests : phase[r] = "body" => contractState[r] = "asked"
        /\ \A r \in Requests : phase[r] = "waiting" => contractState[r] = "passed"
    BY DEF contractState, Outcome
  <2>2. \A r \in handled : phase[r] \notin {"new", "body"}
    BY DEF TransitOK, PassedOn
  <2>3. ASSUME NEW r \in Requests, NEW p \in Phases, phase' = [phase EXCEPT ![r] = p],
               p # "done", UNCHANGED answers
        PROVE  contractState' = [contractState EXCEPT ![r] = CASE p = "new" -> "idle"
                                                               [] p = "body" -> "asked"
                                                               [] p = "waiting" -> "passed"]
    <3>1. phase'[r] = p /\ \A q \in Requests : q # r => phase'[q] = phase[q]
      BY <2>3 DEF RelayType
    <3>2. \A q \in Requests : q # r => Outcome(q)' = Outcome(q)
      BY <2>3, <3>1 DEF Outcome
    <3>3. Outcome(r)' = CASE p = "new" -> "idle" [] p = "body" -> "asked" [] p = "waiting" -> "passed"
      BY <2>3, <3>1 DEF Outcome, Phases
    <3> QED BY <3>2, <3>3 DEF contractState
  <2>4. ASSUME NEW r \in Requests, NEW o \in Refusals, Respond({r}, o), Finish({r}),
               phase[r] \in {"new", "body"}, UNCHANGED handled
        PROVE  Contract!ContractNext
    <3>1. contractState' = [q \in Requests |-> IF q \in {r} THEN Seen(o) ELSE contractState[q]]
      BY <2>4, ContractStateAfter DEF Outcomes
    <3>2. Seen(o) = "refused"
      BY DEF Seen, Refusals
    <3>3. contractState' = [contractState EXCEPT ![r] = "refused"]
      BY <3>1, <3>2 DEF contractState
    <3>4. contractState[r] \in {"idle", "asked"} /\ r \notin handled
      BY <2>1, <2>2, <2>4
    <3>5. Contract!Refuse(r)
      BY <2>4, <3>3, <3>4 DEF Contract!Refuse
    <3> QED BY <3>5 DEF Contract!ContractNext
  <2>5. ASSUME NEW R \in SUBSET Requests, NEW o \in Outcomes \ (Refusals \cup {"host"}),
               Respond(R, o), Finish(R),
               \A r \in R : phase[r] \in {"body", "waiting"}, UNCHANGED handled
        PROVE  Contract!ContractNext
    <3>1. contractState' = [q \in Requests |-> IF q \in R THEN Seen(o) ELSE contractState[q]]
      BY <2>5, ContractStateAfter
    <3>2. Seen(o) = "abandoned"
      BY DEF Seen
    <3>3. \A r \in R : contractState[r] \in {"asked", "passed"}
      BY <2>1, <2>5
    <3>4. Contract!GiveUp(R)
      BY <2>5, <3>1, <3>2, <3>3 DEF Contract!GiveUp
    <3> QED BY <3>4 DEF Contract!ContractNext
  <2>6. ASSUME UNCHANGED <<phase, answers, handled>>
        PROVE  UNCHANGED Contract!contractVars
    BY <2>6 DEF contractState, Outcome
  <2>7. ASSUME NEW r \in Requests, Proxy(r) PROVE Contract!ContractNext
    <3>1. phase[r] = "new" /\ UNCHANGED handled
      BY <2>7 DEF Proxy, hostVars
    <3>2. CASE \E o \in {"offline", "busy"} : Respond({r}, o) /\ Finish({r})
      BY <2>4, <3>1, <3>2 DEF Refusals
    <3>3. CASE phase' = [phase EXCEPT ![r] = "body"] /\ UNCHANGED answers
      <4>1. contractState' = [contractState EXCEPT ![r] = "asked"]
        BY <2>3, <3>3 DEF Phases
      <4>2. Contract!Ask(r)
        BY <2>1, <3>1, <4>1 DEF Contract!Ask
      <4> QED BY <4>2 DEF Contract!ContractNext
    <3> QED BY <2>7, <3>2, <3>3 DEF Proxy
  <2>8. ASSUME NEW r \in Requests, BodyRefused(r) PROVE Contract!ContractNext
    <3>1. PICK o \in {"invalid", "broken"} : Respond({r}, o)
      BY <2>8 DEF BodyRefused
    <3> QED BY <2>4, <2>8, <3>1 DEF BodyRefused, Refusals, hostVars
  <2>9. ASSUME NEW r \in Requests, BodyRead(r) PROVE Contract!ContractNext
    <3>1. phase[r] = "body" /\ UNCHANGED handled
      BY <2>9 DEF BodyRead, hostVars
    <3>2. CASE Respond({r}, "gone") /\ Finish({r})
      BY <2>5, <3>1, <3>2 DEF Outcomes, Refusals
    <3>3. CASE phase' = [phase EXCEPT ![r] = "waiting"] /\ UNCHANGED answers
      <4>1. contractState' = [contractState EXCEPT ![r] = "passed"]
        BY <2>3, <3>3 DEF Phases
      <4>2. Contract!PassOn(r)
        BY <2>1, <3>1, <4>1 DEF Contract!PassOn
      <4> QED BY <4>2 DEF Contract!ContractNext
    <3> QED BY <2>9, <3>2, <3>3 DEF BodyRead
  <2>10. ASSUME NEW r \in Requests, RequestTimeout(r) PROVE Contract!ContractNext
    <3>1. phase[r] = "waiting"
      BY <2>10 DEF RequestTimeout, PendingOK
    <3>2. Respond({r}, "late") /\ Finish({r}) /\ UNCHANGED handled
      BY <2>10 DEF RequestTimeout, hostVars
    <3>3. "late" \in Outcomes \ (Refusals \cup {"host"}) /\ {r} \in SUBSET Requests
      BY DEF Outcomes, Refusals
    <3> QED BY <2>5, <3>1, <3>2, <3>3
  <2>11. ASSUME NEW s \in Sockets, NEW r \in Requests, NEW reply \in Replies,
                WebSocketMessage(s, r, reply)
         PROVE  [Contract!ContractNext]_(Contract!contractVars)
    <3>1. CASE r \notin pending
      BY <2>6, <2>11, <3>1 DEF WebSocketMessage, hostVars
    <3>2. CASE r \in pending
      <4>1. /\ phase[r] = "waiting" /\ {r} \in SUBSET Requests
            /\ Respond({r}, reply) /\ Finish({r}) /\ UNCHANGED handled
        BY <2>11, <3>2 DEF WebSocketMessage, hostVars, PendingOK
      <4>2. CASE reply = "failed"
        BY <2>5, <4>1, <4>2 DEF Outcomes, Replies, Refusals
      <4>3. CASE reply = "host"
        <5>1. r \in handled
          <6>1. <<r, reply>> \in toRelay[s] /\ <<r, reply>>[1] = r /\ <<r, reply>>[2] = reply
            BY <2>11 DEF WebSocketMessage
          <6> QED BY <4>3, <6>1 DEF TransitOK
        <5>2. contractState' = [q \in Requests |-> IF q \in {r} THEN Seen(reply) ELSE contractState[q]]
          BY <4>1, ContractStateAfter DEF Outcomes
        <5>3. contractState' = [contractState EXCEPT ![r] = "answered"]
          <6>1. Seen(reply) = "answered"
            BY <4>3 DEF Seen, Refusals
          <6> QED BY <5>2, <6>1 DEF contractState
        <5>4. Contract!Answer(r)
          BY <2>1, <4>1, <5>1, <5>3 DEF Contract!Answer
        <5> QED BY <5>4 DEF Contract!ContractNext
      <4> QED BY <4>2, <4>3 DEF Replies
    <3> QED BY <3>1, <3>2
  <2>12. ASSUME NEW s \in Sockets, WebSocketClose(s)
         PROVE  [Contract!ContractNext]_(Contract!contractVars)
    <3>1. CASE FinishPending
      <4>1. /\ pending \in SUBSET Requests /\ \A r \in pending : phase[r] \in {"body", "waiting"}
            /\ "gone" \in Outcomes \ (Refusals \cup {"host"})
        BY DEF RelayType, PendingOK, Outcomes, Refusals
      <4>2. Respond(pending, "gone") /\ Finish(pending) /\ UNCHANGED handled
        BY <2>12, <3>1 DEF WebSocketClose, FinishPending, hostVars
      <4> QED BY <2>5, <4>1, <4>2
    <3>2. CASE UNCHANGED <<pending, timers, phase, answers>>
      BY <2>6, <2>12, <3>2 DEF WebSocketClose, hostVars
    <3> QED BY <2>12, <3>1, <3>2 DEF WebSocketClose
  <2>13. ASSUME NEW s \in Sockets, Accept(s) PROVE UNCHANGED Contract!contractVars
    BY <2>6, <2>13 DEF Accept, hostVars
  <2>14. ASSUME RelayRestarts PROVE Contract!ContractNext
    <3> DEFINE carried == {r \in Requests : phase[r] \in {"body", "waiting"}}
    <3>1. Respond(carried, "reset") /\ Finish(carried) /\ UNCHANGED handled
      BY <2>14 DEF RelayRestarts, hostVars
    <3>2. /\ carried \in SUBSET Requests /\ \A r \in carried : phase[r] \in {"body", "waiting"}
          /\ "reset" \in Outcomes \ (Refusals \cup {"host"})
      BY DEF Outcomes, Refusals
    <3> HIDE DEF carried
    <3> QED BY <2>5, <3>1, <3>2
  <2>15. ASSUME NEW s \in Sockets, NEW r \in Requests, LocalServerHandles(s, r)
         PROVE  [Contract!ContractNext]_(Contract!contractVars)
    <3>1. UNCHANGED <<phase, answers>> /\ handled' = handled \cup {r} /\ <<s, r>> \in forwarding
      BY <2>15 DEF LocalServerHandles, relayVars
    <3>2. contractState' = contractState
      BY <3>1 DEF contractState, Outcome
    <3>3. CASE r \in handled
      BY <3>1, <3>2, <3>3
    <3>4. CASE r \notin handled
      <4>1. PassedOn(r)
        <5>1. <<s, r>>[2] = r
          OBVIOUS
        <5> QED BY <3>1, <5>1 DEF TransitOK
      <4>2. contractState[r] \in {"passed", "abandoned"}
        <5>1. CASE phase[r] = "waiting"
          BY <2>1, <5>1
        <5>2. CASE phase[r] = "done"
          <6>1. answers[r][1] # "host" /\ answers[r][1] \notin Refusals
            BY <3>4, <4>1, <5>2 DEF TransitOK, PassedOn
          <6> QED BY <5>2, <6>1 DEF contractState, Outcome
        <5> QED BY <4>1, <5>1, <5>2 DEF PassedOn
      <4>3. Contract!Perform(r)
        BY <3>1, <3>2, <4>2 DEF Contract!Perform
      <4> QED BY <4>3 DEF Contract!ContractNext
    <3> QED BY <3>3, <3>4
  <2>16. ASSUME ReconnectTimerFires \/ DiscoveryFails \/ Close
         PROVE  UNCHANGED Contract!contractVars
    BY <2>6, <2>16 DEF ReconnectTimerFires, DiscoveryFails, Close, relayVars
  <2>17. ASSUME NEW s \in Sockets, DiscoveryReturns(s) \/ Opened(s) \/ Closed(s)
         PROVE  UNCHANGED Contract!contractVars
    BY <2>6, <2>17 DEF DiscoveryReturns, Opened, Closed, relayVars
  <2>18. ASSUME NEW s \in Sockets, NEW r \in Requests,
                Message(s, r) \/ MessageRefused(s, r) \/ ForwardReturns(s, r) \/ ForwardFails(s, r)
         PROVE  UNCHANGED Contract!contractVars
    BY <2>6, <2>18 DEF Message, MessageRefused, ForwardReturns, ForwardFails, SendReply, relayVars
  <2>19. CASE UNCHANGED vars
    BY <2>6, <2>19 DEF vars, relayVars, hostVars
  <2>20. ASSUME NEW s \in Sockets, NEW r \in Requests, NEW reply \in Replies,
                WebSocketRefuses(s, r, reply)
         PROVE  UNCHANGED Contract!contractVars
    BY <2>6, <2>20 DEF WebSocketRefuses, hostVars
  <2> QED BY <2>7, <2>8, <2>9, <2>10, <2>11, <2>12, <2>13, <2>14, <2>15, <2>16, <2>17, <2>18, <2>19, <2>20
          DEF Next, RelayStep, HostStep
<1> QED BY <1>1, <1>2, SpecIInv, PTL DEF Spec
=============================================================================
