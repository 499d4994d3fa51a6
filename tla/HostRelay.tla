------------------------------ MODULE HostRelay ------------------------------
(***************************************************************************)
(* Polymux Connect's relay (apps/connect/relay/src/index.ts, HostRelay)    *)
(* and the Host's end of it (apps/desktop/src/main/team/host-relay.ts,     *)
(* TeamHostRelay).                                                         *)
(*                                                                         *)
(* The relay turns an HTTP request into a message on the one WebSocket the *)
(* Host holds open, parks the request in #pending and answers it from the  *)
(* Host's message, from a timer, or when the last Host socket is gone.     *)
(* The Host forwards each message to its own loopback server and replies   *)
(* on the socket the message came from, if that is still open.  Either end *)
(* may lose the connection at any time, in-flight messages with it; the    *)
(* Host reconnects, and a connection attempt may be accepted late.         *)
(***************************************************************************)
EXTENDS Naturals, FiniteSets, Sequences

CONSTANTS
    Requests,     \* the HTTP requests of the callers
    Sockets,      \* bound: the connections the Host may ever open
    NoSocket,
    MaxActive     \* MAX_ACTIVE_REQUESTS

ASSUME HostRelayAssumption ==
    /\ NoSocket \notin Sockets
    /\ MaxActive \in Nat

VARIABLES
    relayEnd,     \* [Sockets -> state of the relay's end]
    phase,        \* [Requests -> "new", "body", "waiting", "done"]: where #proxy is
    via,          \* [Requests -> the socket #proxy took before reading the body]
    pending,      \* #pending, the requests that wait for the Host
    timers,       \* the requests whose timeout is armed
    answers,      \* [Requests -> the responses given, one after the other]
    toHost,       \* [Sockets -> requests on their way to the Host]
    toRelay,      \* [Sockets -> replies on their way to the relay]
    hostEnd,      \* [Sockets -> state of the Host's end]
    socket,       \* the Host's #socket
    discovering,  \* #connect calls that await the endpoint's discovery
    timer,        \* the Host's #reconnectTimer is set
    closed,       \* the Host's #closed
    forwarding,   \* requests the Host is forwarding, with the socket they came on
    handled       \* requests the Host's own server has handled

relayVars == <<relayEnd, phase, via, pending, timers, answers>>
wireVars == <<toHost, toRelay>>
hostVars == <<hostEnd, socket, discovering, timer, closed, forwarding, handled>>
vars == <<relayVars, wireVars, hostVars>>

RelayStates == {"none", "open", "closing", "closed"}
HostStates == {"none", "handshake", "open", "closing", "closed"}
Phases == {"new", "body", "waiting", "done"}
Replies == {"host", "failed"}           \* the local server's answer, or 502
Refusals == {"offline", "busy", "invalid", "broken"}
Outcomes == Replies \cup Refusals \cup {"gone", "late", "reset"}

Init ==
    /\ relayEnd = [s \in Sockets |-> "none"]
    /\ phase = [r \in Requests |-> "new"]
    /\ via = [r \in Requests |-> NoSocket]
    /\ pending = {}
    /\ timers = {}
    /\ answers = [r \in Requests |-> <<>>]
    /\ toHost = [s \in Sockets |-> {}]
    /\ toRelay = [s \in Sockets |-> {}]
    /\ hostEnd = [s \in Sockets |-> "none"]
    /\ socket = NoSocket
    /\ discovering = 1                   \* start() has called #connect
    /\ timer = FALSE
    /\ closed = FALSE
    /\ forwarding = {}
    /\ handled = {}

-----------------------------------------------------------------------------
(* The relay.                                                              *)

\* #connectedHost: the sockets it may return (it returns one of them).
ConnectedHosts == {s \in Sockets : relayEnd[s] = "open"}

Respond(R, outcome) ==
    answers' = [r \in Requests |-> IF r \in R THEN Append(answers[r], outcome)
                                              ELSE answers[r]]
Finish(R) ==
    phase' = [r \in Requests |-> IF r \in R THEN "done" ELSE phase[r]]

\* #proxy up to its await of the body: offline, busy, or go on with the socket
\* that is open now.
Proxy(r) ==
    /\ phase[r] = "new"
    /\ \/ /\ ConnectedHosts = {}
          /\ Respond({r}, "offline")
          /\ Finish({r})
          /\ UNCHANGED via
       \/ /\ ConnectedHosts # {}
          /\ Cardinality(pending) >= MaxActive
          /\ Respond({r}, "busy")
          /\ Finish({r})
          /\ UNCHANGED via
       \/ /\ Cardinality(pending) < MaxActive
          /\ \E s \in ConnectedHosts : via' = [via EXCEPT ![r] = s]
          /\ phase' = [phase EXCEPT ![r] = "body"]
          /\ UNCHANGED answers
    /\ UNCHANGED <<relayEnd, pending, timers, wireVars, hostVars>>

\* The body is too large, or reading it failed: #proxy throws that error on, and
\* the caller gets the platform's error response.
BodyRefused(r) ==
    /\ phase[r] = "body"
    /\ \E o \in {"invalid", "broken"} : Respond({r}, o)
    /\ Finish({r})
    /\ UNCHANGED <<relayEnd, via, pending, timers, wireVars, hostVars>>

\* The rest of #proxy, on the socket captured before the await.  A send on a
\* socket that is no longer open throws or, when the peer closed it, may be lost
\* without a word.
BodyRead(r) ==
    /\ phase[r] = "body"
    /\ \/ /\ relayEnd[via[r]] # "open"
          /\ Respond({r}, "gone")
          /\ Finish({r})
          /\ UNCHANGED <<pending, timers, toHost>>
       \/ /\ relayEnd[via[r]] \in {"open", "closed"}
          /\ pending' = pending \cup {r}
          /\ timers' = timers \cup {r}
          /\ phase' = [phase EXCEPT ![r] = "waiting"]
          /\ toHost' = IF relayEnd[via[r]] = "open"
                          THEN [toHost EXCEPT ![via[r]] = @ \cup {r}]
                          ELSE toHost
          /\ UNCHANGED answers
    /\ UNCHANGED <<relayEnd, via, toRelay, hostVars>>

\* A mutated form: webSocketMessage forgets to clear the timer.
MessageKeepsTimer(s, r, reply) ==
    /\ relayEnd[s] # "closed"
    /\ <<r, reply>> \in toRelay[s]
    /\ toRelay' = [toRelay EXCEPT ![s] = @ \ {<<r, reply>>}]
    /\ \/ r \notin pending /\ UNCHANGED <<pending, timers, phase, answers>>
       \/ /\ r \in pending
          /\ pending' = pending \ {r}
          /\ Respond({r}, reply)
          /\ Finish({r})
          /\ UNCHANGED timers
    /\ UNCHANGED <<relayEnd, via, toHost, hostVars>>

\* webSocketMessage: a reply is matched by its id, whatever socket it came on;
\* one that nobody waits for any more is dropped.
WebSocketMessage(s, r, reply) ==
    /\ relayEnd[s] # "closed"
    /\ <<r, reply>> \in toRelay[s]
    /\ toRelay' = [toRelay EXCEPT ![s] = @ \ {<<r, reply>>}]
    /\ \/ r \notin pending /\ UNCHANGED <<pending, timers, phase, answers>>
       \/ /\ r \in pending
          /\ pending' = pending \ {r}
          /\ timers' = timers \ {r}
          /\ Respond({r}, reply)
          /\ Finish({r})
    /\ UNCHANGED <<relayEnd, via, toHost, hostVars>>

\* webSocketMessage's early returns: a message that is not a reply as this relay
\* knows them (a Host of another protocol version) closes the socket, and the
\* request it was about goes on waiting.
WebSocketRefuses(s, r, reply) ==
    /\ relayEnd[s] \in {"open", "closing"}
    /\ <<r, reply>> \in toRelay[s]
    /\ toRelay' = [toRelay EXCEPT ![s] = @ \ {<<r, reply>>}]
    /\ relayEnd' = [relayEnd EXCEPT ![s] = "closing"]
    /\ UNCHANGED <<phase, via, pending, timers, answers, toHost, hostVars>>

\* The timeout armed by #proxy.
RequestTimeout(r) ==
    /\ r \in timers
    /\ timers' = timers \ {r}
    /\ pending' = pending \ {r}
    /\ Respond({r}, "late")
    /\ Finish({r})
    /\ UNCHANGED <<relayEnd, via, wireVars, hostVars>>

\* #finishPending
FinishPending ==
    /\ pending' = {}
    /\ timers' = timers \ pending
    /\ Respond(pending, "gone")
    /\ Finish(pending)

\* A mutated form: a socket that closes fails every pending request, also those
\* that travel on the socket that replaced it.
CloseFailsEverything(s) ==
    /\ relayEnd[s] \in {"open", "closing"}
    /\ relayEnd' = [relayEnd EXCEPT ![s] = "closed"]
    /\ toRelay' = [toRelay EXCEPT ![s] = {}]
    /\ FinishPending
    /\ UNCHANGED <<via, toHost, hostVars>>

\* webSocketClose and webSocketError: the peer closed, or the connection broke.
WebSocketClose(s) ==
    /\ relayEnd[s] \in {"open", "closing"}
    /\ relayEnd' = [relayEnd EXCEPT ![s] = "closed"]
    /\ toRelay' = [toRelay EXCEPT ![s] = {}]
    /\ IF ConnectedHosts \ {s} = {}
          THEN FinishPending
          ELSE UNCHANGED <<pending, timers, phase, answers>>
    /\ UNCHANGED <<via, toHost, hostVars>>

\* #connect: the sockets the Host held are closed with 1012 and the new one is
\* accepted.  The Host may have abandoned the attempt meanwhile.
Accept(s) ==
    /\ relayEnd[s] = "none"
    /\ hostEnd[s] \in {"handshake", "closing", "closed"}
    /\ relayEnd' = [t \in Sockets |-> CASE t = s -> "open"
                                        [] t \in ConnectedHosts \ {s} -> "closing"
                                        [] OTHER -> relayEnd[t]]
    /\ UNCHANGED <<phase, via, pending, timers, answers, wireVars, hostVars>>

\* The Durable Object is restarted (a deployment, an eviction): its sockets and
\* its memory are gone.  The Worker returns the object's fetch without awaiting
\* it, so that its catch never sees the rejection: the requests it carried get
\* the platform's error response.
RelayRestarts ==
    LET carried == {r \in Requests : phase[r] \in {"body", "waiting"}}
        alive == {s \in Sockets : relayEnd[s] \in {"open", "closing"}}
    IN  /\ alive # {}
        /\ relayEnd' = [s \in Sockets |-> IF s \in alive THEN "closed" ELSE relayEnd[s]]
        /\ toRelay' = [s \in Sockets |-> IF s \in alive THEN {} ELSE toRelay[s]]
        /\ pending' = {}
        /\ timers' = {}
        /\ Respond(carried, "reset")
        /\ Finish(carried)
        /\ UNCHANGED <<via, toHost, hostVars>>

-----------------------------------------------------------------------------
(* The Host.                                                               *)

\* #scheduleReconnect: one timer, and none once the Host has closed.
ScheduleReconnect == timer' = (timer \/ ~closed)

ReconnectTimerFires ==
    /\ timer
    /\ timer' = FALSE
    /\ discovering' = discovering + 1
    /\ UNCHANGED <<relayVars, wireVars, hostEnd, socket, closed, forwarding, handled>>

DiscoveryFails ==
    /\ discovering > 0
    /\ discovering' = discovering - 1
    /\ ScheduleReconnect
    /\ UNCHANGED <<relayVars, wireVars, hostEnd, socket, closed, forwarding, handled>>

\* A mutated form: a connection is opened although the Host closed meanwhile.
OpensAfterClose(s) ==
    /\ discovering > 0
    /\ discovering' = discovering - 1
    /\ hostEnd[s] = "none"
    /\ hostEnd' = [hostEnd EXCEPT ![s] = "handshake"]
    /\ socket' = s
    /\ UNCHANGED <<relayVars, wireVars, timer, closed, forwarding, handled>>

\* #connect after its await: nothing if the Host closed meanwhile, else a new
\* WebSocket.
DiscoveryReturns(s) ==
    /\ discovering > 0
    /\ discovering' = discovering - 1
    /\ \/ closed /\ UNCHANGED <<hostEnd, socket>>
       \/ /\ ~closed
          /\ hostEnd[s] = "none"
          /\ hostEnd' = [hostEnd EXCEPT ![s] = "handshake"]
          /\ socket' = s
    /\ UNCHANGED <<relayVars, wireVars, timer, closed, forwarding, handled>>

\* The "open" event.
Opened(s) ==
    /\ hostEnd[s] = "handshake"
    /\ relayEnd[s] # "none"
    /\ hostEnd' = [hostEnd EXCEPT ![s] = "open"]
    /\ UNCHANGED <<relayVars, wireVars, socket, discovering, timer, closed,
                   forwarding, handled>>

\* The "close" event: the handshake failed or timed out (the rejected #connect
\* asks for a reconnection too), the relay closed, or the connection broke.
Closed(s) ==
    /\ hostEnd[s] \in {"handshake", "open", "closing"}
    /\ hostEnd' = [hostEnd EXCEPT ![s] = "closed"]
    /\ toHost' = [toHost EXCEPT ![s] = {}]
    /\ socket' = IF socket = s THEN NoSocket ELSE socket
    /\ ScheduleReconnect
    /\ UNCHANGED <<relayVars, toRelay, discovering, closed, forwarding, handled>>

\* close(): no timer, no socket, and the socket there was is closing.
Close ==
    /\ ~closed
    /\ closed' = TRUE
    /\ timer' = FALSE
    /\ socket' = NoSocket
    /\ hostEnd' = [s \in Sockets |-> IF s = socket THEN "closing" ELSE hostEnd[s]]
    /\ UNCHANGED <<relayVars, wireVars, discovering, forwarding, handled>>

\* #message: the request goes to #forward.
Message(s, r) ==
    /\ hostEnd[s] \in {"open", "closing"}
    /\ r \in toHost[s]
    /\ toHost' = [toHost EXCEPT ![s] = @ \ {r}]
    /\ forwarding' = forwarding \cup {<<s, r>>}
    /\ UNCHANGED <<relayVars, toRelay, hostEnd, socket, discovering, timer, closed, handled>>

\* #message's early returns: a request the Host does not accept (a header longer
\* than it allows, a relay of another protocol version) closes the socket, which
\* stays #socket until its close event.
MessageRefused(s, r) ==
    /\ hostEnd[s] \in {"open", "closing"}
    /\ r \in toHost[s]
    /\ toHost' = [toHost EXCEPT ![s] = @ \ {r}]
    /\ hostEnd' = [hostEnd EXCEPT ![s] = "closing"]
    /\ UNCHANGED <<relayVars, toRelay, socket, discovering, timer, closed, forwarding, handled>>

\* The Host's own server performs the request.
LocalServerHandles(s, r) ==
    /\ <<s, r>> \in forwarding
    /\ handled' = handled \cup {r}
    /\ UNCHANGED <<relayVars, wireVars, hostEnd, socket, discovering, timer, closed, forwarding>>

SendReply(s, r, reply) ==
    /\ forwarding' = forwarding \ {<<s, r>>}
    /\ toRelay' = IF hostEnd[s] = "open" /\ relayEnd[s] # "closed"
                     THEN [toRelay EXCEPT ![s] = @ \cup {<<r, reply>>}]
                     ELSE toRelay
    /\ UNCHANGED <<relayVars, toHost, hostEnd, socket, discovering, timer, closed, handled>>

\* A mutated form: the Host answers before its server has performed the request.
RepliesEarly(s, r) ==
    /\ <<s, r>> \in forwarding
    /\ SendReply(s, r, "host")

\* #forward after its await, on the socket the request came on.
ForwardReturns(s, r) ==
    /\ <<s, r>> \in forwarding
    /\ r \in handled
    /\ SendReply(s, r, "host")

\* #sendError: the local server did not answer in time, or not at all.
ForwardFails(s, r) ==
    /\ <<s, r>> \in forwarding
    /\ SendReply(s, r, "failed")

RelayStep ==
    \/ \E r \in Requests : Proxy(r) \/ BodyRefused(r) \/ BodyRead(r) \/ RequestTimeout(r)
    \/ \E s \in Sockets, r \in Requests, reply \in Replies :
          WebSocketMessage(s, r, reply) \/ WebSocketRefuses(s, r, reply)
    \/ \E s \in Sockets : WebSocketClose(s) \/ Accept(s)
    \/ RelayRestarts

HostStep ==
    \/ ReconnectTimerFires \/ DiscoveryFails \/ Close
    \/ \E s \in Sockets : DiscoveryReturns(s) \/ Opened(s) \/ Closed(s)
    \/ \E s \in Sockets, r \in Requests :
          \/ Message(s, r) \/ MessageRefused(s, r) \/ LocalServerHandles(s, r)
          \/ ForwardReturns(s, r) \/ ForwardFails(s, r)

Next == RelayStep \/ HostStep

\* setTimeout fires: the only fairness the relay's answers need.
Spec == Init /\ [][Next]_vars /\ \A r \in Requests : WF_vars(RequestTimeout(r))
-----------------------------------------------------------------------------
(* Properties.                                                             *)

TypeOK ==
    /\ relayEnd \in [Sockets -> RelayStates]
    /\ phase \in [Requests -> Phases]
    /\ via \in [Requests -> Sockets \cup {NoSocket}]
    /\ pending \subseteq Requests
    /\ timers \subseteq Requests
    /\ answers \in [Requests -> Seq(Outcomes)]
    /\ toHost \in [Sockets -> SUBSET Requests]
    /\ toRelay \in [Sockets -> SUBSET (Requests \X Replies)]
    /\ hostEnd \in [Sockets -> HostStates]
    /\ socket \in Sockets \cup {NoSocket}
    /\ discovering \in Nat
    /\ timer \in BOOLEAN
    /\ closed \in BOOLEAN
    /\ forwarding \subseteq Sockets \X Requests
    /\ handled \subseteq Requests

\* #proxy's promise is resolved exactly once: a request is in #pending, with its
\* timer armed, exactly as long as it waits unanswered, and one that is done has
\* one answer, whatever replies, timeouts and disconnections arrive.
AnsweredOnce ==
    \A r \in Requests :
        /\ (r \in pending) = (phase[r] = "waiting")
        /\ (r \in timers) = (r \in pending)
        /\ Len(answers[r]) = IF phase[r] = "done" THEN 1 ELSE 0

\* #connect leaves one open Host socket, so #connectedHost has no choice to make.
OneOpenHost == Cardinality(ConnectedHosts) <= 1

\* The close event of a socket that was replaced never fails the requests that
\* travel on the socket which replaced it: a request is only told that the Host
\* disconnected when its own socket is not open.
NewHostKeepsItsRequests ==
    [][\A r \in Requests :
           (Len(answers'[r]) > Len(answers[r]) /\ answers'[r][Len(answers'[r])] = "gone")
               => relayEnd'[via[r]] # "open"]_vars

\* The connection attempts of the Host: the timer, the discoveries under way and
\* the sockets whose close event, which asks for the next one, is still to come.
Attempts ==
    (IF timer THEN 1 ELSE 0) + discovering
        + Cardinality({s \in Sockets : hostEnd[s] \in {"handshake", "open", "closing"}})

\* A Host that has not closed is always connected or about to reconnect, and never
\* twice: two attempts would close each other's sockets at the relay for ever.
OneAttempt == ~closed => Attempts = 1

\* After close() nothing is opened any more, by a discovery that was under way
\* either, and no timer is left.
ClosedStaysQuiet ==
    closed => /\ ~timer
              /\ socket = NoSocket
              /\ \A s \in Sockets : hostEnd[s] \notin {"handshake", "open"}

\* The connection's books on both sides.
ConnectionInvariant == TypeOK /\ OneOpenHost /\ OneAttempt /\ ClosedStaysQuiet

\* The relay and the Host together implement what callers are promised.
Outcome(r) ==
    CASE phase[r] = "new" -> "idle"
      [] phase[r] = "body" -> "asked"
      [] phase[r] = "waiting" -> "passed"
      [] OTHER -> CASE answers[r][1] = "host" -> "answered"
                    [] answers[r][1] \in Refusals -> "refused"
                    [] OTHER -> "abandoned"

contractState == [r \in Requests |-> Outcome(r)]

Contract == INSTANCE RelayContract WITH state <- contractState, performed <- handled

\* Seen from outside, relay and Host answer once, answer for the Host only what
\* the Host performed, refuse only what the Host never performs, and leave nobody
\* waiting for a request that was passed on, also when its socket was replaced.
ImplementsRelayContract == Contract!ContractSpec
=============================================================================
