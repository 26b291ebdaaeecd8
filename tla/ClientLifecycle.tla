--------------------------- MODULE ClientLifecycle ---------------------------
(***************************************************************************)
(* The connection of a NatsClient, from the moment it was acquired.  What  *)
(* is published goes through a buffer to the socket; a flush is a PING in  *)
(* that same order, and each PONG answers the oldest PING.  The connection *)
(* may drop at any time, and a loop dials again, address by address.       *)
(*                                                                         *)
(* The scope of the client releases it: drain() drains the subscriptions,  *)
(* refuses to publish, flushes and closes; if that fails, or takes longer  *)
(* than drainTimeout, close() is called while the drain is still going on, *)
(* and both while the loop may be dialling.  A caller may have drained the *)
(* connection by itself before, through NatsClient.connection.             *)
(***************************************************************************)
EXTENDS Naturals, Sequences, SequencesExt

CONSTANTS MaxPubs,       \* bound: messages that are published
          MaxLosses,     \* bound: how often the connection drops
          MaxAttempts,   \* ReconnectOptions.maxAttempts, of the only server
          NumAddresses   \* addresses its host name resolves to

ASSUME MaxPubsAssumption == MaxPubs \in Nat
ASSUME MaxLossesAssumption == MaxLosses \in Nat
ASSUME MaxAttemptsAssumption == MaxAttempts \in Nat \ {0}
ASSUME NumAddressesAssumption == NumAddresses \in Nat \ {0}

Msgs == 1 .. MaxPubs
Ping == 0
Waiters == {"sub", "drain", "flush"}   \* who may wait for a PONG

VARIABLES
  connected,        \* the socket is open and the server has accepted it
  closed,           \* _closed
  draining,         \* NatsConnectionImpl.draining
  noMorePublishing,
  outbound,         \* what waits to be given to the socket
  wire,             \* what the socket has and the server has not
  pongs,            \* who waits for a PONG, oldest first
  dial,             \* the loop that dials, and its attempts and address
  sub,              \* a subscription: "open", "draining" or "closed"
  drain,            \* the promise of drain()
  flush,            \* the promise of a flush() the user has called
  release,          \* the finalizer of the client
  accepted,         \* history: messages that publish() has accepted
  promised,         \* history: those accepted before the flush was called
  received,         \* messages the server has received
  dropped,          \* history: messages lost with a connection
  losses            \* how often the connection has dropped

flags    == <<closed, draining, noMorePublishing>>
buffers  == <<outbound, wire, pongs>>
promises == <<sub, drain, flush>>
history  == <<accepted, promised, dropped>>
vars == <<connected, flags, buffers, dial, promises, release, history, received,
          losses>>

\* aborted: close() has refused the handshake and has taken away the timer of
\* this attempt.
NotDialling == [at |-> "none", attempts |-> 0, address |-> 0, aborted |-> FALSE]

Init ==
  /\ connected = TRUE
  /\ closed = FALSE /\ draining = FALSE /\ noMorePublishing = FALSE
  /\ outbound = << >> /\ wire = << >> /\ pongs = << >>
  /\ dial = NotDialling
  /\ sub \in {"open", "closed"}
  /\ drain = "none" /\ flush = "none" /\ release = "none"
  /\ accepted = {} /\ promised = {} /\ received = {} /\ dropped = {}
  /\ losses = 0

Published(s) == {n \in Msgs : Contains(s, n)}

\* sendCommand(): the buffer is flushed at once if there is a connection.
Send(x) ==
  IF connected THEN wire' = wire \o outbound \o <<x>> /\ outbound' = << >>
  ELSE outbound' = Append(outbound, x) /\ UNCHANGED wire

Await(who) == Send(Ping) /\ pongs' = Append(pongs, who)

-----------------------------------------------------------------------------
(* The promises that wait for PONGs *)

\* A drained subscription is cancelled however its flush ended, and a drain
\* whose flush is answered goes on to close.
Settle(whos, ok) ==
  /\ sub' = IF "sub" \in whos THEN "closed" ELSE sub
  /\ drain' = IF "drain" \notin whos THEN drain ELSE IF ok THEN "flushed" ELSE "failed"
  /\ flush' = IF "flush" \notin whos THEN flush ELSE IF ok THEN "ok" ELSE "failed"

\* The server takes what comes next.
ServerTakes ==
  /\ connected
  /\ wire # << >>
  /\ wire' = Tail(wire)
  /\ IF Head(wire) = Ping
     THEN pongs' = Tail(pongs) /\ Settle({Head(pongs)}, TRUE) /\ UNCHANGED received
     ELSE received' = received \cup {Head(wire)} /\ UNCHANGED <<pongs, promises>>
  /\ UNCHANGED <<connected, flags, outbound, dial, release, history, losses>>

-----------------------------------------------------------------------------
(* What the user calls *)

Publish ==
  \E n \in Msgs \ accepted :
    /\ ~closed /\ ~noMorePublishing
    /\ \A m \in Msgs : m < n => m \in accepted
    /\ Send(n)
    /\ accepted' = accepted \cup {n}
    /\ UNCHANGED <<connected, flags, pongs, dial, promises, release, promised,
                   received, dropped, losses>>

\* A fiber that is allowed to flush whenever the connection is not closed.
Flush ==
  /\ ~closed
  /\ flush = "none"
  /\ flush' = "waiting"
  /\ promised' = accepted
  /\ Await("flush")
  /\ UNCHANGED <<connected, flags, dial, sub, drain, release, accepted, dropped,
                 received, losses>>

BeginDrain ==
  /\ draining' = TRUE
  /\ drain' = "subscriptions"
  /\ IF sub = "open" THEN sub' = "draining" /\ Await("sub")
     ELSE UNCHANGED <<sub, buffers>>

CallerDrains ==
  /\ ~closed /\ ~draining
  /\ BeginDrain
  /\ UNCHANGED <<connected, closed, noMorePublishing, dial, flush, release, history,
                 received, losses>>

-----------------------------------------------------------------------------
(* Closing *)

\* The socket is not open yet, or the handshake is not answered yet.
Attempting == dial.at \in {"connect", "handshake"}

\* close(): subscriptions are closed, the handshake under way is refused, and
\* the socket is destroyed with all it was given.  Who waits for a PONG is not
\* told.
Close ==
  IF closed THEN UNCHANGED <<closed, sub, connected, wire, dial>>
  ELSE /\ closed' = TRUE
       /\ sub' = "closed"
       /\ connected' = FALSE
       /\ wire' = << >>
       /\ dial' = [dial EXCEPT !.aborted = Attempting]

\* Variant: publishing goes on while the drain waits for its flush.
SubscriptionsDrainedOnly ==
  /\ drain = "subscriptions"
  /\ ~Contains(pongs, "sub")
  /\ drain' = "flushing"
  /\ Await("drain")
  /\ UNCHANGED <<connected, flags, dial, sub, flush, release, history, received,
                 losses>>

\* Every subscription is drained or given up.
SubscriptionsDrained ==
  /\ drain = "subscriptions"
  /\ ~Contains(pongs, "sub")
  /\ noMorePublishing' = TRUE
  /\ drain' = "flushing"
  /\ Await("drain")
  /\ UNCHANGED <<connected, closed, draining, dial, sub, flush, release, history,
                 received, losses>>

DrainCloses ==
  /\ drain = "flushed"
  /\ Close
  /\ drain' = "done"
  /\ release' = IF release = "draining" THEN "closed" ELSE release
  /\ UNCHANGED <<draining, noMorePublishing, outbound, pongs, flush, history, received,
                 losses>>

-----------------------------------------------------------------------------
(* The finalizer of the client *)

\* drain() is refused on a connection that is closed or drains already.
Release ==
  /\ release = "none"
  /\ IF closed \/ draining
     THEN /\ release' = "closing"
          /\ UNCHANGED <<draining, drain, sub, buffers>>
     ELSE release' = "draining" /\ BeginDrain
  /\ UNCHANGED <<connected, closed, noMorePublishing, dial, flush, history, received,
                 losses>>

\* Variant: only a drain that fails is given up on.
ReleaseNeverTimesOut ==
  /\ release = "draining"
  /\ drain = "failed"
  /\ release' = "closing"
  /\ UNCHANGED <<connected, flags, buffers, dial, promises, history, received, losses>>

\* The drain fails, or drainTimeout is over; it is not stopped by that.
ReleaseGivesUp ==
  /\ release = "draining"
  /\ release' = "closing"
  /\ UNCHANGED <<connected, flags, buffers, dial, promises, history, received, losses>>

ReleaseCloses ==
  /\ release = "closing"
  /\ Close
  /\ release' = "closed"
  /\ UNCHANGED <<draining, noMorePublishing, outbound, pongs, drain, flush, history,
                 received, losses>>

-----------------------------------------------------------------------------
(* The connection drops, and the loop that dials *)

ConnectionLost ==
  /\ connected
  /\ losses < MaxLosses
  /\ losses' = losses + 1
  /\ connected' = FALSE
  /\ wire' = << >>
  /\ dropped' = dropped \cup Published(wire)
  /\ IF closed THEN UNCHANGED dial
     ELSE dial' = [NotDialling EXCEPT !.at = "loop"]
  /\ UNCHANGED <<flags, outbound, pongs, promises, release, accepted, promised, received>>

\* The server is tried again unless it was removed; its name is looked up.
NextAttempt ==
  /\ dial.at = "loop"
  /\ ~closed
  /\ dial.attempts < MaxAttempts
  /\ dial' = [dial EXCEPT !.at = "lookup", !.address = 1]
  /\ UNCHANGED <<connected, flags, buffers, promises, release, history, received, losses>>

\* prepare(): what was buffered is thrown away and who waits is refused.
Dial ==
  /\ dial.at = "lookup"
  /\ dial' = [dial EXCEPT !.at = "connect", !.aborted = FALSE]
  /\ outbound' = << >>
  /\ dropped' = dropped \cup Published(outbound)
  /\ pongs' = << >>
  /\ Settle(ToSet(pongs), FALSE)
  /\ UNCHANGED <<connected, flags, wire, release, accepted, promised, received, losses>>

\* The socket is open and the server has introduced itself.
SocketOpens ==
  /\ dial.at = "connect"
  /\ dial' = [dial EXCEPT !.at = "handshake"]
  /\ UNCHANGED <<connected, flags, buffers, promises, release, history, received, losses>>

Connected ==
  /\ dial.at = "handshake"
  /\ ~dial.aborted
  /\ dial' = NotDialling
  /\ connected' = TRUE
  /\ wire' = outbound
  /\ outbound' = << >>
  /\ UNCHANGED <<flags, pongs, promises, release, history, received, losses>>

AttemptFailed == [dial EXCEPT !.at = "loop", !.attempts = @ + 1]

\* Variant: one address more is dialled than there are.
DialFailsPast ==
  /\ Attempting
  /\ dial' = IF dial.address <= NumAddresses
             THEN [dial EXCEPT !.at = "lookup", !.address = @ + 1]
             ELSE AttemptFailed
  /\ UNCHANGED <<connected, flags, buffers, promises, release, history, received, losses>>

\* The next address is dialled at once, the server again after a delay.
DialFails ==
  /\ Attempting
  /\ dial' = IF dial.address < NumAddresses
             THEN [dial EXCEPT !.at = "lookup", !.address = @ + 1]
             ELSE AttemptFailed
  /\ UNCHANGED <<connected, flags, buffers, promises, release, history, received, losses>>

LookUpFails ==
  /\ dial.at = "lookup"
  /\ dial.address = 1
  /\ dial' = AttemptFailed
  /\ UNCHANGED <<connected, flags, buffers, promises, release, history, received, losses>>

\* Variant: the loop does not look whether close() was called.
GiveUpLate ==
  /\ dial.at = "loop"
  /\ dial.attempts = MaxAttempts
  /\ closed' = TRUE
  /\ sub' = "closed"
  /\ dial' = NotDialling
  /\ UNCHANGED <<connected, draining, noMorePublishing, buffers, drain, flush, release,
                 history, received, losses>>

\* No server is left, because of the attempts or because close() was called;
\* the loop fails, and that closes the connection.
GiveUp ==
  /\ dial.at = "loop"
  /\ closed \/ dial.attempts = MaxAttempts
  /\ closed' = TRUE
  /\ sub' = "closed"
  /\ dial' = NotDialling
  /\ UNCHANGED <<connected, draining, noMorePublishing, buffers, drain, flush, release,
                 history, received, losses>>

-----------------------------------------------------------------------------
Drain == SubscriptionsDrained \/ DrainCloses
Finish == ReleaseGivesUp \/ ReleaseCloses
Loop == NextAttempt \/ Dial \/ LookUpFails \/ GiveUp
Attempt == SocketOpens \/ Connected \/ DialFails

Next ==
  \/ Publish \/ Flush \/ CallerDrains \/ Release
  \/ ServerTakes \/ ConnectionLost
  \/ Drain \/ Finish \/ Loop \/ Attempt

Spec == Init /\ [][Next]_vars

\* The server may be silent for ever, before it has accepted a connection and
\* after.
NoTimer == dial.at = "connect" /\ dial.aborted

\* Promises that are settled are continued, a name is looked up or not, timers
\* fire, and an attempt to connect ends while it has one.
Fairness ==
  /\ WF_vars(Drain) /\ WF_vars(Finish) /\ WF_vars(Loop)
  /\ WF_vars(~NoTimer /\ Attempt)

FairSpec == Spec /\ Fairness

-----------------------------------------------------------------------------
(* What must hold *)

Promise == {"none", "waiting", "ok", "failed"}

ClientTypeOK ==
  /\ connected \in BOOLEAN
  /\ closed \in BOOLEAN /\ draining \in BOOLEAN /\ noMorePublishing \in BOOLEAN
  /\ outbound \in Seq(Msgs \cup {Ping})
  /\ wire \in Seq(Msgs \cup {Ping})
  /\ pongs \in Seq(Waiters)
  /\ dial \in [at : {"none", "loop", "lookup", "connect", "handshake"},
               attempts : 0 .. MaxAttempts, address : 0 .. NumAddresses,
               aborted : BOOLEAN]
  /\ sub \in {"open", "draining", "closed"}
  /\ drain \in {"none", "subscriptions", "flushing", "flushed", "done", "failed"}
  /\ flush \in Promise
  /\ release \in {"none", "draining", "closing", "closed"}
  /\ accepted \subseteq Msgs /\ promised \subseteq accepted
  /\ received \subseteq accepted /\ dropped \subseteq accepted
  /\ losses \in 0 .. MaxLosses

\* A drain that completes has delivered every message that was ever accepted,
\* and a flush those accepted before it, but for what went down with a lost
\* connection: closing itself loses nothing (publish, drain, flush).
AnsweredMeansReceived ==
  /\ drain = "done" => accepted \subseteq received \cup dropped
  /\ flush = "ok" => promised \subseteq received \cup dropped

\* Releasing the client ends, though the server may never answer again, whoever
\* drained the connection first, and at whatever point of dialling (release).
ReleaseEnds == release # "none" ~> release = "closed"

\* After the connection was closed the loop that dials ends, or waits in one
\* attempt whose timer close() has taken away (dodialLoop, dial, close).
DiallingStops == closed ~> [](dial.at = "none" \/ NoTimer)

\* The design: a scope that is closed leaves no socket behind.
NoSocketLeft == release = "closed" => ~connected
=============================================================================
