----------------------------- MODULE JsDelivery -----------------------------
(***************************************************************************)
(* A durable pull consumer shared by several workers, each a fiber running *)
(*    consumer.consume() |> JsMessage.tapAck(handler) |> Stream.runDrain   *)
(* (mapEffectAcked differs only in what it emits downstream).  The module  *)
(* follows one delivery from the server, through the stream's buffer, to   *)
(* the handler, to the acknowledgement that applyAckPolicy sends for the   *)
(* way the handler ended, and back to the server.                          *)
(*                                                                         *)
(* The server is external: what matters of it is that an answer names a    *)
(* message and not a delivery, so a late answer for an expired delivery    *)
(* still counts, and that a message whose answer does not arrive within    *)
(* ack_wait is delivered again until max_deliver is reached.               *)
(***************************************************************************)
EXTENDS Naturals, Sequences

CONSTANTS Workers,      \* consumer instances bound to the same durable
          Msgs,         \* messages of the stream
          MaxDeliver,   \* max_deliver of the consumer
          Outcomes,     \* the ways the handler may end
          Verbs,        \* what the handler may do to its own message
          NakDelay,     \* whether AckOptions.nakDelay is set
          NoDelivery    \* a worker that holds no message

Ends == {"success", "fail", "die", "interrupt"}

ASSUME MaxDeliverAssumption == MaxDeliver \in Nat \ {0}
ASSUME OutcomesAssumption == Outcomes \subseteq Ends
ASSUME VerbsAssumption ==
         Verbs \subseteq {"ack", "nak", "term", "working", "confirm"}
ASSUME NakDelayAssumption == NakDelay \in BOOLEAN

\* A delivery is one JsMsg object of the SDK: the pair of a stream sequence
\* and a delivery count that the server encodes in the reply subject.
Delivery == [msg : Msgs, count : 1 .. MaxDeliver]

ASSUME NoDeliveryAssumption == NoDelivery \notin Delivery

Finals  == {"ack", "nak", "term", "confirm"}  \* answers that set didAck
Kinds   == Finals \cup {"working"}
Packet  == [from : Workers, d : Delivery, kind : Kinds]
Verdict == [d : Delivery, event : Ends \cup Finals]

Settled == {"acked", "termed", "exhausted"}
Phases  == {"down", "idle", "running", "confirming"} \cup Ends

VARIABLES
  status,    \* server: status[m] of a message on this consumer
  count,     \* server: how often m was delivered
  phase,     \* phase[w]: what the worker's fiber is doing
  current,   \* the delivery the worker's handler is running on
  buffer,    \* buffer[w]: deliveries queued in the stream's iterator
  link,      \* link[w]: the worker's connection, "up" or "lost"
  didAck,    \* the deliveries whose JsMsg.didAck flag is set
  wire,      \* answers published and not yet processed by the server
  replies,   \* confirmations sent by the server and not yet received
  confirmed, \* deliveries for which confirmAck returned true
  sent,      \* history: sent[d], the final answers published for d, in order
  history    \* history: how handlers ended and what they answered themselves

serverVars == <<status, count>>
clientVars == <<phase, current, buffer, didAck, confirmed>>
netVars    == <<link, wire, replies>>
histVars   == <<sent, history>>
vars == <<serverVars, clientVars, netVars, histVars>>

Init ==
  /\ status = [m \in Msgs |-> "new"]
  /\ count = [m \in Msgs |-> 0]
  /\ phase = [w \in Workers |-> "idle"]
  /\ current = [w \in Workers |-> NoDelivery]
  /\ buffer = [w \in Workers |-> << >>]
  /\ link = [w \in Workers |-> "up"]
  /\ didAck = {}
  /\ wire = {}
  /\ replies = {}
  /\ confirmed = {}
  /\ sent = [d \in Delivery |-> << >>]
  /\ history = {}

-----------------------------------------------------------------------------
(* The server *)

Deliverable(m) == status[m] \in {"new", "redeliver"} /\ count[m] < MaxDeliver

HandOut(m) ==
  /\ Deliverable(m)
  /\ status' = [status EXCEPT ![m] = "pending"]
  /\ count' = [count EXCEPT ![m] = @ + 1]

\* The server answers a pull request of w and the SDK callback pushes the
\* message into the stream's iterator.
Deliver(m, w) ==
  /\ phase[w] # "down"
  /\ link[w] = "up"
  /\ HandOut(m)
  /\ buffer' = [buffer EXCEPT
                 ![w] = Append(@, [msg |-> m, count |-> count[m] + 1])]
  /\ UNCHANGED <<phase, current, didAck, confirmed, netVars, histVars>>

\* The message is handed out to a connection or a subscription that is gone
\* by the time it arrives.
DeliverLost(m) ==
  /\ \E w \in Workers : link[w] = "lost" \/ phase[w] = "down"
  /\ HandOut(m)
  /\ UNCHANGED <<clientVars, netVars, histVars>>

\* Where an unanswered or negatively answered message goes.
Requeued(m) == IF count[m] = MaxDeliver THEN "exhausted" ELSE "redeliver"

AckWaitExpires(m) ==
  /\ status[m] = "pending"
  /\ status' = [status EXCEPT ![m] = Requeued(m)]
  /\ UNCHANGED <<count, clientVars, netVars, histVars>>

\* The status of a message after an answer of the given kind: answers to a
\* settled message are ignored, a nak with a delay only restarts the timer,
\* and so does a progress report.
StatusAfter(m, kind) ==
  IF status[m] \notin {"pending", "redeliver"} THEN status[m]
  ELSE CASE kind \in {"ack", "confirm"} -> "acked"
         [] kind = "term"               -> "termed"
         [] kind = "nak" /\ status[m] = "pending" /\ ~NakDelay -> Requeued(m)
         [] OTHER                       -> status[m]

Receive(p) ==
  /\ link[p.from] = "up"
  /\ wire' = wire \ {p}
  /\ status' = [status EXCEPT ![p.d.msg] = StatusAfter(p.d.msg, p.kind)]
  /\ replies' = IF p.kind = "confirm" THEN replies \cup {p.d} ELSE replies
  /\ UNCHANGED <<count, clientVars, link, histVars>>

-----------------------------------------------------------------------------
(* The handler and the acknowledgement policy *)

\* The finished or interrupted message is let go and the next is pulled.
Release(w, p) ==
  /\ phase' = [phase EXCEPT ![w] = p]
  /\ current' = [current EXCEPT ![w] = NoDelivery]

\* The stream hands the next buffered message to the handler.
Take(w) ==
  /\ phase[w] = "idle"
  /\ buffer[w] # << >>
  /\ phase' = [phase EXCEPT ![w] = "running"]
  /\ current' = [current EXCEPT ![w] = Head(buffer[w])]
  /\ buffer' = [buffer EXCEPT ![w] = Tail(@)]
  /\ UNCHANGED <<serverVars, didAck, confirmed, netVars, histVars>>

\* Variant: a progress report is remembered like any other answer.
IsFinalAlways(kind) == kind \in Kinds

\* Whether the SDK remembers an answer as the last one for its delivery.
IsFinal(kind) == kind # "working"

\* Variant: didAck is not consulted.
MayAlwaysAnswer(d) == d \in Delivery

\* Whether the SDK still publishes an answer for the delivery.
MayAnswer(d) == d \notin didAck

\* JsMsg.doAck and the publishing half of JsMsg.ackAck.
Publish(w, d, kind) ==
  IF MayAnswer(d)
  THEN /\ didAck' = IF IsFinal(kind) THEN didAck \cup {d} ELSE didAck
       /\ wire' = wire \cup {[from |-> w, d |-> d, kind |-> kind]}
       /\ sent' = IF kind \in Finals
                  THEN [sent EXCEPT ![d] = Append(@, kind)] ELSE sent
  ELSE UNCHANGED <<didAck, wire, sent>>

Record(d, e) == history' = history \cup {[d |-> d, event |-> e]}

\* The handler reports progress on its own message.
HandlerWorking(w) ==
  /\ "working" \in Verbs
  /\ phase[w] = "running"
  /\ Publish(w, current[w], "working")
  /\ UNCHANGED <<serverVars, phase, current, buffer, confirmed,
                 link, replies, history>>

\* The handler answers its own message with ack, nak or term.  A second
\* answer is dropped by the SDK and changes nothing.
HandlerAnswers(w, kind) ==
  /\ kind \in Verbs \cap {"ack", "nak", "term"}
  /\ phase[w] = "running"
  /\ current[w] \notin didAck
  /\ Publish(w, current[w], kind)
  /\ Record(current[w], kind)
  /\ UNCHANGED <<serverVars, phase, current, buffer, confirmed, link, replies>>

\* The handler calls confirmAck and waits.  On a message already answered
\* the call returns false at once and changes nothing.
HandlerConfirms(w) ==
  /\ "confirm" \in Verbs
  /\ phase[w] = "running"
  /\ current[w] \notin didAck
  /\ Publish(w, current[w], "confirm")
  /\ Record(current[w], "confirm")
  /\ phase' = [phase EXCEPT ![w] = "confirming"]
  /\ UNCHANGED <<serverVars, current, buffer, confirmed, link, replies>>

\* Variant: confirmAck does not wait for the reply.
AcknowledgedAtOnce(w) == link[w] = "up"

\* confirmAck resolves to true only on the server's reply.
Acknowledged(w) == link[w] = "up" /\ current[w] \in replies

ConfirmSucceeds(w) ==
  /\ phase[w] = "confirming"
  /\ Acknowledged(w)
  /\ confirmed' = confirmed \cup {current[w]}
  /\ replies' = replies \ {current[w]}
  /\ phase' = [phase EXCEPT ![w] = "running"]
  /\ UNCHANGED <<serverVars, current, buffer, didAck, link, wire, histVars>>

\* Variant: the timeout is reported as success.
ConfirmTimesOutAsTrue(w) ==
  /\ phase[w] = "confirming"
  /\ phase' = [phase EXCEPT ![w] = "running"]
  /\ replies' = replies \ {current[w]}
  /\ confirmed' = confirmed \cup {current[w]}
  /\ UNCHANGED <<serverVars, current, buffer, didAck, link, wire, histVars>>

\* The request timer fires first: TimeoutError, and a late reply finds no
\* request waiting for it.
ConfirmTimesOut(w) ==
  /\ phase[w] = "confirming"
  /\ phase' = [phase EXCEPT ![w] = "running"]
  /\ replies' = replies \ {current[w]}
  /\ UNCHANGED <<serverVars, current, buffer, didAck, confirmed,
                 link, wire, histVars>>

\* The handler's effect ends: with a value, a typed failure, a defect, or a
\* cause holding nothing but interruptions from within.
HandlerEnds(w, o) ==
  /\ o \in Outcomes
  /\ phase[w] = "running"
  /\ phase' = [phase EXCEPT ![w] = o]
  /\ Record(current[w], o)
  /\ UNCHANGED <<serverVars, current, buffer, didAck, confirmed, netVars, sent>>

\* Variants: an interruption is forgotten; the message is acknowledged however
\* the handler ends; the two branches of the failure case are swapped.
PolicyAnswerPartial(o) == CASE o = "success" -> "ack"
                            [] o = "fail"    -> "nak"
                            [] o = "die"     -> "term"
                            [] OTHER         -> "none"

PolicyAnswerEnsuring(o) == IF o \in Ends THEN "ack" ELSE "nak"

PolicyAnswerSwapped(o) == CASE o = "success" -> "ack"
                            [] o = "fail"    -> "term"
                            [] OTHER         -> "nak"

\* The answer applyAckPolicy chooses for the way the handler ended.
PolicyAnswer(o) == CASE o = "success" -> "ack"
                     [] o = "fail"    -> "nak"
                     [] OTHER         -> "term"

ApplyAckPolicy(w) ==
  /\ phase[w] \in Ends
  /\ Publish(w, current[w], PolicyAnswer(phase[w]))
  /\ Release(w, "idle")
  /\ UNCHANGED <<serverVars, buffer, confirmed, link, replies, history>>

-----------------------------------------------------------------------------
(* Interruption, crashes and the connection *)

\* The consumer's fiber is interrupted at any point: the continuation that
\* would answer the message does not run, and the stream's finalizers drop
\* what was buffered.  What is published already stays on its way.
Interrupt(w) ==
  /\ phase[w] # "down"
  /\ Release(w, "down")
  /\ buffer' = [buffer EXCEPT ![w] = << >>]
  /\ UNCHANGED <<serverVars, didAck, confirmed, netVars, histVars>>

FromOthers(w) == {p \in wire : p.from # w}

\* The process dies, with the answers it had not got through to the server.
Crash(w) ==
  /\ phase[w] # "down"
  /\ Release(w, "down")
  /\ buffer' = [buffer EXCEPT ![w] = << >>]
  /\ link' = [link EXCEPT ![w] = "lost"]
  /\ wire' = FromOthers(w)
  /\ UNCHANGED <<serverVars, didAck, confirmed, replies, histVars>>

\* A new instance binds to the durable consumer.
Restart(w) ==
  /\ phase[w] = "down"
  /\ link[w] = "up"
  /\ phase' = [phase EXCEPT ![w] = "idle"]
  /\ UNCHANGED <<serverVars, current, buffer, didAck, confirmed,
                 netVars, histVars>>

\* The connection drops; answers and confirmations in flight are lost, and
\* those published from now on wait in the outbound buffer.
Disconnect(w) ==
  /\ link[w] = "up"
  /\ link' = [link EXCEPT ![w] = "lost"]
  /\ wire' = FromOthers(w)
  /\ replies' = replies \ {current[w]}
  /\ UNCHANGED <<serverVars, clientVars, histVars>>

\* Reconnecting resets the outbound buffer: what was published while the
\* connection was lost never reaches the server.
Reconnect(w) ==
  /\ link[w] = "lost"
  /\ link' = [link EXCEPT ![w] = "up"]
  /\ wire' = FromOthers(w)
  /\ UNCHANGED <<serverVars, clientVars, replies, histVars>>

-----------------------------------------------------------------------------
ServerStep(m) == \/ \E w \in Workers : Deliver(m, w)
                 \/ DeliverLost(m)
                 \/ AckWaitExpires(m)

HandlerStep(w) == \/ Take(w)
                  \/ HandlerWorking(w)
                  \/ \E kind \in Finals : HandlerAnswers(w, kind)
                  \/ HandlerConfirms(w)
                  \/ ConfirmSucceeds(w)
                  \/ ConfirmTimesOut(w)
                  \/ \E o \in Ends : HandlerEnds(w, o)
                  \/ ApplyAckPolicy(w)

FaultStep(w) == \/ Interrupt(w) \/ Crash(w) \/ Restart(w)
                \/ Disconnect(w) \/ Reconnect(w)

Next == \/ \E m \in Msgs : ServerStep(m)
        \/ \E p \in wire : Receive(p)
        \/ \E w \in Workers : HandlerStep(w) \/ FaultStep(w)

Spec == Init /\ [][Next]_vars

-----------------------------------------------------------------------------
(* What must hold *)

TypeOK ==
  /\ status \in [Msgs -> {"new", "pending", "redeliver"} \cup Settled]
  /\ count \in [Msgs -> 0 .. MaxDeliver]
  /\ phase \in [Workers -> Phases]
  /\ current \in [Workers -> Delivery \cup {NoDelivery}]
  /\ buffer \in [Workers -> Seq(Delivery)]
  /\ link \in [Workers -> {"up", "lost"}]
  /\ didAck \subseteq Delivery
  /\ wire \subseteq Packet
  /\ replies \subseteq Delivery
  /\ confirmed \subseteq Delivery
  /\ sent \in [Delivery -> Seq(Finals)]
  /\ history \subseteq Verdict

\* The events that warrant an answer.
Warrants(kind) == CASE kind = "ack"     -> {"success", "ack"}
                    [] kind = "nak"     -> {"fail", "nak"}
                    [] kind = "term"    -> {"die", "interrupt", "term"}
                    [] kind = "confirm" -> {"confirm"}

Warranted(d, kind) == \E e \in Warrants(kind) : [d |-> d, event |-> e] \in history

\* Every answer ever published fits what became of that very delivery: a
\* worker never answers for a message with the verdict it reached on another
\* one, or for a handler that has not ended yet (applyAckPolicy).
AnswersWarranted ==
  \A d \in Delivery : \A i \in DOMAIN sent[d] : Warranted(d, sent[d][i])

\* The messages for which some delivery met one of the given events.
Met(events) == {m \in Msgs : \E v \in history : v.d.msg = m /\ v.event \in events}

Accepted == Met({"success", "ack", "confirm"})
Refused  == Met({"die", "interrupt", "term"})

\* No message leaves the consumer as done unless a handler succeeded on it or
\* acknowledged it itself: not after a failure, an interruption, a crash, a
\* lost connection or a late answer of another worker (applyAckPolicy).
AckedOnlyIfAccepted == \A m \in Msgs : status[m] = "acked" => m \in Accepted

\* No message is discarded for good unless a handler met a defect or an
\* interruption of its own, or terminated it itself; a typed failure never
\* discards (applyAckPolicy).
TermedOnlyIfRefused == \A m \in Msgs : status[m] = "termed" => m \in Refused

\* However the handler's own answers and the policy's are combined, at most
\* one final answer is published for a delivery, a second one of the same kind
\* counting as well (JsMsgImpl.didAck).
AnsweredOnce == \A d \in Delivery : Len(sent[d]) <= 1

\* confirmAck returns true only when the consumer will not see the message
\* again, whatever was lost or raced with its timeout (JsMsgImpl.ackAck).
ConfirmedIsSettled == \A d \in confirmed : status[d.msg] \in Settled

\* A worker never moves on from a message its handler has ended on without
\* some final answer having been published for it (applyAckPolicy, doAck).
PolicyAlwaysAnswers ==
  [][\A w \in Workers : phase[w] \in Ends /\ phase'[w] = "idle"
        => sent'[current[w]] # << >>]_vars

\* A confirmed message is never handed out again, to any worker.
NoRedeliveryAfterConfirm ==
  [][\A d \in confirmed : count'[d.msg] = count[d.msg]]_vars

-----------------------------------------------------------------------------
(* The workers and the server together keep the abstract promise *)

Fate(s) == CASE s = "acked"     -> "done"
             [] s = "termed"    -> "rejected"
             [] s = "exhausted" -> "exhausted"
             [] OTHER           -> "open"

Promise == INSTANCE AtLeastOnce
  WITH fate <- [m \in Msgs |-> Fate(status[m])], attempts <- count,
       accepted <- Accepted, refused <- Refused

\* A durable consumer processed with tapAck gives at-least-once processing
\* with a bounded number of attempts.
KeepsPromise == Promise!Spec
=============================================================================
