-------------------------- MODULE JsDeliveryProofs --------------------------
(***************************************************************************)
(* Proofs about JsDelivery, for every set of workers and messages, every   *)
(* max_deliver, every set of handler outcomes and verbs.                   *)
(*                                                                         *)
(* The inductive invariant is built in layers, each proved from those      *)
(* before it: the types; the bookkeeping of deliveries (Coherent); that    *)
(* each answer on its way is warranted by what became of its delivery      *)
(* (Justified); that a delivery has one final answer (Once); and that the  *)
(* server confirms settled messages only (Replied).                        *)
(***************************************************************************)
EXTENDS JsDelivery, SequenceTheorems, TLAPS

\* The server has handed out this delivery.
Handed(d) == d.count <= count[d.msg]

\* ... and still has, after the step.
HandedNext(d) == d.count <= count'[d.msg]

Busy == {"running", "confirming"} \cup Ends

\* Deliveries in a buffer, in a handler or on the wire were handed out, so
\* their messages are not new; giving up takes the whole budget.
Coherent ==
  /\ \A m \in Msgs : status[m] = "new" => count[m] = 0
  /\ \A m \in Msgs : status[m] = "exhausted" => count[m] = MaxDeliver
  /\ \A w \in Workers : phase[w] \in Busy =>
        current[w] \in Delivery /\ Handed(current[w])
  /\ \A w \in Workers : \A i \in 1 .. Len(buffer[w]) : Handed(buffer[w][i])
  /\ \A p \in wire : Handed(p.d)

\* What is on the wire, and what the policy is about to send, is warranted.
Justified ==
  /\ \A p \in wire : p.kind # "working" => Warranted(p.d, p.kind)
  /\ \A w \in Workers : phase[w] \in Ends =>
        [d |-> current[w], event |-> phase[w]] \in history
  /\ AnswersWarranted
  /\ AckedOnlyIfAccepted
  /\ TermedOnlyIfRefused

\* The SDK's flag is set for the deliveries that have a final answer, which
\* is then the only one, and for no other.
Once == \A d \in Delivery : Len(sent[d]) = IF d \in didAck THEN 1 ELSE 0

\* Confirmations on their way are as truthful as those received.
Replied ==
  /\ \A d \in replies : status[d.msg] \in Settled
  /\ ConfirmedIsSettled

IInv == TypeOK /\ Coherent /\ Justified /\ Once /\ Replied

-----------------------------------------------------------------------------
(* Types *)

\* The answers an SDK message can publish keep didAck, the wire and the
\* history of answers well typed.
LEMMA PublishType ==
  ASSUME NEW w \in Workers, NEW d \in Delivery, NEW kind \in Kinds,
         TypeOK, Publish(w, d, kind)
  PROVE  didAck' \subseteq Delivery /\ wire' \subseteq Packet /\ sent' \in [Delivery -> Seq(Finals)]
<1>1. CASE MayAnswer(d)
  <2>1. [from |-> w, d |-> d, kind |-> kind] \in Packet
    BY DEF Packet
  <2>2. didAck' \subseteq Delivery /\ wire' \subseteq Packet
    BY <1>1, <2>1 DEF TypeOK, Publish
  <2>3. sent' \in [Delivery -> Seq(Finals)]
    <3>1. kind \in Finals => Append(sent[d], kind) \in Seq(Finals)
      BY AppendProperties DEF TypeOK
    <3> QED BY <1>1, <3>1 DEF TypeOK, Publish
  <2> QED BY <2>2, <2>3
<1>2. CASE ~MayAnswer(d)
  BY <1>2 DEF TypeOK, Publish
<1> QED BY <1>1, <1>2

\* What a publication does to the answers of each delivery: the last of d's is
\* new when the SDK lets a final answer through, and nothing else changes.
LEMMA PublishSent ==
  ASSUME NEW w \in Workers, NEW d \in Delivery, NEW kind \in Kinds,
         TypeOK, Publish(w, d, kind)
  PROVE  /\ \A c \in Delivery \ {d} : sent'[c] = sent[c]
         /\ kind \in Finals /\ d \notin didAck =>
              /\ Len(sent'[d]) = Len(sent[d]) + 1
              /\ sent'[d][Len(sent[d]) + 1] = kind
              /\ \A i \in 1 .. Len(sent[d]) : sent'[d][i] = sent[d][i]
         /\ kind \notin Finals \/ d \in didAck => sent'[d] = sent[d]
<1>1. CASE kind \in Finals /\ d \notin didAck
  <2>1. sent' = [sent EXCEPT ![d] = Append(sent[d], kind)]
    BY <1>1 DEF Publish, MayAnswer
  <2>2. sent'[d] = Append(sent[d], kind) /\ \A c \in Delivery \ {d} : sent'[c] = sent[c]
    BY <2>1 DEF TypeOK
  <2>3. sent[d] \in Seq(Finals)
    BY DEF TypeOK
  <2>4. /\ Len(Append(sent[d], kind)) = Len(sent[d]) + 1
        /\ Append(sent[d], kind)[Len(sent[d]) + 1] = kind
        /\ \A i \in 1 .. Len(sent[d]) : Append(sent[d], kind)[i] = sent[d][i]
    BY <1>1, <2>3, AppendProperties
  <2> QED BY <1>1, <2>2, <2>4
<1>2. CASE kind \notin Finals \/ d \in didAck
  BY <1>2 DEF Publish, MayAnswer
<1> QED BY <1>1, <1>2

LEMMA PolicyAnswerType == \A o \in Ends : PolicyAnswer(o) \in {"ack", "nak", "term"}
  BY DEF PolicyAnswer, Ends

\* A worker's phase tells whether it holds a delivery.
Holding == \A w \in Workers : phase[w] \in Busy => current[w] \in Delivery

LEMMA InitTypes == Init => TypeOK /\ Holding
<1> SUFFICES ASSUME Init PROVE TypeOK /\ Holding
  OBVIOUS
<1>1. << >> \in Seq(Delivery)
  BY EmptySeq
<1>2. TypeOK
  BY <1>1, MaxDeliverAssumption DEF Init, TypeOK, Phases, Delivery
<1>3. Holding
  BY DEF Init, Holding, Busy, Ends
<1> QED BY <1>2, <1>3

LEMMA HandOutType ==
  ASSUME NEW m \in Msgs, TypeOK, HandOut(m)
  PROVE  /\ status' \in [Msgs -> {"new", "pending", "redeliver"} \cup Settled]
         /\ count' \in [Msgs -> 0 .. MaxDeliver]
         /\ count[m] + 1 \in 1 .. MaxDeliver
BY MaxDeliverAssumption DEF TypeOK, HandOut, Deliverable

LEMMA StatusAfterType ==
  ASSUME NEW m \in Msgs, NEW kind, TypeOK
  PROVE  StatusAfter(m, kind) \in {"new", "pending", "redeliver"} \cup Settled
BY DEF TypeOK, StatusAfter, Requeued, Settled

LEMMA NextTypes == TypeOK /\ Holding /\ [Next]_vars => TypeOK' /\ Holding'
<1> SUFFICES ASSUME TypeOK, Holding, [Next]_vars PROVE TypeOK' /\ Holding'
  OBVIOUS
<1> USE DEF vars, serverVars, clientVars, netVars, histVars
<1>1. ASSUME NEW m \in Msgs, NEW w \in Workers, Deliver(m, w)
      PROVE  TypeOK' /\ Holding'
  <2> DEFINE dlv == [msg |-> m, count |-> count[m] + 1]
  <2>1. HandOut(m)
    BY <1>1 DEF Deliver
  <2>2. dlv \in Delivery
    BY <2>1, HandOutType DEF Delivery
  <2>3. Append(buffer[w], dlv) \in Seq(Delivery)
    BY <2>2, AppendProperties DEF TypeOK
  <2>4. buffer' \in [Workers -> Seq(Delivery)]
    BY <1>1, <2>3 DEF Deliver, TypeOK
  <2>5. TypeOK'
    BY <1>1, <2>1, <2>4, HandOutType DEF Deliver, TypeOK
  <2>6. Holding'
    BY <1>1 DEF Deliver, Holding
  <2> QED BY <2>5, <2>6
<1>2. ASSUME NEW m \in Msgs, DeliverLost(m)
      PROVE  TypeOK' /\ Holding'
  BY <1>2, HandOutType DEF DeliverLost, TypeOK, Holding
<1>3. ASSUME NEW m \in Msgs, AckWaitExpires(m)
      PROVE  TypeOK' /\ Holding'
  BY <1>3 DEF AckWaitExpires, Requeued, Settled, TypeOK, Holding
<1>4. ASSUME NEW p \in wire, Receive(p)
      PROVE  TypeOK' /\ Holding'
  <2>1. p.d \in Delivery /\ p.d.msg \in Msgs
    BY DEF TypeOK, Packet, Delivery
  <2> QED BY <1>4, <2>1, StatusAfterType DEF Receive, TypeOK, Holding
<1>5. ASSUME NEW w \in Workers, Take(w)
      PROVE  TypeOK' /\ Holding'
  <2>1. Head(buffer[w]) \in Delivery /\ Tail(buffer[w]) \in Seq(Delivery)
    BY <1>5, HeadTailProperties DEF Take, TypeOK
  <2> QED BY <1>5, <2>1 DEF Take, TypeOK, Holding, Phases
<1>6. ASSUME NEW w \in Workers, HandlerWorking(w)
      PROVE  TypeOK' /\ Holding'
  <2>1. current[w] \in Delivery
    BY <1>6 DEF HandlerWorking, Holding, Busy
  <2>2. Publish(w, current[w], "working") /\ "working" \in Kinds
    BY <1>6 DEF HandlerWorking, Kinds
  <2>3. didAck' \subseteq Delivery /\ wire' \subseteq Packet /\ sent' \in [Delivery -> Seq(Finals)]
    BY <2>1, <2>2, PublishType
  <2> QED BY <1>6, <2>3 DEF HandlerWorking, TypeOK, Holding
<1>7. ASSUME NEW w \in Workers, NEW kind \in Finals, HandlerAnswers(w, kind)
      PROVE  TypeOK' /\ Holding'
  <2>1. current[w] \in Delivery
    BY <1>7 DEF HandlerAnswers, Holding, Busy
  <2>2. Publish(w, current[w], kind) /\ kind \in Kinds
    BY <1>7 DEF HandlerAnswers, Kinds
  <2>3. didAck' \subseteq Delivery /\ wire' \subseteq Packet /\ sent' \in [Delivery -> Seq(Finals)]
    BY <2>1, <2>2, PublishType
  <2>4. history' \subseteq Verdict
    BY <1>7, <2>1 DEF HandlerAnswers, Record, TypeOK, Verdict
  <2> QED BY <1>7, <2>3, <2>4 DEF HandlerAnswers, TypeOK, Holding
<1>8. ASSUME NEW w \in Workers, HandlerConfirms(w)
      PROVE  TypeOK' /\ Holding'
  <2>1. current[w] \in Delivery
    BY <1>8 DEF HandlerConfirms, Holding, Busy
  <2>2. Publish(w, current[w], "confirm") /\ "confirm" \in Kinds
    BY <1>8 DEF HandlerConfirms, Kinds, Finals
  <2>3. didAck' \subseteq Delivery /\ wire' \subseteq Packet /\ sent' \in [Delivery -> Seq(Finals)]
    BY <2>1, <2>2, PublishType
  <2>4. history' \subseteq Verdict
    BY <1>8, <2>1 DEF HandlerConfirms, Record, TypeOK, Verdict, Finals
  <2> QED BY <1>8, <2>1, <2>3, <2>4 DEF HandlerConfirms, TypeOK, Holding, Phases
<1>9. ASSUME NEW w \in Workers, ConfirmSucceeds(w) \/ ConfirmTimesOut(w)
      PROVE  TypeOK' /\ Holding'
  <2>1. current[w] \in Delivery
    BY <1>9 DEF ConfirmSucceeds, ConfirmTimesOut, Holding, Busy
  <2> QED BY <1>9, <2>1 DEF ConfirmSucceeds, ConfirmTimesOut, TypeOK, Holding, Phases
<1>10. ASSUME NEW w \in Workers, NEW o \in Ends, HandlerEnds(w, o)
       PROVE  TypeOK' /\ Holding'
  <2>1. current[w] \in Delivery
    BY <1>10 DEF HandlerEnds, Holding, Busy
  <2>2. history' \subseteq Verdict
    BY <1>10, <2>1 DEF HandlerEnds, Record, TypeOK, Verdict
  <2> QED BY <1>10, <2>1, <2>2 DEF HandlerEnds, TypeOK, Holding, Phases
<1>11. ASSUME NEW w \in Workers, ApplyAckPolicy(w)
       PROVE  TypeOK' /\ Holding'
  <2>1. current[w] \in Delivery /\ phase[w] \in Ends
    BY <1>11 DEF ApplyAckPolicy, Holding, Busy
  <2>2. PolicyAnswer(phase[w]) \in Kinds
    BY <2>1, PolicyAnswerType DEF Kinds, Finals
  <2>3. Publish(w, current[w], PolicyAnswer(phase[w]))
    BY <1>11 DEF ApplyAckPolicy
  <2>4. didAck' \subseteq Delivery /\ wire' \subseteq Packet /\ sent' \in [Delivery -> Seq(Finals)]
    BY <2>1, <2>2, <2>3, PublishType
  <2> QED BY <1>11, <2>4 DEF ApplyAckPolicy, Release, TypeOK, Holding, Phases, Busy, Ends
<1>12. ASSUME NEW w \in Workers, Interrupt(w) \/ Crash(w)
       PROVE  TypeOK' /\ Holding'
  <2>1. << >> \in Seq(Delivery)
    BY EmptySeq
  <2>2. CASE Interrupt(w)
    BY <2>1, <2>2 DEF Interrupt, Release, TypeOK, Holding, Phases, Busy, Ends,
                      netVars, histVars, serverVars
  <2>3. CASE Crash(w)
    BY <2>1, <2>3 DEF Crash, Release, FromOthers, TypeOK, Holding, Phases, Busy, Ends,
                      histVars, serverVars
  <2> QED BY <1>12, <2>2, <2>3
<1>13. ASSUME NEW w \in Workers, Restart(w) \/ Disconnect(w) \/ Reconnect(w)
       PROVE  TypeOK' /\ Holding'
  BY <1>13 DEF Restart, Disconnect, Reconnect, FromOthers, TypeOK,
               Holding, Phases, Busy, Ends
<1>14. CASE UNCHANGED vars
  BY <1>14 DEF TypeOK, Holding
<1> QED
  BY <1>1, <1>2, <1>3, <1>4, <1>5, <1>6, <1>7, <1>8, <1>9, <1>10, <1>11,
     <1>12, <1>13, <1>14 DEF Next, ServerStep, HandlerStep, FaultStep

\* Every variable keeps its type, and a worker that is busy holds a delivery.
THEOREM TypeCorrect == Spec => []TypeOK
<1>1. TypeOK /\ Holding /\ [Next]_vars => (TypeOK /\ Holding)'
  BY NextTypes
<1> QED BY <1>1, InitTypes, PTL DEF Spec

-----------------------------------------------------------------------------
(* The bookkeeping of deliveries *)

\* Delivery counts only grow.
LEMMA CountGrows ==
  TypeOK /\ [Next]_vars => \A m \in Msgs : count'[m] >= count[m]
<1> SUFFICES ASSUME TypeOK, [Next]_vars, NEW m \in Msgs
             PROVE  count'[m] >= count[m]
  OBVIOUS
<1>1. count[m] \in Nat
  BY MaxDeliverAssumption DEF TypeOK
<1>2. CASE \E n \in Msgs : HandOut(n)
  BY <1>1, <1>2 DEF HandOut, TypeOK
<1>3. CASE UNCHANGED count
  BY <1>1, <1>3
<1>4. (\E n \in Msgs : HandOut(n)) \/ UNCHANGED count
  BY DEF Next, ServerStep, HandlerStep, FaultStep, vars, serverVars, Deliver,
         DeliverLost, AckWaitExpires, Receive, Take, HandlerWorking,
         HandlerAnswers, HandlerConfirms, ConfirmSucceeds, ConfirmTimesOut,
         HandlerEnds, ApplyAckPolicy, Interrupt, Crash, Restart, Disconnect,
         Reconnect
<1> QED BY <1>2, <1>3, <1>4

LEMMA HandedStays ==
  ASSUME TypeOK, TypeOK', [Next]_vars, NEW d \in Delivery, Handed(d)
  PROVE  HandedNext(d)
<1>1. d.msg \in Msgs /\ d.count \in Nat
  BY MaxDeliverAssumption DEF Delivery
<1>2. count[d.msg] \in Nat /\ count'[d.msg] \in Nat
  BY <1>1, MaxDeliverAssumption DEF TypeOK
<1>3. count'[d.msg] >= count[d.msg]
  BY <1>1, CountGrows
<1> QED BY <1>1, <1>2, <1>3 DEF Handed, HandedNext

StatusCoherent ==
  \A m \in Msgs : /\ status[m] = "new" => count[m] = 0
                  /\ status[m] = "exhausted" => count[m] = MaxDeliver

LEMMA NextStatusCoherent ==
  TypeOK /\ StatusCoherent /\ [Next]_vars => StatusCoherent'
<1> SUFFICES ASSUME TypeOK, StatusCoherent, [Next]_vars PROVE StatusCoherent'
  OBVIOUS
<1>1. CASE \E n \in Msgs : HandOut(n)
  BY <1>1, MaxDeliverAssumption DEF HandOut, TypeOK, StatusCoherent
<1>2. CASE \E n \in Msgs : AckWaitExpires(n)
  BY <1>2 DEF AckWaitExpires, Requeued, TypeOK, StatusCoherent
<1>3. ASSUME NEW p \in wire, Receive(p) PROVE StatusCoherent'
  <2>1. p.d.msg \in Msgs
    BY DEF TypeOK, Packet, Delivery
  <2> QED BY <1>3, <2>1 DEF Receive, StatusAfter, Requeued, TypeOK, StatusCoherent
<1>4. CASE UNCHANGED serverVars
  BY <1>4 DEF serverVars, StatusCoherent
<1>5. \/ \E n \in Msgs : HandOut(n) \/ AckWaitExpires(n)
      \/ \E p \in wire : Receive(p)
      \/ UNCHANGED serverVars
  BY DEF Next, ServerStep, HandlerStep, FaultStep, vars, Deliver, DeliverLost,
         Take, HandlerWorking, HandlerAnswers, HandlerConfirms,
         ConfirmSucceeds, ConfirmTimesOut, HandlerEnds, ApplyAckPolicy,
         Interrupt, Crash, Restart, Disconnect, Reconnect
<1> QED BY <1>1, <1>2, <1>3, <1>4, <1>5

\* Every delivery on the client's side of the connection was handed out.
AllHanded ==
  /\ \A w \in Workers : phase[w] \in Busy =>
        current[w] \in Delivery /\ Handed(current[w])
  /\ \A w \in Workers : \A i \in 1 .. Len(buffer[w]) : Handed(buffer[w][i])
  /\ \A p \in wire : Handed(p.d)

\* What the steps do to the three places a delivery can be in.
HoldersKept ==
  \A w \in Workers : phase'[w] \in Busy =>
    phase[w] \in Busy /\ current'[w] = current[w]

BuffersKept == \A w \in Workers : buffer'[w] = buffer[w] \/ buffer'[w] = << >>

WireKept == wire' \subseteq wire

LEMMA KeptHanded ==
  ASSUME TypeOK, TypeOK', AllHanded, [Next]_vars
  PROVE  /\ HoldersKept => \A w \in Workers : phase'[w] \in Busy =>
                              current'[w] \in Delivery /\ HandedNext(current'[w])
         /\ BuffersKept => \A w \in Workers : \A i \in 1 .. Len(buffer'[w]) :
                              HandedNext(buffer'[w][i])
         /\ WireKept => \A p \in wire' : HandedNext(p.d)
<1>1. ASSUME HoldersKept, NEW w \in Workers, phase'[w] \in Busy
      PROVE  current'[w] \in Delivery /\ HandedNext(current'[w])
  <2>1. current[w] \in Delivery /\ Handed(current[w]) /\ current'[w] = current[w]
    BY <1>1 DEF HoldersKept, AllHanded
  <2>2. \A d \in Delivery : Handed(d) => HandedNext(d)
    BY HandedStays
  <2> QED BY <2>1, <2>2 DEF Handed
<1>2. ASSUME BuffersKept, NEW w \in Workers, NEW i \in 1 .. Len(buffer'[w])
      PROVE  HandedNext(buffer'[w][i])
  <2>1. buffer'[w] = buffer[w]
    BY <1>2, EmptySeq DEF BuffersKept
  <2>2. buffer[w][i] \in Delivery /\ Handed(buffer[w][i])
    BY <1>2, <2>1, ElementOfSeq DEF TypeOK, AllHanded
  <2>3. \A d \in Delivery : Handed(d) => HandedNext(d)
    BY HandedStays
  <2> QED BY <2>1, <2>2, <2>3 DEF Handed
<1>3. ASSUME WireKept, NEW p \in wire' PROVE HandedNext(p.d)
  <2>1. p.d \in Delivery /\ Handed(p.d)
    BY <1>3 DEF WireKept, AllHanded, TypeOK, Packet
  <2> QED BY <2>1, HandedStays
<1> QED BY <1>1, <1>2, <1>3

\* An answer goes out for the delivery in the worker's hands only.
Publishes(w) == \E kind \in Kinds : Publish(w, current[w], kind)

LEMMA WireSteps ==
  TypeOK /\ [Next]_vars =>
    WireKept \/ \E w \in Workers : phase[w] \in Busy /\ Publishes(w)
<1> SUFFICES ASSUME TypeOK, [Next]_vars
             PROVE  WireKept \/ \E w \in Workers : phase[w] \in Busy /\ Publishes(w)
  OBVIOUS
<1>1. ASSUME NEW w \in Workers, HandlerWorking(w)
      PROVE  phase[w] \in Busy /\ Publishes(w)
  BY <1>1 DEF HandlerWorking, Busy, Publishes, Kinds
<1>2. ASSUME NEW w \in Workers, NEW kind \in Finals, HandlerAnswers(w, kind)
      PROVE  phase[w] \in Busy /\ Publishes(w)
  BY <1>2 DEF HandlerAnswers, Busy, Publishes, Kinds
<1>3. ASSUME NEW w \in Workers, HandlerConfirms(w)
      PROVE  phase[w] \in Busy /\ Publishes(w)
  BY <1>3 DEF HandlerConfirms, Busy, Publishes, Kinds, Finals
<1>4. ASSUME NEW w \in Workers, ApplyAckPolicy(w)
      PROVE  phase[w] \in Busy /\ Publishes(w)
  <2>1. phase[w] \in Ends /\ Publish(w, current[w], PolicyAnswer(phase[w]))
    BY <1>4 DEF ApplyAckPolicy
  <2> QED BY <2>1, PolicyAnswerType DEF Busy, Publishes, Kinds, Finals
<1>5. \/ WireKept
      \/ \E w \in Workers : \/ HandlerWorking(w) \/ HandlerConfirms(w) \/ ApplyAckPolicy(w)
                            \/ \E kind \in Finals : HandlerAnswers(w, kind)
  BY DEF Next, ServerStep, HandlerStep, FaultStep, vars, netVars, WireKept,
         Deliver, DeliverLost, AckWaitExpires, Receive, Take, ConfirmSucceeds,
         ConfirmTimesOut, HandlerEnds, Interrupt, Crash, Restart, Disconnect,
         Reconnect, FromOthers
<1> QED BY <1>1, <1>2, <1>3, <1>4, <1>5

LEMMA NextAllHanded ==
  TypeOK /\ TypeOK' /\ AllHanded /\ [Next]_vars => AllHanded'
<1> SUFFICES ASSUME TypeOK, TypeOK', AllHanded, [Next]_vars PROVE AllHanded'
  OBVIOUS
<1>1. \A w \in Workers : phase'[w] \in Busy =>
         current'[w] \in Delivery /\ HandedNext(current'[w])
  <2>1. ASSUME NEW w \in Workers, Take(w)
        PROVE  \A v \in Workers : phase'[v] \in Busy =>
                  current'[v] \in Delivery /\ HandedNext(current'[v])
    <3> DEFINE hd == Head(buffer[w])
    <3>1. hd \in Delivery /\ 1 \in 1 .. Len(buffer[w]) /\ hd = buffer[w][1]
      BY <2>1, HeadTailProperties, EmptySeq DEF Take, TypeOK
    <3>2. Handed(hd)
      BY <3>1 DEF AllHanded
    <3>3. \A d \in Delivery : Handed(d) => HandedNext(d)
      BY HandedStays
    <3>4. current' = [current EXCEPT ![w] = hd] /\ phase' = [phase EXCEPT ![w] = "running"]
      BY <2>1 DEF Take
    <3> SUFFICES ASSUME NEW v \in Workers, phase'[v] \in Busy
                 PROVE  current'[v] \in Delivery /\ HandedNext(current'[v])
      OBVIOUS
    <3>5. CASE v = w
      BY <3>1, <3>2, <3>3, <3>4, <3>5 DEF TypeOK, Handed
    <3>6. CASE v # w
      <4>1. current'[v] = current[v] /\ phase[v] \in Busy
        BY <3>4, <3>6 DEF TypeOK
      <4> QED BY <3>3, <4>1 DEF AllHanded, Handed
    <3> QED BY <3>5, <3>6
  <2>2. ASSUME NEW w \in Workers,
               \/ HandlerConfirms(w) \/ ConfirmSucceeds(w) \/ ConfirmTimesOut(w)
               \/ \E o \in Ends : HandlerEnds(w, o)
        PROVE  HoldersKept
    BY <2>2 DEF HoldersKept, HandlerConfirms, ConfirmSucceeds, ConfirmTimesOut,
                HandlerEnds, Busy, TypeOK
  <2>3. ASSUME NEW w \in Workers,
               ApplyAckPolicy(w) \/ Interrupt(w) \/ Crash(w) \/ Restart(w)
        PROVE  HoldersKept
    BY <2>3 DEF HoldersKept, ApplyAckPolicy, Interrupt, Crash, Restart, Release,
                Busy, Ends, TypeOK
  <2>4. ASSUME phase' = phase, current' = current PROVE HoldersKept
    <3> SUFFICES ASSUME NEW w \in Workers, phase'[w] \in Busy
                 PROVE  phase[w] \in Busy /\ current'[w] = current[w]
      BY DEF HoldersKept
    <3> QED BY <2>4
  <2>5. \/ phase' = phase /\ current' = current
        \/ \E w \in Workers :
             \/ Take(w) \/ HandlerConfirms(w) \/ ConfirmSucceeds(w) \/ ConfirmTimesOut(w)
             \/ \E o \in Ends : HandlerEnds(w, o)
             \/ ApplyAckPolicy(w) \/ Interrupt(w) \/ Crash(w) \/ Restart(w)
    BY DEF Next, ServerStep, HandlerStep, FaultStep, vars, clientVars, Deliver,
           DeliverLost, AckWaitExpires, Receive, HandlerWorking, HandlerAnswers,
           Disconnect, Reconnect
  <2> QED BY <2>1, <2>2, <2>3, <2>4, <2>5, KeptHanded
<1>2. \A w \in Workers : \A i \in 1 .. Len(buffer'[w]) : HandedNext(buffer'[w][i])
  <2>1. ASSUME NEW m \in Msgs, NEW w \in Workers, Deliver(m, w)
        PROVE  \A v \in Workers : \A i \in 1 .. Len(buffer'[v]) : HandedNext(buffer'[v][i])
    <3> DEFINE dlv == [msg |-> m, count |-> count[m] + 1]
    <3>1. dlv \in Delivery
      BY <2>1, HandOutType DEF Deliver, Delivery
    <3>2. count'[m] = count[m] + 1 /\ count'[m] \in Nat
      BY <2>1, MaxDeliverAssumption DEF Deliver, HandOut, TypeOK
    <3>3. HandedNext(dlv)
      BY <3>2 DEF HandedNext
    <3>4. buffer' = [buffer EXCEPT ![w] = Append(buffer[w], dlv)]
      BY <2>1 DEF Deliver
    <3>5. \A d \in Delivery : Handed(d) => HandedNext(d)
      BY HandedStays
    <3> SUFFICES ASSUME NEW v \in Workers, NEW i \in 1 .. Len(buffer'[v])
                 PROVE  HandedNext(buffer'[v][i])
      OBVIOUS
    <3>6. buffer[v] \in Seq(Delivery)
      BY DEF TypeOK
    <3>7. \A j \in 1 .. Len(buffer[v]) : HandedNext(buffer[v][j])
      BY <3>5, <3>6, ElementOfSeq DEF AllHanded, Handed
    <3>8. CASE v = w
      <4>1. buffer'[v] = Append(buffer[v], dlv)
        BY <3>4, <3>8 DEF TypeOK
      <4>2. /\ Len(buffer'[v]) = Len(buffer[v]) + 1 /\ Len(buffer[v]) \in Nat
            /\ \A j \in 1 .. Len(buffer[v]) : buffer'[v][j] = buffer[v][j]
            /\ buffer'[v][Len(buffer[v]) + 1] = dlv
        BY <3>1, <3>6, <4>1, AppendProperties, LenProperties
      <4>3. CASE i = Len(buffer[v]) + 1
        BY <3>3, <4>2, <4>3 DEF Handed
      <4>4. CASE i \in 1 .. Len(buffer[v])
        BY <3>7, <4>2, <4>4 DEF Handed
      <4> QED BY <4>2, <4>3, <4>4
    <3>9. CASE v # w
      <4>1. buffer'[v] = buffer[v]
        BY <3>4, <3>9 DEF TypeOK
      <4> QED BY <3>7, <4>1 DEF Handed
    <3> QED BY <3>8, <3>9
  <2>2. ASSUME NEW w \in Workers, Take(w)
        PROVE  \A v \in Workers : \A i \in 1 .. Len(buffer'[v]) : HandedNext(buffer'[v][i])
    <3>1. buffer' = [buffer EXCEPT ![w] = Tail(buffer[w])] /\ buffer[w] # << >>
      BY <2>2 DEF Take
    <3>2. \A d \in Delivery : Handed(d) => HandedNext(d)
      BY HandedStays
    <3> SUFFICES ASSUME NEW v \in Workers, NEW i \in 1 .. Len(buffer'[v])
                 PROVE  HandedNext(buffer'[v][i])
      OBVIOUS
    <3>3. buffer[v] \in Seq(Delivery) /\ Len(buffer[v]) \in Nat
      BY LenProperties DEF TypeOK
    <3>4. \A j \in 1 .. Len(buffer[v]) : HandedNext(buffer[v][j])
      BY <3>2, <3>3, ElementOfSeq DEF AllHanded, Handed
    <3>5. CASE v = w
      <4>1. buffer'[v] = Tail(buffer[v])
        BY <3>1, <3>5 DEF TypeOK
      <4>2. /\ Len(buffer'[v]) = Len(buffer[v]) - 1
            /\ \A j \in 1 .. Len(buffer'[v]) : buffer'[v][j] = buffer[v][j + 1]
        <5>1. buffer[v] \in Seq(Delivery) /\ buffer[v] # << >>
          BY <3>1, <3>3, <3>5
        <5>2. /\ Len(Tail(buffer[v])) = Len(buffer[v]) - 1
              /\ \A j \in 1 .. Len(Tail(buffer[v])) : Tail(buffer[v])[j] = buffer[v][j + 1]
          BY <5>1, HeadTailProperties
        <5> QED BY <4>1, <5>2
      <4>3. i + 1 \in 1 .. Len(buffer[v])
        BY <3>3, <4>2
      <4> QED BY <3>4, <4>2, <4>3 DEF Handed
    <3>6. CASE v # w
      <4>1. buffer'[v] = buffer[v]
        BY <3>1, <3>6 DEF TypeOK
      <4> QED BY <3>4, <4>1 DEF Handed
    <3> QED BY <3>5, <3>6
  <2>3. \/ \E m \in Msgs, w \in Workers : Deliver(m, w)
        \/ \E w \in Workers : Take(w)
        \/ BuffersKept
    BY DEF Next, ServerStep, HandlerStep, FaultStep, vars, clientVars,
           BuffersKept, DeliverLost, AckWaitExpires, Receive, HandlerWorking,
           HandlerAnswers, HandlerConfirms, ConfirmSucceeds, ConfirmTimesOut,
           HandlerEnds, ApplyAckPolicy, Interrupt, Crash, Restart, Disconnect,
           Reconnect, TypeOK
  <2> QED BY <2>1, <2>2, <2>3, KeptHanded
<1>3. \A p \in wire' : HandedNext(p.d)
  <2>1. ASSUME NEW w \in Workers, phase[w] \in Busy, Publishes(w)
        PROVE  \A p \in wire' : HandedNext(p.d)
    <3>1. current[w] \in Delivery /\ Handed(current[w])
      BY <2>1 DEF AllHanded
    <3>2. \A p \in wire' : p \in wire \/ p.d = current[w]
      BY <2>1 DEF Publishes, Publish
    <3>3. \A p \in wire : p.d \in Delivery /\ Handed(p.d)
      BY DEF AllHanded, TypeOK, Packet
    <3> QED BY <3>1, <3>2, <3>3, HandedStays
  <2> QED BY <2>1, WireSteps, KeptHanded
<1> QED BY <1>1, <1>2, <1>3 DEF AllHanded, Handed, HandedNext

-----------------------------------------------------------------------------
(* Answers are warranted by what became of their deliveries *)

EndsRecorded ==
  \A w \in Workers : phase[w] \in Ends =>
    [d |-> current[w], event |-> phase[w]] \in history

WireWarranted == \A p \in wire : p.kind # "working" => Warranted(p.d, p.kind)

LEMMA HistoryGrows == [Next]_vars => history \subseteq history'
BY DEF Next, ServerStep, HandlerStep, FaultStep, vars, histVars, Deliver,
       DeliverLost, AckWaitExpires, Receive, Take, HandlerWorking,
       HandlerAnswers, HandlerConfirms, ConfirmSucceeds, ConfirmTimesOut,
       HandlerEnds, ApplyAckPolicy, Interrupt, Crash, Restart, Disconnect,
       Reconnect, Record

LEMMA NextEndsRecorded ==
  TypeOK /\ EndsRecorded /\ [Next]_vars => EndsRecorded'
<1> SUFFICES ASSUME TypeOK, EndsRecorded, [Next]_vars PROVE EndsRecorded'
  OBVIOUS
<1>1. ASSUME NEW w \in Workers, NEW o \in Ends, HandlerEnds(w, o)
      PROVE  EndsRecorded'
  BY <1>1 DEF HandlerEnds, Record, EndsRecorded, TypeOK
<1>2. ASSUME \A w \in Workers : phase'[w] \in Ends =>
                phase'[w] = phase[w] /\ current'[w] = current[w]
      PROVE  EndsRecorded'
  BY <1>2, HistoryGrows DEF EndsRecorded
<1>3. ASSUME NEW w \in Workers,
             \/ Take(w) \/ HandlerConfirms(w) \/ ConfirmSucceeds(w)
             \/ ConfirmTimesOut(w) \/ ApplyAckPolicy(w) \/ Interrupt(w)
             \/ Crash(w) \/ Restart(w)
      PROVE  \A v \in Workers : phase'[v] \in Ends =>
                phase'[v] = phase[v] /\ current'[v] = current[v]
  BY <1>3 DEF Take, HandlerConfirms, ConfirmSucceeds, ConfirmTimesOut,
              ApplyAckPolicy, Interrupt, Crash, Restart, Release, Ends, TypeOK
<1>4. \/ phase' = phase /\ current' = current
      \/ \E w \in Workers :
           \/ \E o \in Ends : HandlerEnds(w, o)
           \/ Take(w) \/ HandlerConfirms(w) \/ ConfirmSucceeds(w)
           \/ ConfirmTimesOut(w) \/ ApplyAckPolicy(w) \/ Interrupt(w)
           \/ Crash(w) \/ Restart(w)
  BY DEF Next, ServerStep, HandlerStep, FaultStep, vars, clientVars, Deliver,
         DeliverLost, AckWaitExpires, Receive, HandlerWorking, HandlerAnswers,
         Disconnect, Reconnect
<1> QED BY <1>1, <1>2, <1>3, <1>4

\* A worker publishes an answer that the history, after the step, warrants.
PublishesWarranted(w) ==
  \E kind \in Kinds :
    /\ Publish(w, current[w], kind)
    /\ kind # "working" => \E e \in Warrants(kind) :
                             [d |-> current[w], event |-> e] \in history'

LEMMA AnswerSteps ==
  TypeOK /\ EndsRecorded /\ [Next]_vars =>
    \/ wire' \subseteq wire /\ sent' = sent
    \/ \E w \in Workers : phase[w] \in Busy /\ PublishesWarranted(w)
<1> SUFFICES ASSUME TypeOK, EndsRecorded, [Next]_vars
             PROVE  \/ wire' \subseteq wire /\ sent' = sent
                    \/ \E w \in Workers : phase[w] \in Busy /\ PublishesWarranted(w)
  OBVIOUS
<1>1. ASSUME NEW w \in Workers, HandlerWorking(w)
      PROVE  phase[w] \in Busy /\ PublishesWarranted(w)
  BY <1>1 DEF HandlerWorking, Busy, PublishesWarranted, Kinds
<1>2. ASSUME NEW w \in Workers, NEW kind \in Finals, HandlerAnswers(w, kind)
      PROVE  phase[w] \in Busy /\ PublishesWarranted(w)
  <2>1. kind \in Warrants(kind) /\ kind \in Kinds
    BY <1>2 DEF HandlerAnswers, Warrants, Kinds
  <2> QED BY <1>2, <2>1 DEF HandlerAnswers, Record, Busy, PublishesWarranted
<1>3. ASSUME NEW w \in Workers, HandlerConfirms(w)
      PROVE  phase[w] \in Busy /\ PublishesWarranted(w)
  <2>1. "confirm" \in Warrants("confirm") /\ "confirm" \in Kinds
    BY DEF Warrants, Kinds, Finals
  <2> QED BY <1>3, <2>1 DEF HandlerConfirms, Record, Busy, PublishesWarranted
<1>4. ASSUME NEW w \in Workers, ApplyAckPolicy(w)
      PROVE  phase[w] \in Busy /\ PublishesWarranted(w)
  <2> DEFINE kind == PolicyAnswer(phase[w])
  <2>1. phase[w] \in Ends /\ Publish(w, current[w], kind) /\ history' = history
    BY <1>4 DEF ApplyAckPolicy
  <2>2. phase[w] \in Warrants(kind) /\ kind \in Kinds
    BY <2>1 DEF PolicyAnswer, Warrants, Kinds, Finals, Ends
  <2>3. [d |-> current[w], event |-> phase[w]] \in history'
    BY <2>1 DEF EndsRecorded
  <2> HIDE DEF kind
  <2> QED BY <2>1, <2>2, <2>3 DEF PublishesWarranted, Busy
<1>5. \/ wire' \subseteq wire /\ sent' = sent
      \/ \E w \in Workers : \/ HandlerWorking(w) \/ HandlerConfirms(w) \/ ApplyAckPolicy(w)
                            \/ \E kind \in Finals : HandlerAnswers(w, kind)
  BY DEF Next, ServerStep, HandlerStep, FaultStep, vars, netVars, histVars,
         Deliver, DeliverLost, AckWaitExpires, Receive, Take, ConfirmSucceeds,
         ConfirmTimesOut, HandlerEnds, Interrupt, Crash, Restart, Disconnect,
         Reconnect, FromOthers
<1> QED BY <1>1, <1>2, <1>3, <1>4, <1>5

LEMMA NextWarranted ==
  TypeOK /\ Holding /\ EndsRecorded /\ WireWarranted /\ AnswersWarranted /\ [Next]_vars
    => WireWarranted' /\ AnswersWarranted'
<1> SUFFICES ASSUME TypeOK, Holding, EndsRecorded, WireWarranted, AnswersWarranted,
                    [Next]_vars
             PROVE  WireWarranted' /\ AnswersWarranted'
  OBVIOUS
<1>1. ASSUME NEW d, NEW kind, Warranted(d, kind) PROVE Warranted(d, kind)'
  BY <1>1, HistoryGrows DEF Warranted
<1>2. ASSUME wire' \subseteq wire, sent' = sent
      PROVE  WireWarranted' /\ AnswersWarranted'
  BY <1>1, <1>2 DEF WireWarranted, AnswersWarranted
<1>3. ASSUME NEW w \in Workers, phase[w] \in Busy, PublishesWarranted(w)
      PROVE  WireWarranted' /\ AnswersWarranted'
  <2>0. PICK d \in Delivery : d = current[w]
    BY <1>3 DEF Holding
  <2>1. PICK kind \in Kinds :
          /\ Publish(w, d, kind)
          /\ kind # "working" => \E e \in Warrants(kind) :
                                   [d |-> d, event |-> e] \in history'
    BY <1>3, <2>0 DEF PublishesWarranted
  <2>2. kind # "working" => Warranted(d, kind)'
    BY <2>1 DEF Warranted
  <2>3. \A p \in wire' : p \in wire \/ (p.d = d /\ p.kind = kind)
    BY <2>1 DEF Publish
  <2>4. WireWarranted'
    BY <1>1, <2>2, <2>3 DEF WireWarranted
  <2>5. ASSUME NEW c \in Delivery, NEW i \in DOMAIN sent'[c]
        PROVE  Warranted(c, sent[c][i])'
    <3> PICK k : k = sent'[c][i]
      OBVIOUS
    <3> SUFFICES Warranted(c, k)'
      BY DEF Warranted
    <3>0. /\ Len(sent[c]) \in Nat /\ DOMAIN sent[c] = 1 .. Len(sent[c])
          /\ Len(sent'[c]) \in Nat /\ DOMAIN sent'[c] = 1 .. Len(sent'[c])
      <4>1. TypeOK'
        BY NextTypes
      <4>2. sent[c] \in Seq(Finals) /\ sent'[c] \in Seq(Finals)
        BY <4>1 DEF TypeOK
      <4> QED BY <4>2, LenProperties
    <3>1. CASE sent'[c] = sent[c]
      <4>1. Warranted(c, k)
        BY <3>1 DEF AnswersWarranted
      <4> QED BY <1>1, <4>1
    <3>2. CASE c = d /\ kind \in Finals /\ d \notin didAck
      <4>1. kind # "working"
        BY <3>2 DEF Finals
      <4>2. /\ Len(sent'[c]) = Len(sent[c]) + 1
            /\ sent'[c][Len(sent[c]) + 1] = kind
            /\ \A j \in 1 .. Len(sent[c]) : sent'[c][j] = sent[c][j]
        BY <2>1, <3>2, PublishSent
      <4>3. i \in 1 .. Len(sent[c]) \/ i = Len(sent[c]) + 1
        BY <3>0, <4>2
      <4>4. CASE i = Len(sent[c]) + 1
        <5>1. k = kind
          BY <4>2, <4>4
        <5> QED BY <2>2, <3>2, <4>1, <5>1
      <4>5. CASE i \in 1 .. Len(sent[c])
        <5>1. Warranted(c, k)
          BY <3>0, <4>2, <4>5 DEF AnswersWarranted
        <5> QED BY <1>1, <5>1
      <4> QED BY <4>3, <4>4, <4>5
    <3> QED BY <2>1, <3>1, <3>2, PublishSent
  <2> QED BY <2>4, <2>5 DEF AnswersWarranted
<1> QED BY <1>2, <1>3, AnswerSteps

-----------------------------------------------------------------------------
(* Messages are settled for a reason *)

LEMMA NextReasons ==
  TypeOK /\ WireWarranted /\ AckedOnlyIfAccepted /\ TermedOnlyIfRefused /\ [Next]_vars
    => AckedOnlyIfAccepted' /\ TermedOnlyIfRefused'
<1> SUFFICES ASSUME TypeOK, WireWarranted, AckedOnlyIfAccepted,
                    TermedOnlyIfRefused, [Next]_vars
             PROVE  AckedOnlyIfAccepted' /\ TermedOnlyIfRefused'
  OBVIOUS
<1>1. Accepted \subseteq Accepted' /\ Refused \subseteq Refused'
  BY HistoryGrows DEF Accepted, Refused, Met
<1>2. ASSUME \A m \in Msgs : status'[m] \in {"acked", "termed"} => status'[m] = status[m]
      PROVE  AckedOnlyIfAccepted' /\ TermedOnlyIfRefused'
  BY <1>1, <1>2 DEF AckedOnlyIfAccepted, TermedOnlyIfRefused
<1>3. ASSUME NEW p \in wire, Receive(p)
      PROVE  AckedOnlyIfAccepted' /\ TermedOnlyIfRefused'
  <2> DEFINE n == p.d.msg
  <2>1. n \in Msgs /\ p.kind \in Kinds
    BY DEF TypeOK, Packet, Delivery
  <2>2. /\ status'[n] = StatusAfter(n, p.kind)
        /\ \A m \in Msgs \ {n} : status'[m] = status[m]
    BY <1>3, <2>1 DEF Receive, TypeOK
  <2>3. status'[n] = "acked" => status[n] = "acked" \/ p.kind \in {"ack", "confirm"}
    BY <2>2 DEF StatusAfter, Requeued
  <2>4. status'[n] = "termed" => status[n] = "termed" \/ p.kind = "term"
    BY <2>2 DEF StatusAfter, Requeued
  <2>5. p.kind \in {"ack", "confirm"} => n \in Accepted
    BY <2>1 DEF WireWarranted, Warranted, Warrants, Accepted, Met
  <2>6. p.kind = "term" => n \in Refused
    BY <2>1 DEF WireWarranted, Warranted, Warrants, Refused, Met
  <2> HIDE DEF n
  <2> QED BY <1>1, <2>1, <2>2, <2>3, <2>4, <2>5, <2>6
          DEF AckedOnlyIfAccepted, TermedOnlyIfRefused
<1>4. ASSUME NEW m \in Msgs, HandOut(m) \/ AckWaitExpires(m)
      PROVE  \A n \in Msgs : status'[n] \in {"acked", "termed"} => status'[n] = status[n]
  BY <1>4 DEF HandOut, AckWaitExpires, Requeued, TypeOK
<1>5. \/ \E m \in Msgs : HandOut(m) \/ AckWaitExpires(m)
      \/ \E p \in wire : Receive(p)
      \/ status' = status
  BY DEF Next, ServerStep, HandlerStep, FaultStep, vars, serverVars, Deliver,
         DeliverLost, Take, HandlerWorking, HandlerAnswers, HandlerConfirms,
         ConfirmSucceeds, ConfirmTimesOut, HandlerEnds, ApplyAckPolicy,
         Interrupt, Crash, Restart, Disconnect, Reconnect
<1> QED BY <1>2, <1>3, <1>4, <1>5

-----------------------------------------------------------------------------
(* One final answer for a delivery *)

LEMMA NextOnce == TypeOK /\ Holding /\ Once /\ [Next]_vars => Once'
<1> SUFFICES ASSUME TypeOK, Holding, Once, [Next]_vars PROVE Once'
  OBVIOUS
<1>1. ASSUME sent' = sent, didAck' = didAck PROVE Once'
  BY <1>1 DEF Once
<1>2. ASSUME NEW w \in Workers, phase[w] \in Busy,
             NEW kind \in Kinds, Publish(w, current[w], kind)
      PROVE  Once'
  <2>0. PICK d \in Delivery : d = current[w]
    BY <1>2 DEF Holding
  <2>1. CASE d \in didAck
    BY <1>2, <2>0, <2>1, <1>1 DEF Publish, MayAnswer
  <2>2. CASE d \notin didAck
    <3>1. didAck' = IF IsFinal(kind) THEN didAck \cup {d} ELSE didAck
      BY <1>2, <2>0, <2>2 DEF Publish, MayAnswer
    <3>2. CASE kind \in Finals
      <4>1. didAck' = didAck \cup {d}
        BY <3>1, <3>2 DEF Finals, IsFinal
      <4>2. Len(sent'[d]) = 1
        <5>1. Publish(w, d, kind)
          BY <1>2, <2>0
        <5>2. Len(sent'[d]) = Len(sent[d]) + 1
          BY <2>2, <3>2, <5>1, PublishSent
        <5>3. Len(sent[d]) = 0
          BY <2>2 DEF Once
        <5> QED BY <5>2, <5>3
      <4>3. \A c \in Delivery \ {d} : sent'[c] = sent[c]
        BY <1>2, <2>0, PublishSent
      <4> QED BY <4>1, <4>2, <4>3 DEF Once
    <3>3. CASE kind \notin Finals
      <4>1. ~IsFinal(kind)
        BY <3>3 DEF Kinds, IsFinal
      <4>2. sent' = sent
        BY <1>2, <2>0, <3>3 DEF Publish
      <4> QED BY <3>1, <4>1, <4>2, <1>1
    <3> QED BY <3>2, <3>3
  <2> QED BY <2>1, <2>2
<1>3. \/ sent' = sent /\ didAck' = didAck
      \/ \E w \in Workers : phase[w] \in Busy /\ Publishes(w)
  <2>1. ASSUME NEW w \in Workers,
               \/ HandlerWorking(w) \/ HandlerConfirms(w) \/ ApplyAckPolicy(w)
               \/ \E kind \in Finals : HandlerAnswers(w, kind)
        PROVE  phase[w] \in Busy /\ Publishes(w)
    BY <2>1, PolicyAnswerType DEF HandlerWorking, HandlerConfirms, ApplyAckPolicy,
       HandlerAnswers, Publishes, Kinds, Finals, Busy
  <2>2. \/ sent' = sent /\ didAck' = didAck
        \/ \E w \in Workers :
             \/ HandlerWorking(w) \/ HandlerConfirms(w) \/ ApplyAckPolicy(w)
             \/ \E kind \in Finals : HandlerAnswers(w, kind)
    BY DEF Next, ServerStep, HandlerStep, FaultStep, vars, clientVars, histVars,
           Deliver, DeliverLost, AckWaitExpires, Receive, Take, ConfirmSucceeds,
           ConfirmTimesOut, HandlerEnds, Interrupt, Crash, Restart, Disconnect,
           Reconnect
  <2> QED BY <2>1, <2>2
<1> QED BY <1>1, <1>2, <1>3 DEF Publishes

-----------------------------------------------------------------------------
(* What the server confirms stays settled *)

LEMMA SettledStays ==
  TypeOK /\ [Next]_vars =>
    \A m \in Msgs : status[m] \in Settled => status'[m] = status[m] /\ count'[m] = count[m]
<1> SUFFICES ASSUME TypeOK, [Next]_vars, NEW m \in Msgs, status[m] \in Settled
             PROVE  status'[m] = status[m] /\ count'[m] = count[m]
  OBVIOUS
<1>1. ASSUME NEW n \in Msgs, HandOut(n) \/ (AckWaitExpires(n) /\ count' = count)
      PROVE  status'[m] = status[m] /\ count'[m] = count[m]
  BY <1>1 DEF HandOut, Deliverable, AckWaitExpires, Settled, TypeOK
<1>2. ASSUME NEW p \in wire, Receive(p)
      PROVE  status'[m] = status[m] /\ count'[m] = count[m]
  <2>1. p.d.msg \in Msgs
    BY DEF TypeOK, Packet, Delivery
  <2>2. status[m] \notin {"pending", "redeliver"}
    BY DEF Settled
  <2>3. StatusAfter(m, p.kind) = status[m]
    BY <2>2 DEF StatusAfter
  <2>4. status' = [status EXCEPT ![p.d.msg] = StatusAfter(p.d.msg, p.kind)] /\ count' = count
    BY <1>2 DEF Receive
  <2> QED BY <2>1, <2>3, <2>4 DEF TypeOK
<1>3. \/ \E n \in Msgs : HandOut(n) \/ (AckWaitExpires(n) /\ count' = count)
      \/ \E p \in wire : Receive(p)
      \/ status' = status /\ count' = count
  BY DEF Next, ServerStep, HandlerStep, FaultStep, vars, serverVars, Deliver,
         DeliverLost, AckWaitExpires, Take, HandlerWorking, HandlerAnswers,
         HandlerConfirms, ConfirmSucceeds, ConfirmTimesOut, HandlerEnds,
         ApplyAckPolicy, Interrupt, Crash, Restart, Disconnect, Reconnect
<1> QED BY <1>1, <1>2, <1>3

LEMMA NextReplied ==
  TypeOK /\ StatusCoherent /\ AllHanded /\ Replied /\ [Next]_vars => Replied'
<1> SUFFICES ASSUME TypeOK, StatusCoherent, AllHanded, Replied, [Next]_vars
             PROVE  Replied'
  OBVIOUS
<1>1. \A d \in Delivery : d.msg \in Msgs
  BY DEF Delivery
<1>2. \A d \in Delivery : status[d.msg] \in Settled => status'[d.msg] \in Settled
  BY <1>1, SettledStays
<1>3. ASSUME NEW p \in wire, Receive(p) PROVE Replied'
  <2>1. p.d \in Delivery /\ p.d.msg \in Msgs /\ p.d.count \in Nat \ {0}
    BY MaxDeliverAssumption DEF TypeOK, Packet, Delivery
  <2>2. status[p.d.msg] # "new"
    BY <2>1 DEF AllHanded, Handed, StatusCoherent, TypeOK
  <2>3. p.kind = "confirm" => status'[p.d.msg] \in Settled
    BY <1>3, <2>1, <2>2 DEF Receive, StatusAfter, TypeOK, Settled
  <2>4. \A d \in replies' : d \in replies \/ (d = p.d /\ p.kind = "confirm")
    BY <1>3 DEF Receive
  <2>5. confirmed' = confirmed
    BY <1>3 DEF Receive, clientVars
  <2> QED BY <1>2, <2>3, <2>4, <2>5 DEF Replied, ConfirmedIsSettled, TypeOK
<1>4. ASSUME replies' \subseteq replies, confirmed' \subseteq confirmed \cup replies
      PROVE  Replied'
  BY <1>2, <1>4 DEF Replied, ConfirmedIsSettled, TypeOK
<1>5. \/ \E p \in wire : Receive(p)
      \/ replies' \subseteq replies /\ confirmed' \subseteq confirmed \cup replies
  BY DEF Next, ServerStep, HandlerStep, FaultStep, vars, clientVars, netVars,
         Deliver, DeliverLost, AckWaitExpires, Take, HandlerWorking,
         HandlerAnswers, HandlerConfirms, ConfirmSucceeds, ConfirmTimesOut,
         Acknowledged, HandlerEnds, ApplyAckPolicy, Interrupt, Crash, Restart,
         Disconnect, Reconnect
<1> QED BY <1>3, <1>4, <1>5

-----------------------------------------------------------------------------
(* The inductive invariant and what follows from it *)

LEMMA CoherentParts == Coherent <=> StatusCoherent /\ AllHanded
  BY DEF Coherent, StatusCoherent, AllHanded

LEMMA JustifiedParts ==
  Justified <=> /\ WireWarranted /\ EndsRecorded /\ AnswersWarranted
                /\ AckedOnlyIfAccepted /\ TermedOnlyIfRefused
  BY DEF Justified, WireWarranted, EndsRecorded

LEMMA InitInvariant == Init => IInv
<1> SUFFICES ASSUME Init PROVE IInv
  OBVIOUS
<1>1. TypeOK
  BY InitTypes
<1>2. Coherent
  BY EmptySeq DEF Init, Coherent, Busy, Ends
<1>3. Justified
  BY DEF Init, Justified, AnswersWarranted, AckedOnlyIfAccepted,
         TermedOnlyIfRefused, Ends
<1>4. Once /\ Replied
  BY DEF Init, Once, AnsweredOnce, Replied, ConfirmedIsSettled
<1> QED BY <1>1, <1>2, <1>3, <1>4 DEF IInv

LEMMA NextInvariant == IInv /\ [Next]_vars => IInv'
<1> SUFFICES ASSUME IInv, [Next]_vars PROVE IInv'
  OBVIOUS
<1>1. /\ TypeOK /\ StatusCoherent /\ AllHanded /\ WireWarranted /\ EndsRecorded
      /\ AnswersWarranted /\ AckedOnlyIfAccepted /\ TermedOnlyIfRefused
      /\ Once /\ Replied
  BY CoherentParts, JustifiedParts DEF IInv
<1>2. Holding
  BY <1>1 DEF AllHanded, Holding
<1>3. TypeOK'
  BY <1>1, <1>2, NextTypes
<1>4. StatusCoherent' /\ AllHanded'
  BY <1>1, <1>3, NextStatusCoherent, NextAllHanded
<1>5. /\ WireWarranted' /\ EndsRecorded' /\ AnswersWarranted'
      /\ AckedOnlyIfAccepted' /\ TermedOnlyIfRefused'
  BY <1>1, <1>2, NextWarranted, NextEndsRecorded, NextReasons
<1>6. Once' /\ Replied'
  BY <1>1, <1>2, NextOnce, NextReplied
<1>7. Coherent' /\ Justified'
  BY <1>4, <1>5 DEF Coherent, StatusCoherent, AllHanded, Justified,
                    WireWarranted, EndsRecorded
<1> QED BY <1>3, <1>6, <1>7 DEF IInv

\* The strengthening holds throughout every behaviour.
THEOREM Invariance == Spec => []IInv
  BY InitInvariant, NextInvariant, PTL DEF Spec

\* No message is taken off the consumer as done unless a handler succeeded on
\* it or acknowledged it itself, for any workers, messages and max_deliver.
THEOREM NeverAckedUnhandled == Spec => []AckedOnlyIfAccepted
<1>1. IInv => AckedOnlyIfAccepted
  BY DEF IInv, Justified
<1> QED BY <1>1, Invariance, PTL

\* No message is discarded without a defect, an interruption or a term call.
THEOREM NeverTermedUnrefused == Spec => []TermedOnlyIfRefused
<1>1. IInv => TermedOnlyIfRefused
  BY DEF IInv, Justified
<1> QED BY <1>1, Invariance, PTL

\* Every answer fits what became of the delivery it is about.
THEOREM AlwaysWarranted == Spec => []AnswersWarranted
<1>1. IInv => AnswersWarranted
  BY DEF IInv, Justified
<1> QED BY <1>1, Invariance, PTL

\* A delivery is answered with at most one final answer.
THEOREM AtMostOneAnswer == Spec => []AnsweredOnce
<1>1. IInv => AnsweredOnce
  BY DEF IInv, Once, AnsweredOnce
<1> QED BY <1>1, Invariance, PTL

\* Only applyAckPolicy takes a worker from the end of its handler to the next
\* message: everything else that happens to it there takes it down.
LEMMA OnlyThePolicyMovesOn ==
  ASSUME NEW w \in Workers, phase[w] \in Ends, phase'[w] = "idle",
         TypeOK, [Next]_vars
  PROVE  ApplyAckPolicy(w)
<1>1. phase[w] \notin {"down", "idle", "running", "confirming"}
  BY DEF Ends
<1>2. phase' # phase
  BY <1>1
<1>3. PICK v \in Workers : HandlerStep(v) \/ FaultStep(v)
  BY <1>2 DEF Next, ServerStep, vars, clientVars, Deliver, DeliverLost,
              AckWaitExpires, Receive
<1>4. v = w
  BY <1>1, <1>3 DEF TypeOK, HandlerStep, FaultStep, Release, Take, HandlerWorking,
     HandlerAnswers, HandlerConfirms, ConfirmSucceeds, ConfirmTimesOut, HandlerEnds,
     ApplyAckPolicy, Interrupt, Crash, Restart, Disconnect, Reconnect, clientVars
<1> QED
  BY <1>1, <1>3, <1>4 DEF TypeOK, HandlerStep, FaultStep, Release, Take,
     HandlerWorking, HandlerAnswers, HandlerConfirms, ConfirmSucceeds, ConfirmTimesOut,
     HandlerEnds, Interrupt, Crash, Restart, Disconnect, Reconnect, clientVars

\* A worker goes from the end of its handler to its next message only with a
\* final answer out for the one it leaves: its own, or the one for which the
\* SDK dropped it.
THEOREM NeverLeftUnanswered == Spec => PolicyAlwaysAnswers
<1>1. IInv /\ [Next]_vars =>
        [\A w \in Workers : phase[w] \in Ends /\ phase'[w] = "idle"
            => sent'[current[w]] # << >>]_vars
  <2> SUFFICES ASSUME IInv, [Next]_vars, NEW w \in Workers,
                      phase[w] \in Ends, phase'[w] = "idle"
               PROVE  sent'[current[w]] # << >>
    OBVIOUS
  <2>1. ApplyAckPolicy(w)
    BY OnlyThePolicyMovesOn DEF IInv
  <2>2. PolicyAnswer(phase[w]) \in Finals
    BY PolicyAnswerType DEF Finals
  <2>3. PICK d \in Delivery : d = current[w]
    BY <2>1 DEF ApplyAckPolicy, IInv, Coherent, Busy
  <2>4. PICK kind \in Finals : Publish(w, d, kind)
    BY <2>1, <2>2, <2>3 DEF ApplyAckPolicy
  <2>5. Len(sent[d]) = IF d \in didAck THEN 1 ELSE 0
    BY DEF IInv, Once
  <2>6. CASE d \in didAck
    <3>1. sent' = sent
      BY <2>4, <2>6 DEF Publish, MayAnswer
    <3>2. Len(sent'[d]) = 1
      BY <2>5, <2>6, <3>1
    <3>3. sent'[d] # << >>
      BY <3>2, EmptySeq
    <3> QED BY <2>3, <3>3
  <2>7. CASE d \notin didAck
    <3>1. kind \in Kinds /\ TypeOK
      BY DEF Kinds, IInv
    <3>2. Len(sent'[d]) = 1
      <4>1. Len(sent'[d]) = Len(sent[d]) + 1
        BY <2>4, <2>7, <3>1, PublishSent
      <4> QED BY <2>5, <2>7, <4>1
    <3>3. sent'[d] # << >>
      BY <3>2, EmptySeq
    <3> QED BY <2>3, <3>3
  <2> QED BY <2>6, <2>7
<1> QED BY <1>1, Invariance, PTL DEF Spec, PolicyAlwaysAnswers

\* confirmAck tells the truth whatever is lost, late or retried.
THEOREM ConfirmationsAreTrue == Spec => []ConfirmedIsSettled
<1>1. IInv => ConfirmedIsSettled
  BY DEF IInv, Replied
<1> QED BY <1>1, Invariance, PTL

\* A confirmed message is never delivered again.
THEOREM ConfirmedIsOver == Spec => NoRedeliveryAfterConfirm
<1>1. IInv /\ [Next]_vars => [\A d \in confirmed : count'[d.msg] = count[d.msg]]_vars
  <2> SUFFICES ASSUME IInv, [Next]_vars, NEW d \in confirmed
               PROVE  count'[d.msg] = count[d.msg]
    OBVIOUS
  <2>1. TypeOK /\ d.msg \in Msgs /\ status[d.msg] \in Settled
    BY DEF IInv, TypeOK, Replied, ConfirmedIsSettled, Delivery
  <2> QED BY <2>1, SettledStays
<1> QED BY <1>1, Invariance, PTL DEF Spec, NoRedeliveryAfterConfirm

-----------------------------------------------------------------------------
(* The refinement of AtLeastOnce *)

fateOf == [m \in Msgs |-> Fate(status[m])]

\* A verdict about a delivery adds its message to the sets its event counts for.
LEMMA RecordMet ==
  ASSUME NEW d \in Delivery, NEW e, Record(d, e), NEW events
  PROVE  Met(events)' = IF e \in events THEN Met(events) \cup {d.msg} ELSE Met(events)
<1>1. d.msg \in Msgs
  BY DEF Delivery
<1>2. history' = history \cup {[d |-> d, event |-> e]}
  BY DEF Record
<1>3. \A v : v \in history' <=> v \in history \/ v = [d |-> d, event |-> e]
  BY <1>2
<1>4. ASSUME NEW m
      PROVE  m \in Met(events)' <=>
               m \in Met(events) \/ (e \in events /\ m = d.msg)
  <2> DEFINE r == [d |-> d, event |-> e]
  <2>1. r.d.msg = d.msg /\ r.event = e
    OBVIOUS
  <2>2. m \in Met(events)' <=>
          m \in Msgs /\ \E v \in history' : v.d.msg = m /\ v.event \in events
    BY DEF Met
  <2>3. m \in Met(events) <=>
          m \in Msgs /\ \E v \in history : v.d.msg = m /\ v.event \in events
    BY DEF Met
  <2>4. \A v : v \in history' <=> v \in history \/ v = r
    BY <1>3
  <2> HIDE DEF r
  <2> QED BY <1>1, <2>1, <2>2, <2>3, <2>4
<1>5. CASE e \in events
  BY <1>4, <1>5
<1>6. CASE e \notin events
  BY <1>4, <1>6
<1> QED BY <1>5, <1>6

\* A verdict is an Accept, a Refuse or invisible in the abstract specification.
LEMMA VerdictStep ==
  ASSUME NEW d \in Delivery, NEW e \in Ends \cup Finals, Record(d, e),
         TypeOK, Handed(d), status' = status, count' = count
  PROVE  Promise!Next \/ UNCHANGED Promise!absVars
<1>1. d.msg \in Msgs /\ count[d.msg] > 0
  BY MaxDeliverAssumption DEF Handed, Delivery, TypeOK
<1>2. fateOf' = fateOf
  BY DEF fateOf
<1>3. CASE e \in {"success", "ack", "confirm"}
  <2>1. Accepted' = Accepted \cup {d.msg} /\ Refused' = Refused
    BY <1>3, RecordMet DEF Accepted, Refused
  <2>2. Promise!Accept(d.msg)
    BY <1>1, <1>2, <2>1 DEF Promise!Accept, fateOf
  <2> QED BY <1>1, <2>2 DEF Promise!Next
<1>4. CASE e \in {"die", "interrupt", "term"}
  <2>1. Refused' = Refused \cup {d.msg} /\ Accepted' = Accepted
    BY <1>4, RecordMet DEF Accepted, Refused
  <2>2. Promise!Refuse(d.msg)
    BY <1>1, <1>2, <2>1 DEF Promise!Refuse, fateOf
  <2> QED BY <1>1, <2>2 DEF Promise!Next
<1>5. CASE e \in {"fail", "nak"}
  <2>1. Refused' = Refused /\ Accepted' = Accepted
    BY <1>5, RecordMet DEF Accepted, Refused
  <2> QED BY <1>2, <2>1 DEF Promise!absVars, fateOf
<1> QED BY <1>3, <1>4, <1>5 DEF Ends, Finals

\* Settling one message for a reason is a step of the abstract specification,
\* and so is leaving its fate open.
LEMMA FateStep ==
  ASSUME NEW m \in Msgs, NEW s, TypeOK,
         status' = [status EXCEPT ![m] = s], count' = count, history' = history,
         status[m] \notin Settled,
         \/ s = "acked" /\ m \in Accepted
         \/ s = "termed" /\ m \in Refused
         \/ s = "exhausted" /\ count[m] = MaxDeliver
         \/ s \in {"pending", "redeliver"}
  PROVE  Promise!Next \/ UNCHANGED Promise!absVars
<1>1. Accepted' = Accepted /\ Refused' = Refused
  BY DEF Accepted, Refused, Met
<1>2. fateOf[m] = "open" /\ fateOf' = [fateOf EXCEPT ![m] = Fate(s)]
  BY DEF fateOf, Fate, Settled, TypeOK
<1>3. CASE s = "acked" /\ m \in Accepted
  BY <1>1, <1>2, <1>3 DEF Promise!Complete, Promise!Next, fateOf, Fate
<1>4. CASE s = "termed" /\ m \in Refused
  BY <1>1, <1>2, <1>4 DEF Promise!Reject, Promise!Next, fateOf, Fate
<1>5. CASE s = "exhausted" /\ count[m] = MaxDeliver
  BY <1>1, <1>2, <1>5 DEF Promise!GiveUp, Promise!Next, fateOf, Fate
<1>6. CASE s \in {"pending", "redeliver"}
  <2>1. Fate(s) = "open"
    BY <1>6 DEF Fate
  <2>2. fateOf' = fateOf
    BY <1>2, <2>1 DEF fateOf
  <2> QED BY <1>1, <2>2 DEF Promise!absVars, fateOf
<1> QED BY <1>3, <1>4, <1>5, <1>6

LEMMA HandOutStep ==
  ASSUME NEW m \in Msgs, TypeOK, HandOut(m), history' = history
  PROVE  Promise!Next
<1>1. Accepted' = Accepted /\ Refused' = Refused
  BY DEF Accepted, Refused, Met
<1>2. fateOf[m] = "open" /\ fateOf' = fateOf
  BY DEF HandOut, Deliverable, fateOf, Fate, TypeOK
<1>3. count[m] < MaxDeliver /\ count' = [count EXCEPT ![m] = @ + 1]
  BY DEF HandOut, Deliverable
<1>4. Promise!Attempt(m)
  BY <1>1, <1>2, <1>3 DEF Promise!Attempt, fateOf
<1> QED BY <1>4 DEF Promise!Next

LEMMA RefinesNext == IInv /\ [Next]_vars => [Promise!Next]_(Promise!absVars)
<1> SUFFICES ASSUME IInv, [Next]_vars
             PROVE  Promise!Next \/ UNCHANGED Promise!absVars
  OBVIOUS
<1>1. /\ TypeOK /\ StatusCoherent /\ AllHanded /\ WireWarranted
      /\ AckedOnlyIfAccepted /\ TermedOnlyIfRefused
  BY CoherentParts, JustifiedParts DEF IInv
<1>2. ASSUME NEW m \in Msgs, HandOut(m), history' = history
      PROVE  Promise!Next
  BY <1>1, <1>2, HandOutStep
<1>3. ASSUME NEW m \in Msgs, AckWaitExpires(m)
      PROVE  Promise!Next \/ UNCHANGED Promise!absVars
  <2>1. /\ status' = [status EXCEPT ![m] = Requeued(m)] /\ status[m] = "pending"
        /\ count' = count /\ history' = history
    BY <1>3 DEF AckWaitExpires, histVars
  <2>2. status[m] \notin Settled
    BY <2>1 DEF Settled
  <2>3. (Requeued(m) = "exhausted" /\ count[m] = MaxDeliver) \/ Requeued(m) = "redeliver"
    BY DEF Requeued
  <2> QED BY <1>1, <2>1, <2>2, <2>3, FateStep
<1>4. ASSUME NEW p \in wire, Receive(p)
      PROVE  Promise!Next \/ UNCHANGED Promise!absVars
  <2> DEFINE m == p.d.msg
             s == StatusAfter(m, p.kind)
  <2>1. m \in Msgs /\ p.d.count \in Nat \ {0} /\ p.kind \in Kinds
    BY MaxDeliverAssumption DEF TypeOK, Packet, Delivery, IInv
  <2>2. /\ status' = [status EXCEPT ![m] = s]
        /\ count' = count /\ history' = history
    BY <1>4 DEF Receive, histVars
  <2>3. status[m] # "new"
    BY <1>1, <2>1 DEF AllHanded, Handed, StatusCoherent, TypeOK
  <2>4. CASE status[m] \in {"pending", "redeliver"}
    <3>1. /\ p.kind \in {"ack", "confirm"} => m \in Accepted
          /\ p.kind = "term" => m \in Refused
      BY <1>1, <2>1 DEF WireWarranted, Warranted, Warrants, Accepted, Refused, Met
    <3>2. \/ s = "acked" /\ m \in Accepted
          \/ s = "termed" /\ m \in Refused
          \/ s = "exhausted" /\ count[m] = MaxDeliver
          \/ s \in {"pending", "redeliver"}
      BY <2>4, <3>1 DEF StatusAfter, Requeued
    <3>3. status[m] \notin Settled
      BY <2>4 DEF Settled
    <3> HIDE DEF m, s
    <3> QED BY <1>1, <2>1, <2>2, <3>2, <3>3, FateStep
  <2>5. CASE status[m] \in Settled
    <3>1. s = status[m]
      BY <2>5 DEF StatusAfter, Settled
    <3>2. status' = status
      BY <1>1, <2>1, <2>2, <3>1 DEF TypeOK
    <3> QED BY <2>2, <3>2 DEF Promise!absVars, Accepted, Refused, Met
  <2> QED BY <1>1, <2>1, <2>3, <2>4, <2>5 DEF TypeOK
<1>5. ASSUME NEW w \in Workers, NEW e \in Ends \cup Finals,
             phase[w] = "running", Record(current[w], e),
             status' = status, count' = count
      PROVE  Promise!Next \/ UNCHANGED Promise!absVars
  <2>1. current[w] \in Delivery /\ Handed(current[w])
    BY <1>1, <1>5 DEF AllHanded, Busy
  <2> QED BY <1>1, <1>5, <2>1, VerdictStep
<1>6. CASE status' = status /\ count' = count /\ history' = history
  BY <1>6 DEF Promise!absVars, Accepted, Refused, Met
<1>7. \/ \E m \in Msgs : (HandOut(m) /\ history' = history) \/ AckWaitExpires(m)
      \/ \E p \in wire : Receive(p)
      \/ \E w \in Workers, e \in Ends \cup Finals :
           /\ phase[w] = "running" /\ Record(current[w], e)
           /\ status' = status /\ count' = count
      \/ status' = status /\ count' = count /\ history' = history
  BY DEF Next, ServerStep, HandlerStep, FaultStep, vars, serverVars, histVars,
         Deliver, DeliverLost, Take, HandlerWorking, HandlerAnswers,
         HandlerConfirms, ConfirmSucceeds, ConfirmTimesOut, HandlerEnds,
         ApplyAckPolicy, Interrupt, Crash, Restart, Disconnect, Reconnect, Finals
<1> QED BY <1>2, <1>3, <1>4, <1>5, <1>6, <1>7

LEMMA RefinesInit == Init => Promise!Init
  BY DEF Init, Promise!Init, Fate, Accepted, Refused, Met

\* Workers, connection, acknowledgement policy and server together implement
\* at-least-once processing with a bounded number of attempts.
THEOREM KeepsPromiseAlways == Spec => KeepsPromise
  BY RefinesInit, RefinesNext, Invariance, PTL DEF Spec, KeepsPromise, Promise!Spec
=============================================================================
