------------------------- MODULE MicroServiceProofs -------------------------
(***************************************************************************)
(* Proofs about a service: its requests are taken in order and once, only  *)
(* a handler that throws ends it from within, its error counts are right,  *)
(* and a closed scope leaves nothing behind.                               *)
(***************************************************************************)
EXTENDS MicroService, QueuedIteratorProofs, FiniteSetTheorems

Delivering == {"open", "draining"}

\* An endpoint whose iterator is q and whose subscription is in state b, h of
\* whose a requests have been taken: the queue holds the rest, and no function
\* while there may be more.
InLine(q, h, a, fates, b) ==
  /\ AtRest(q)
  /\ Queued(q, h, a)
  /\ b \in Delivering => q.gen = "ended" \/ (~q.done /\ Total(q, h) = a)
  /\ \A n \in Messages : fates[n] = "unseen" <=> n > h

ServedAt(e) ==
  \E h \in 0 .. MaxMsgs : InLine(iter[e], h, arrived[e], fate[e], sub[e])

\* A request is asked for while there is room for it; nobody tells an iterator
\* to return; one that has ended is stopped; no handler outlives its fiber.
RoomyAt(e) ==
  /\ iter[e].promise \in {"pending", "value"} => Len(window[e]) < Concurrency[e]
  /\ ~iter[e].return
  /\ iter[e].gen = "ended" => iter[e].done
  /\ ~Serving(e) => \A n \in Messages : fate[e][n] # "running"

Served == \A e \in Endpoints : ServedAt(e) /\ RoomyAt(e)

\* The subscriptions are given up together.
Coupled ==
  /\ ~Stopped => \A e \in Endpoints : sub[e] = "open"
  /\ Stopped => \A e \in Endpoints : sub[e] # "open"
  /\ done => Stopped /\ \A e \in Endpoints : sub[e] = "closed"
  /\ scope = "closed" => FibersEnded /\ done

Thrown == \E e \in Endpoints, n \in Messages : fate[e][n] = "thrown"

\* What may make the service stop by itself.
Contained ==
  scope = "open" /\ \/ cause = "iterator"
                    \/ cause = "none" /\ \E e \in Endpoints : iter[e].done
    => Thrown

ServiceInv == ServiceTypeOK /\ Served /\ Coupled /\ Contained /\ ErrorsCounted

-----------------------------------------------------------------------------
(* The queue of one endpoint *)

LEMMA LinePushed ==
  ASSUME NEW q \in Iterator, NEW h \in 0 .. MaxMsgs, NEW a \in 0 .. MaxMsgs, NEW f,
         NEW b \in Delivering, InLine(q, h, a, f, b), a < MaxMsgs
  PROVE  LET s == Push(q, a + 1)
         IN  /\ s \in Iterator /\ InLine(s, h, a + 1, f, b)
             /\ s.gen = q.gen /\ s.done = q.done /\ s.promise = q.promise
             /\ s.return = q.return
<1>1. PICK s : s = Push(q, a + 1)
  OBVIOUS
<1>2. a + 1 \in Entry /\ h \in Nat
  BY MaxMsgsAssumption DEF Entry, Messages
<1>3. /\ AtRest(q) /\ Queued(q, h, a) /\ (q.gen = "ended" \/ (~q.done /\ Total(q, h) = a))
  BY DEF InLine
<1>4. /\ s \in Iterator /\ AtRest(s) /\ s.gen = q.gen /\ s.done = q.done
      /\ s.promise = q.promise /\ s.return = q.return
  BY <1>1, <1>2, <1>3, PushEffect
<1>5. Queued(s, h, a + 1) /\ (q.gen # "ended" => Total(s, h) = a + 1)
  BY <1>1, <1>2, <1>3, PushedMessage
<1>6. InLine(s, h, a + 1, f, b)
  BY <1>3, <1>4, <1>5 DEF InLine
<1> QED BY <1>1, <1>4, <1>6

LEMMA LineStopped ==
  ASSUME NEW q \in Iterator, NEW h, NEW a, NEW f, NEW b, InLine(q, h, a, f, b),
         NEW c, c \notin Delivering
  PROVE  LET s == Stop(q, FALSE)
         IN  /\ s \in Iterator /\ InLine(s, h, a, f, c)
             /\ s.gen = q.gen /\ s.done /\ s.promise = q.promise /\ s.return = q.return
<1>1. PICK s : s = Stop(q, FALSE)
  OBVIOUS
<1>2. AtRest(q) /\ Queued(q, h, a)
  BY DEF InLine
<1>3. /\ s \in Iterator /\ AtRest(s) /\ s.done /\ s.gen = q.gen /\ s.batch = q.batch
      /\ s.promise = q.promise /\ s.value = q.value /\ s.return = q.return
      /\ s.yields = q.yields
  BY <1>1, <1>2, StopEffect
<1>4. Queued(s, h, a)
  BY <1>2, <1>3, SameQueue
<1>5. InLine(s, h, a, f, c)
  BY <1>3, <1>4 DEF InLine
<1> QED BY <1>1, <1>3, <1>5

\* What asking for the next element and waking the generator have in common:
\* neither stops an iterator to which requests may still come.
LEMMA LineMoves ==
  ASSUME NEW q \in Iterator, NEW h \in 0 .. MaxMsgs, NEW a \in 0 .. MaxMsgs, NEW f, NEW b,
         InLine(q, h, a, f, b), q.promise # "value", q.gen # "ended",
         NEW s, LoopsTo(s, q)
  PROVE  /\ s \in Iterator /\ InLine(s, h, a, f, b) /\ s.return = q.return
         /\ (s.gen = "ended" => s.done)
         /\ (b \in Delivering => s.done = q.done)
<1>1. /\ AtRest(q) /\ Queued(q, h, a) /\ h \in Nat /\ a \in Nat
      /\ (b \in Delivering => ~q.done /\ Total(q, h) = a)
  BY MaxMsgsAssumption DEF InLine
<1>2. /\ Queued(s, h, a)
      /\ s.gen # "ended" => Total(s, h) = Total(q, h) /\ s.done = q.done
      /\ s.gen = "ended" => s.done /\ (q.done \/ (h = a /\ Total(q, h) > a))
  BY <1>1, LoopsToQueued
<1>3. Total(q, h) = a => ~(Total(q, h) > a)
  BY <1>1
<1>4. b \in Delivering => s.gen # "ended" /\ ~s.done /\ Total(s, h) = a /\ s.done = q.done
  BY <1>1, <1>2, <1>3
<1>5. s \in Iterator /\ AtRest(s) /\ s.return = q.return
  BY DEF LoopsTo
<1>6. InLine(s, h, a, f, b)
  BY <1>2, <1>4, <1>5 DEF InLine
<1> QED BY <1>2, <1>4, <1>5, <1>6

LEMMA LineAsked ==
  ASSUME NEW q \in Iterator, NEW h \in 0 .. MaxMsgs, NEW a \in 0 .. MaxMsgs, NEW f, NEW b,
         InLine(q, h, a, f, b), q.promise = "none", q.gen = "ended" => q.done
  PROVE  LET s == CallNext(q)
         IN  /\ s \in Iterator /\ InLine(s, h, a, f, b) /\ s.return = q.return
             /\ (s.gen = "ended" => s.done)
             /\ (b \in Delivering => s.done = q.done)
<1>1. PICK s : s = CallNext(q)
  OBVIOUS
<1>2. AtRest(q) /\ Queued(q, h, a) /\ h \in Nat
  BY DEF InLine
<1>3. CASE q.gen = "ended"
  <2>1. s = [q EXCEPT !.promise = "done"]
    BY <1>1, <1>3 DEF CallNext
  <2>2. /\ s \in Iterator /\ s.gen = "ended" /\ s.promise = "done" /\ s.done = q.done
        /\ s.return = q.return /\ AtRest(s)
    BY <1>2, <1>3, <2>1 DEF Iterator, AtRest, Consistent
  <2>3. Queued(s, h, a)
    BY <1>2, <2>2 DEF Queued, Given
  <2>4. InLine(s, h, a, f, b)
    BY <2>2, <2>3 DEF InLine
  <2> QED BY <1>1, <1>3, <2>2, <2>4
<1>4. CASE q.gen # "ended"
  <2>1. LoopsTo(s, q)
    BY <1>1, <1>2, <1>4, CallNextEffect, QueuedMessagesFirst
  <2> QED BY <1>1, <1>4, <2>1, LineMoves
<1> QED BY <1>3, <1>4

LEMMA LineWoken ==
  ASSUME NEW q \in Iterator, NEW h \in 0 .. MaxMsgs, NEW a \in 0 .. MaxMsgs, NEW f, NEW b,
         InLine(q, h, a, f, b), CanWake(q), ~q.return
  PROVE  LET s == Wake(q)
         IN  /\ s \in Iterator /\ InLine(s, h, a, f, b) /\ s.return = q.return
             /\ (s.gen = "ended" => s.done)
             /\ (b \in Delivering => s.done = q.done)
<1>1. PICK s : s = Wake(q)
  OBVIOUS
<1>2. /\ AtRest(q) /\ Queued(q, h, a) /\ h \in Nat /\ q.gen = "waiting"
      /\ q.promise = "pending"
  BY DEF InLine, CanWake, AtRest
<1>3. LoopsTo(s, q)
  BY <1>1, <1>2, WakeEffect, QueuedMessagesFirst DEF YieldsAndReturns
<1> QED BY <1>1, <1>2, <1>3, LineMoves

\* The value of next() is the next request, and is taken for the first time.
LEMMA LineTaken ==
  ASSUME NEW q \in Iterator, NEW h \in 0 .. MaxMsgs, NEW a \in 0 .. MaxMsgs, NEW f, NEW b,
         InLine(q, h, a, f, b), q.promise = "value", NEW g, g[q.value] # "unseen",
         \A n \in Messages \ {q.value} : g[n] = f[n]
  PROVE  LET s == [q EXCEPT !.promise = "none"]
         IN  /\ q.value \in Messages /\ f[q.value] = "unseen"
             /\ h + 1 \in 0 .. MaxMsgs
             /\ s \in Iterator /\ InLine(s, h + 1, a, g, b)
             /\ s.gen = q.gen /\ s.done = q.done /\ s.promise = "none"
             /\ s.return = q.return
<1>1. PICK s : s = [q EXCEPT !.promise = "none"]
  OBVIOUS
<1>2. AtRest(q) /\ Queued(q, h, a) /\ h \in Nat
  BY DEF InLine
<1>3. q.value = h + 1 /\ h + 1 \in Messages /\ h + 1 \in 0 .. MaxMsgs /\ h + 1 > h
  BY <1>2, MaxMsgsAssumption DEF Queued, Given, Messages
<1>4. /\ s \in Iterator /\ AtRest(s) /\ Queued(s, h + 1, a)
      /\ Total(s, h + 1) = Total(q, h)
      /\ s.gen = q.gen /\ s.done = q.done /\ s.promise = "none" /\ s.return = q.return
  BY <1>1, <1>2, ReceivedQueue
<1>5. \A n \in Messages : f[n] = "unseen" <=> n > h
  BY DEF InLine
<1>6. \A n \in Messages : g[n] = "unseen" <=> n > h + 1
  <2> TAKE n \in Messages
  <2>1. n \in Nat /\ h \in Nat
    BY MaxMsgsAssumption DEF Messages
  <2>2. CASE n = h + 1
    BY <1>3, <2>1, <2>2
  <2>3. CASE n # h + 1
    <3>1. g[n] = f[n]
      BY <1>3, <2>3
    <3>2. n > h <=> n > h + 1
      BY <2>1, <2>3
    <3> QED BY <1>5, <3>1, <3>2
  <2> QED BY <2>2, <2>3
<1>7. InLine(s, h + 1, a, g, b)
  BY <1>4, <1>6 DEF InLine
<1> QED BY <1>1, <1>3, <1>4, <1>5, <1>7

LEMMA AbandonedType ==
  /\ Abandoned \in Iterator /\ AtRest(Abandoned)
  /\ Abandoned.gen = "ended" /\ Abandoned.done /\ Abandoned.promise = "none"
  /\ ~Abandoned.return
<1>1. NewIterator \in Iterator
  BY NewIteratorType
<1>2. /\ Abandoned \in Iterator
      /\ Abandoned.gen = "ended" /\ Abandoned.done /\ Abandoned.promise = "none"
      /\ ~Abandoned.return /\ Abandoned.batch = << >>
  BY <1>1 DEF Abandoned, NewIterator, Iterator
<1> QED BY <1>2 DEF AtRest, Consistent

LEMMA LineAbandoned ==
  ASSUME NEW q, NEW h \in 0 .. MaxMsgs, NEW a \in 0 .. MaxMsgs, NEW f, NEW b, NEW g,
         InLine(q, h, a, f, b), \A n \in Messages : g[n] = "unseen" <=> f[n] = "unseen"
  PROVE  InLine(Abandoned, h, a, g, b)
<1>1. h <= a
  BY MaxMsgsAssumption DEF InLine, Queued, Given
<1>2. Queued(Abandoned, h, a)
  BY <1>1, AbandonedType DEF Queued, Given
<1> QED BY <1>2, AbandonedType DEF InLine

LEMMA LineSame ==
  ASSUME NEW q, NEW h, NEW a, NEW f, NEW b, NEW g, NEW c, InLine(q, h, a, f, b),
         c \in Delivering => b \in Delivering,
         \A n \in Messages : g[n] = "unseen" <=> f[n] = "unseen"
  PROVE  InLine(q, h, a, g, c)
BY DEF InLine

-----------------------------------------------------------------------------
(* Counting *)

EndedIn(f, outcomes) == {n \in Messages : f[n] \in outcomes}

\* errors counted on an endpoint, against the fates of its requests.
Counts(k, f) == k = Cardinality(EndedIn(f, {"error", "garbled", "defect"}))
                    + Cardinality(EndedIn(f, {"garbled"}))

LEMMA ErrorsCountedAt == ErrorsCounted <=> \A e \in Endpoints : Counts(errors[e], fate[e])
BY DEF ErrorsCounted, Counts, Failed, Ended, EndedIn

LEMMA EndedFinite ==
  ASSUME NEW f, NEW O
  PROVE  IsFiniteSet(EndedIn(f, O)) /\ Cardinality(EndedIn(f, O)) \in Nat
<1>1. IsFiniteSet(Messages)
  BY FS_Interval, MaxMsgsAssumption DEF Messages
<1>2. EndedIn(f, O) \in SUBSET Messages
  BY DEF EndedIn
<1> QED BY <1>1, <1>2, FS_Subset, FS_CardinalityType

LEMMA EndedAdds ==
  ASSUME NEW f, NEW g, NEW n \in Messages, NEW how, NEW O, f[n] \notin O,
         g[n] = how, \A m \in Messages \ {n} : g[m] = f[m]
  PROVE  Cardinality(EndedIn(g, O))
           = Cardinality(EndedIn(f, O)) + (IF how \in O THEN 1 ELSE 0)
<1>1. CASE how \in O
  <2>1. EndedIn(g, O) = EndedIn(f, O) \cup {n}
    BY <1>1 DEF EndedIn
  <2>2. n \notin EndedIn(f, O)
    BY DEF EndedIn
  <2>3. Cardinality(EndedIn(f, O) \cup {n}) = Cardinality(EndedIn(f, O)) + 1
    BY <2>2, EndedFinite, FS_AddElement
  <2> QED BY <1>1, <2>1, <2>3
<1>2. CASE how \notin O
  <2>1. EndedIn(g, O) = EndedIn(f, O)
    BY <1>2 DEF EndedIn
  <2> QED BY <1>2, <2>1, EndedFinite
<1> QED BY <1>1, <1>2

\* A handler that ends is counted as it should.
LEMMA CountsAdd ==
  ASSUME NEW k \in Nat, NEW f, DOMAIN f = Messages, NEW n \in Messages,
         f[n] = "running", NEW how \in AllOutcomes \ {"throws"}, Counts(k, f)
  PROVE  Counts(k + Counted(how), [f EXCEPT ![n] = how])
<1> DEFINE failed == {"error", "garbled", "defect"}
<1>0. PICK g : g = [f EXCEPT ![n] = how]
  OBVIOUS
<1>9. g[n] = how /\ \A m \in Messages \ {n} : g[m] = f[m]
  BY <1>0
<1>1. PICK x, y, x1, y1 :
        /\ x = Cardinality(EndedIn(f, failed)) /\ x1 = Cardinality(EndedIn(g, failed))
        /\ y = Cardinality(EndedIn(f, {"garbled"})) /\ y1 = Cardinality(EndedIn(g, {"garbled"}))
  OBVIOUS
<1>2. x \in Nat /\ y \in Nat
  BY <1>1, EndedFinite
<1>3. x1 = x + (IF how \in failed THEN 1 ELSE 0)
  <2>1. f[n] \notin failed
    OBVIOUS
  <2>2. Cardinality(EndedIn(g, failed))
          = Cardinality(EndedIn(f, failed)) + (IF how \in failed THEN 1 ELSE 0)
    <3> HIDE DEF failed
    <3> QED BY <1>9, <2>1, EndedAdds
  <2> QED BY <1>1, <2>2
<1>4. y1 = y + (IF how = "garbled" THEN 1 ELSE 0)
  <2> DEFINE twice == {"garbled"}
  <2>1. f[n] \notin twice /\ (how \in twice <=> how = "garbled")
    OBVIOUS
  <2>2. Cardinality(EndedIn(g, twice))
          = Cardinality(EndedIn(f, twice)) + (IF how \in twice THEN 1 ELSE 0)
    <3> HIDE DEF twice
    <3> QED BY <1>9, <2>1, EndedAdds
  <2> QED BY <1>1, <2>1, <2>2
<1>5. k = x + y
  BY <1>1 DEF Counts
<1>6. PICK c : c = Counted(how)
  OBVIOUS
<1>7. \/ c = 0 /\ x1 = x /\ y1 = y
      \/ c = 1 /\ x1 = x + 1 /\ y1 = y
      \/ c = 2 /\ x1 = x + 1 /\ y1 = y + 1
  BY <1>2, <1>3, <1>4, <1>6 DEF Counted, AllOutcomes
<1>8. k + c = x1 + y1
  BY <1>2, <1>5, <1>7
<1> QED BY <1>0, <1>1, <1>6, <1>8 DEF Counts

LEMMA CountsSame ==
  ASSUME NEW k, NEW f, NEW g, Counts(k, f),
         \A n \in Messages : g[n] = f[n] \/ (f[n] \in {"unseen", "running"}
                                             /\ g[n] \in {"running", "thrown", "cut"})
  PROVE  Counts(k, g)
<1>1. EndedIn(g, {"error", "garbled", "defect"}) = EndedIn(f, {"error", "garbled", "defect"})
  BY DEF EndedIn
<1>2. EndedIn(g, {"garbled"}) = EndedIn(f, {"garbled"})
  BY DEF EndedIn
<1> QED BY <1>1, <1>2 DEF Counts

-----------------------------------------------------------------------------
(* What a step leaves alone *)

\* An endpoint that a step does not concern.
LEMMA EndpointSame ==
  ASSUME NEW e \in Endpoints, ServedAt(e), RoomyAt(e),
         iter'[e] = iter[e], arrived'[e] = arrived[e], fate'[e] = fate[e],
         window'[e] = window[e], fiber'[e] = fiber[e],
         sub'[e] \in Delivering => sub[e] \in Delivering
  PROVE  ServedAt(e)' /\ RoomyAt(e)'
<1>1. PICK h \in 0 .. MaxMsgs : InLine(iter[e], h, arrived[e], fate[e], sub[e])
  BY DEF ServedAt
<1>2. InLine(iter'[e], h, arrived'[e], fate'[e], sub'[e])
  BY <1>1 DEF InLine
<1>3. ServedAt(e)'
  BY <1>2 DEF ServedAt
<1> QED BY <1>3 DEF RoomyAt, Serving

\* What was thrown stays thrown.
LEMMA ThrownStays ==
  ASSUME Thrown,
         \A f \in Endpoints, n \in Messages : fate[f][n] = "thrown" => fate'[f][n] = "thrown"
  PROVE  Thrown'
BY DEF Thrown

\* No request is delivered to a service that is not stopped past a stopped
\* iterator, unless a handler threw.
LEMMA Delivers ==
  ASSUME ServiceInv, ~Stopped, NEW e \in Endpoints
  PROVE  sub[e] = "open" /\ (scope = "open" /\ iter[e].done => Thrown)
BY DEF ServiceInv, Coupled, Contained, Stopped

-----------------------------------------------------------------------------
(* The invariant, action by action *)

LEMMA InitService == Init => ServiceInv
<1> SUFFICES ASSUME Init PROVE ServiceInv
  OBVIOUS
<1>1. /\ NewIterator \in Iterator /\ AtRest(NewIterator)
      /\ NewIterator.gen = "fresh" /\ NewIterator.promise = "none"
      /\ ~NewIterator.done /\ ~NewIterator.return
      /\ NewIterator.batch = << >> /\ NewIterator.yields = << >>
  BY NewIteratorType DEF NewIterator
<1>2. 0 \in 0 .. MaxMsgs /\ << >> \in Seq(Messages) /\ << >> \in Seq(Answers) /\ Len(<< >>) = 0
  BY MaxMsgsAssumption, EmptySeq
<1>3. ServiceTypeOK
  <2>1. \A e \in Endpoints : 0 <= Concurrency[e]
    BY ConcurrencyAssumption
  <2> QED BY <1>1, <1>2, <2>1 DEF Init, ServiceTypeOK, Fates
<1>4. /\ Given(NewIterator, 0) = 0 /\ Total(NewIterator, 0) = 0
      /\ Queued(NewIterator, 0, 0)
  <2>1. /\ Given(NewIterator, 0) = 0 /\ Len(NewIterator.batch) = 0
        /\ Len(NewIterator.yields) = 0
        /\ DOMAIN NewIterator.batch = {} /\ DOMAIN NewIterator.yields = {}
    BY <1>1, QueueTypes DEF Given
  <2> QED BY <1>1, <2>1 DEF Queued, Total
<1>5. Served
  <2> SUFFICES ASSUME NEW e \in Endpoints PROVE ServedAt(e) /\ RoomyAt(e)
    BY DEF Served
  <2>1. /\ iter[e] = NewIterator /\ arrived[e] = 0 /\ sub[e] = "open"
        /\ fate[e] = [n \in Messages |-> "unseen"] /\ fiber[e] = "serving"
    BY DEF Init
  <2>2. \A n \in Messages : fate[e][n] = "unseen" /\ n > 0
    BY <2>1, MaxMsgsAssumption DEF Messages
  <2>3. InLine(iter[e], 0, arrived[e], fate[e], sub[e])
    BY <1>1, <1>4, <2>1, <2>2 DEF InLine
  <2>4. ServedAt(e)
    BY <1>2, <2>3 DEF ServedAt
  <2> QED BY <1>1, <2>1, <2>4 DEF RoomyAt, Serving
<1>6. Coupled /\ Contained
  BY <1>1 DEF Init, Coupled, Contained, Stopped
<1>7. ErrorsCounted
  <2> SUFFICES ASSUME NEW e \in Endpoints PROVE Counts(errors[e], fate[e])
    BY ErrorsCountedAt
  <2>1. errors[e] = 0 /\ \A n \in Messages : fate[e][n] = "unseen"
    BY DEF Init
  <2>2. EndedIn(fate[e], {"error", "garbled", "defect"}) = {}
        /\ EndedIn(fate[e], {"garbled"}) = {}
    BY <2>1 DEF EndedIn
  <2> QED BY <2>1, <2>2, FS_EmptySet DEF Counts
<1> QED BY <1>3, <1>5, <1>6, <1>7 DEF ServiceInv

\* The service gives its subscriptions up.
LEMMA StoppingService ==
  ASSUME ServiceInv, ~Stopped, cause' \in (AllEnds \cup {"iterator"}),
         sub' \in [Endpoints -> {"draining", "closed"}],
         cause' = "iterator" /\ scope = "open" => Thrown,
         UNCHANGED <<iter, done, workVars, arrived, conn, scope>>
  PROVE  ServiceInv'
<1>1. /\ iter' = iter /\ done' = done /\ fiber' = fiber /\ window' = window /\ fate' = fate
      /\ answers' = answers /\ errors' = errors /\ arrived' = arrived /\ conn' = conn
      /\ scope' = scope
  BY DEF workVars
<1>2. ServiceTypeOK'
  BY <1>1 DEF ServiceInv, ServiceTypeOK
<1>3. Served'
  <2> SUFFICES ASSUME NEW e \in Endpoints PROVE ServedAt(e)' /\ RoomyAt(e)'
    BY DEF Served
  <2>1. ServedAt(e) /\ RoomyAt(e) /\ sub[e] \in Delivering
    BY Delivers DEF ServiceInv, Served, Delivering
  <2> QED BY <1>1, <2>1, EndpointSame
<1>4. cause' # "none"
  BY DEF AllEnds
<1>5. Coupled'
  <2>1. ~done
    BY DEF ServiceInv, Coupled
  <2>2. scope # "closed"
    BY <2>1 DEF ServiceInv, Coupled
  <2> QED BY <1>1, <1>4, <2>1, <2>2 DEF Coupled, Stopped
<1>6. Contained'
  <2>1. Thrown => Thrown'
    BY <1>1 DEF Thrown
  <2> QED BY <1>1, <1>4, <2>1 DEF Contained
<1>7. ErrorsCounted'
  BY <1>1 DEF ServiceInv, ErrorsCounted, Failed, Ended
<1> QED BY <1>2, <1>3, <1>5, <1>6, <1>7 DEF ServiceInv

LEMMA StopService ==
  ServiceInv /\ (CallerStops \/ Release \/ \E e \in Endpoints : IteratorClosed(e)
                                                            \/ SubscriptionFails(e))
    => ServiceInv'
<1> SUFFICES ASSUME ServiceInv,
                    CallerStops \/ Release \/ \E e \in Endpoints : IteratorClosed(e)
                                                               \/ SubscriptionFails(e)
             PROVE  ServiceInv'
  OBVIOUS
<1>0. \A e \in Endpoints : sub[e] \in {"open", "draining", "closed"}
  BY DEF ServiceInv, ServiceTypeOK
<1>1. ASSUME NEW why \in AllEnds \cup {"iterator"}, CloseService(why), ~Stopped
      PROVE  /\ cause' \in (AllEnds \cup {"iterator"}) /\ cause' = why
             /\ sub' \in [Endpoints -> {"draining", "closed"}]
  BY <1>0, <1>1 DEF CloseService
<1>2. CASE CallerStops \/ Release
  <2>1. /\ ~Stopped
        /\ cause' \in {"caller", "scope"}
        /\ cause' \in (AllEnds \cup {"iterator"})
        /\ sub' \in [Endpoints -> {"draining", "closed"}]
    BY <1>1, <1>2 DEF CallerStops, Release, AllEnds
  <2>2. UNCHANGED <<iter, done, workVars, arrived, conn, scope>>
    BY <1>2 DEF CallerStops, Release
  <2> QED BY <2>1, <2>2, StoppingService
<1>3. ASSUME NEW e \in Endpoints, IteratorClosed(e) PROVE ServiceInv'
  <2>1. /\ ~Stopped /\ iter[e].done /\ cause' \in (AllEnds \cup {"iterator"})
        /\ sub' \in [Endpoints -> {"draining", "closed"}]
    BY <1>1, <1>3 DEF IteratorClosed
  <2>2. UNCHANGED <<iter, done, workVars, arrived, conn, scope>>
    BY <1>3 DEF IteratorClosed
  <2>3. scope = "open" => Thrown
    BY <2>1, Delivers
  <2> QED BY <2>1, <2>2, <2>3, StoppingService
<1>4. ASSUME NEW e \in Endpoints, SubscriptionFails(e) PROVE ServiceInv'
  <2>1. /\ sub[e] = "open" /\ cause' = "subscription"
        /\ sub' = [f \in Endpoints |-> IF f = e THEN "closed" ELSE "draining"]
        /\ UNCHANGED <<iter, done, workVars, arrived, conn, scope>>
    BY <1>4 DEF SubscriptionFails
  <2>2. ~Stopped
    BY <2>1 DEF ServiceInv, Coupled
  <2>3. cause' \in (AllEnds \cup {"iterator"}) /\ sub' \in [Endpoints -> {"draining", "closed"}]
    BY <2>1 DEF AllEnds
  <2> QED BY <2>1, <2>2, <2>3, StoppingService
<1> QED BY <1>2, <1>3, <1>4

\* Promises and scopes.
LEMMA SettleService == ServiceInv /\ (Settle \/ CloseScope \/ ScopeClosed) => ServiceInv'
<1> SUFFICES ASSUME ServiceInv, Settle \/ CloseScope \/ ScopeClosed PROVE ServiceInv'
  OBVIOUS
<1>1. /\ iter' = iter /\ sub' = sub /\ cause' = cause /\ fiber' = fiber
      /\ window' = window /\ fate' = fate
      /\ answers' = answers /\ errors' = errors /\ arrived' = arrived /\ conn' = conn
  BY DEF Settle, CloseScope, ScopeClosed, workVars, serviceVars
<1>2. /\ done' = done \/ done' = TRUE
      /\ \/ scope' = scope \/ (scope = "open" /\ scope' = "closing")
         \/ (scope = "closing" /\ scope' = "closed")
  BY DEF Settle, CloseScope, ScopeClosed, serviceVars
<1>3. ServiceTypeOK'
  BY <1>1, <1>2 DEF ServiceInv, ServiceTypeOK
<1>4. Served'
  <2> SUFFICES ASSUME NEW e \in Endpoints PROVE ServedAt(e)' /\ RoomyAt(e)'
    BY DEF Served
  <2>1. ServedAt(e) /\ RoomyAt(e)
    BY DEF ServiceInv, Served
  <2> QED BY <1>1, <2>1, EndpointSame
<1>5. (Stopped' <=> Stopped) /\ (FibersEnded' <=> FibersEnded)
  BY <1>1 DEF Stopped, FibersEnded, Serving
<1>6. Coupled'
  <2>1. CASE Settle
    <3>1. /\ Stopped /\ scope' = scope
          /\ \A e \in Endpoints : sub[e] \in {"open", "draining", "closed"}
          /\ \A e \in Endpoints : sub[e] # "draining"
      BY <2>1 DEF Settle, ServiceInv, ServiceTypeOK
    <3>2. \A e \in Endpoints : sub[e] = "closed"
      BY <3>1 DEF ServiceInv, Coupled
    <3> QED BY <1>1, <1>2, <1>5, <3>1, <3>2 DEF ServiceInv, Coupled
  <2>2. CASE CloseScope \/ ScopeClosed
    <3>1. done' = done /\ (scope' = "closing" \/ (FibersEnded /\ done))
      BY <2>2 DEF CloseScope, ScopeClosed, serviceVars
    <3> QED BY <1>1, <1>2, <1>5, <3>1 DEF ServiceInv, Coupled
  <2> QED BY <2>1, <2>2
<1>7. Contained'
  <2>1. Thrown => Thrown'
    BY <1>1 DEF Thrown
  <2> QED BY <1>1, <1>2, <2>1 DEF ServiceInv, Contained
<1>8. ErrorsCounted'
  BY <1>1 DEF ServiceInv, ErrorsCounted, Failed, Ended
<1> QED BY <1>3, <1>4, <1>6, <1>7, <1>8 DEF ServiceInv

\* Drained subscriptions, or those of a closed connection, stop their iterators.
LEMMA DrainService ==
  ServiceInv /\ (ConnectionCloses \/ \E e \in Endpoints : DrainEnds(e)) => ServiceInv'
<1> SUFFICES ASSUME ServiceInv, ConnectionCloses \/ \E e \in Endpoints : DrainEnds(e)
             PROVE  ServiceInv'
  OBVIOUS
<1>1. /\ done' = done /\ fiber' = fiber /\ window' = window /\ fate' = fate
      /\ answers' = answers /\ errors' = errors /\ arrived' = arrived /\ scope' = scope
  BY DEF ConnectionCloses, DrainEnds, workVars
<1>2. /\ conn' \in {"open", "closed"} /\ Stopped' /\ cause' \in AllEnds \cup {"none", "iterator"}
      /\ (cause' = "iterator" => cause = "iterator") /\ cause' # "none"
  <2>1. CASE ConnectionCloses
    BY <2>1 DEF ConnectionCloses, Stopped, AllEnds, ServiceInv, ServiceTypeOK
  <2>2. ASSUME NEW e \in Endpoints, DrainEnds(e)
        PROVE  conn' = conn /\ cause' = cause /\ Stopped
    BY <2>2 DEF DrainEnds, ServiceInv, Coupled
  <2> QED BY <2>1, <2>2 DEF Stopped, ServiceInv, ServiceTypeOK
<1>3. /\ iter' \in [Endpoints -> Iterator] /\ sub' \in [Endpoints -> {"open", "draining", "closed"}]
      /\ \A e \in Endpoints :
           \/ iter'[e] = iter[e] /\ sub'[e] = sub[e]
           \/ iter'[e] = Stop(iter[e], FALSE) /\ sub'[e] = "closed"
  <2>0. /\ iter \in [Endpoints -> Iterator] /\ sub \in [Endpoints -> {"open", "draining", "closed"}]
    BY DEF ServiceInv, ServiceTypeOK
  <2>1. \A e \in Endpoints : Stop(iter[e], FALSE) \in Iterator
    BY <2>0, StopType, LoopingType
  <2>2. CASE ConnectionCloses
    <3>1. /\ sub' = [e \in Endpoints |-> "closed"]
          /\ iter' = [e \in Endpoints |-> IF sub[e] = "closed" THEN iter[e]
                                          ELSE Stop(iter[e], FALSE)]
      BY <2>2 DEF ConnectionCloses
    <3> QED BY <2>0, <2>1, <3>1
  <2>3. ASSUME NEW e \in Endpoints, DrainEnds(e)
        PROVE  /\ sub' = [sub EXCEPT ![e] = "closed"]
               /\ iter' = [iter EXCEPT ![e] = Stop(iter[e], FALSE)]
    BY <2>3 DEF DrainEnds
  <2> QED BY <2>0, <2>1, <2>2, <2>3
<1>4. ServiceTypeOK'
  BY <1>1, <1>2, <1>3 DEF ServiceInv, ServiceTypeOK
<1>5. Served'
  <2> SUFFICES ASSUME NEW e \in Endpoints PROVE ServedAt(e)' /\ RoomyAt(e)'
    BY DEF Served
  <2>1. ServedAt(e) /\ RoomyAt(e)
    BY DEF ServiceInv, Served
  <2>2. CASE iter'[e] = iter[e] /\ sub'[e] = sub[e]
    BY <1>1, <2>1, <2>2, EndpointSame
  <2>3. CASE iter'[e] = Stop(iter[e], FALSE) /\ sub'[e] = "closed"
    <3>1. PICK h \in 0 .. MaxMsgs : InLine(iter[e], h, arrived[e], fate[e], sub[e])
      BY <2>1 DEF ServedAt
    <3>2. PICK q, s : q = iter[e] /\ s = Stop(q, FALSE)
      OBVIOUS
    <3>3. q \in Iterator /\ "closed" \notin Delivering
      BY <3>2 DEF ServiceInv, ServiceTypeOK, Delivering
    <3>4. /\ InLine(s, h, arrived[e], fate[e], "closed")
          /\ s.gen = q.gen /\ s.done /\ s.promise = q.promise /\ s.return = q.return
      BY <3>1, <3>2, <3>3, LineStopped
    <3>5. ServedAt(e)'
      BY <1>1, <2>3, <3>2, <3>4 DEF ServedAt
    <3>6. RoomyAt(e)'
      BY <1>1, <2>1, <2>3, <3>2, <3>4 DEF RoomyAt, Serving
    <3> QED BY <3>5, <3>6
  <2> QED BY <1>3, <2>2, <2>3
<1>6. Coupled'
  <2>1. /\ \A e \in Endpoints : sub'[e] # "open"
        /\ \A e \in Endpoints : sub[e] = "closed" => sub'[e] = "closed"
    <3>1. CASE ConnectionCloses
      BY <3>1 DEF ConnectionCloses
    <3>2. ASSUME NEW e \in Endpoints, DrainEnds(e) PROVE Stopped
      BY <3>2 DEF DrainEnds, ServiceInv, Coupled
    <3> QED BY <1>3, <3>1, <3>2 DEF ServiceInv, Coupled
  <2>2. FibersEnded' <=> FibersEnded
    BY <1>1 DEF FibersEnded, Serving
  <2> QED BY <1>1, <1>2, <2>1, <2>2 DEF ServiceInv, Coupled
<1>7. Contained'
  <2>1. Thrown => Thrown'
    BY <1>1 DEF Thrown
  <2> QED BY <1>1, <1>2, <2>1 DEF ServiceInv, Contained
<1>8. ErrorsCounted'
  BY <1>1 DEF ServiceInv, ErrorsCounted, Failed, Ended
<1> QED BY <1>4, <1>5, <1>6, <1>7, <1>8 DEF ServiceInv

\* One iterator moves on: a request is pushed, asked for, or on its way to be
\* taken.
LEMMA IteratorService ==
  ASSUME ServiceInv, NEW e \in Endpoints, NEW s \in Iterator,
         iter' = [iter EXCEPT ![e] = s],
         arrived' \in [Endpoints -> 0 .. MaxMsgs],
         \A f \in Endpoints : f # e => arrived'[f] = arrived[f],
         \E h \in 0 .. MaxMsgs : InLine(s, h, arrived'[e], fate[e], sub[e]),
         s.promise \in {"pending", "value"} => Len(window[e]) < Concurrency[e],
         ~s.return, s.gen = "ended" => s.done,
         sub[e] \in Delivering => s.done = iter[e].done,
         UNCHANGED <<serviceVars, workVars, conn, scope>>
  PROVE  ServiceInv'
<1>1. /\ sub' = sub /\ cause' = cause /\ done' = done /\ fiber' = fiber
      /\ window' = window /\ fate' = fate /\ answers' = answers /\ errors' = errors
      /\ conn' = conn /\ scope' = scope
  BY DEF serviceVars, workVars
<1>2. iter \in [Endpoints -> Iterator]
  BY DEF ServiceInv, ServiceTypeOK
<1>3. /\ iter' \in [Endpoints -> Iterator] /\ iter'[e] = s
      /\ \A f \in Endpoints : f # e => iter'[f] = iter[f]
  BY <1>2
<1>4. ServiceTypeOK'
  BY <1>1, <1>3 DEF ServiceInv, ServiceTypeOK
<1>5. Served'
  <2> SUFFICES ASSUME NEW f \in Endpoints PROVE ServedAt(f)' /\ RoomyAt(f)'
    BY DEF Served
  <2>1. ServedAt(f) /\ RoomyAt(f)
    BY DEF ServiceInv, Served
  <2>2. CASE f # e
    BY <1>1, <1>3, <2>1, <2>2, EndpointSame
  <2>3. CASE f = e
    <3>1. ServedAt(e)'
      BY <1>1, <1>3 DEF ServedAt
    <3>2. RoomyAt(e)'
      BY <1>1, <1>3, <2>1, <2>3 DEF RoomyAt, Serving
    <3> QED BY <2>3, <3>1, <3>2
  <2> QED BY <2>2, <2>3
<1>6. Coupled'
  BY <1>1 DEF ServiceInv, Coupled, Stopped, FibersEnded, Serving
<1>7. Contained'
  <2>1. Thrown => Thrown'
    BY <1>1 DEF Thrown
  <2>2. ASSUME cause = "none", NEW f \in Endpoints, iter'[f].done
        PROVE  iter[f].done
    <3>1. sub[e] \in Delivering
      BY <2>2, Delivers DEF Stopped, Delivering
    <3> QED BY <1>3, <2>2, <3>1
  <2> QED BY <1>1, <2>1, <2>2 DEF ServiceInv, Contained
<1>8. ErrorsCounted'
  BY <1>1 DEF ServiceInv, ErrorsCounted, Failed, Ended
<1> QED BY <1>4, <1>5, <1>6, <1>7, <1>8 DEF ServiceInv

\* What is known of an endpoint before one of its steps.
LEMMA EndpointFacts ==
  ASSUME ServiceInv, NEW e \in Endpoints
  PROVE  /\ iter \in [Endpoints -> Iterator] /\ iter[e] \in Iterator
         /\ arrived \in [Endpoints -> 0 .. MaxMsgs] /\ arrived[e] \in 0 .. MaxMsgs
         /\ ServedAt(e) /\ RoomyAt(e)
BY DEF ServiceInv, ServiceTypeOK, Served

LEMMA ArriveService ==
  ASSUME ServiceInv, NEW e \in Endpoints, Arrive(e)
  PROVE  ServiceInv'
<1>1. PICK q : q = iter[e]
  OBVIOUS
<1>2. PICK a : a = arrived[e]
  OBVIOUS
<1>3. PICK b : b = sub[e]
  OBVIOUS
<1>4. PICK s : s = Push(q, a + 1)
  OBVIOUS
<1>5. /\ q \in Iterator /\ a \in 0 .. MaxMsgs /\ RoomyAt(e)
  BY <1>1, <1>2, EndpointFacts
<1>6. PICK h \in 0 .. MaxMsgs : InLine(q, h, a, fate[e], b)
  BY <1>1, <1>2, <1>3, EndpointFacts DEF ServedAt
<1>7. /\ b \in Delivering /\ a < Requests[e]
      /\ arrived' = [arrived EXCEPT ![e] = a + 1] /\ iter' = [iter EXCEPT ![e] = s]
      /\ UNCHANGED <<serviceVars, workVars, conn, scope>>
  BY <1>1, <1>2, <1>3, <1>4 DEF Arrive, Delivering
<1>8. a < MaxMsgs /\ a + 1 \in 0 .. MaxMsgs
  BY <1>5, <1>7, MaxMsgsAssumption, RequestsAssumption
<1>9. /\ arrived' \in [Endpoints -> 0 .. MaxMsgs] /\ arrived'[e] = a + 1
      /\ \A f \in Endpoints : f # e => arrived'[f] = arrived[f]
  BY <1>7, <1>8, EndpointFacts
<1>10. /\ s \in Iterator /\ InLine(s, h, a + 1, fate[e], b)
       /\ s.gen = q.gen /\ s.done = q.done /\ s.promise = q.promise /\ s.return = q.return
  BY <1>4, <1>5, <1>6, <1>7, <1>8, LinePushed
<1>11. \E k \in 0 .. MaxMsgs : InLine(s, k, arrived'[e], fate[e], sub[e])
  BY <1>3, <1>9, <1>10
<1> QED BY <1>1, <1>5, <1>7, <1>9, <1>10, <1>11, IteratorService DEF RoomyAt

LEMMA PullService ==
  ASSUME ServiceInv, NEW e \in Endpoints, Pull(e) \/ GeneratorWakes(e)
  PROVE  ServiceInv'
<1>1. PICK q : q = iter[e]
  OBVIOUS
<1>2. PICK a : a = arrived[e]
  OBVIOUS
<1>3. PICK b : b = sub[e]
  OBVIOUS
<1>4. PICK s : s = iter'[e]
  OBVIOUS
<1>5. /\ q \in Iterator /\ a \in 0 .. MaxMsgs /\ RoomyAt(e) /\ iter \in [Endpoints -> Iterator]
      /\ arrived \in [Endpoints -> 0 .. MaxMsgs]
      /\ ~q.return /\ (q.gen = "ended" => q.done)
      /\ (q.promise \in {"pending", "value"} => Len(window[e]) < Concurrency[e])
  BY <1>1, <1>2, EndpointFacts DEF RoomyAt
<1>6. PICK h \in 0 .. MaxMsgs : InLine(q, h, a, fate[e], b)
  BY <1>1, <1>2, <1>3, EndpointFacts DEF ServedAt
<1>7. arrived' = arrived /\ UNCHANGED <<serviceVars, workVars, conn, scope>>
  BY DEF Pull, GeneratorWakes
<1>8. \/ /\ s = CallNext(q) /\ q.promise = "none" /\ Len(window[e]) < Concurrency[e]
         /\ iter' = [iter EXCEPT ![e] = s]
      \/ s = Wake(q) /\ CanWake(q) /\ iter' = [iter EXCEPT ![e] = s]
  BY <1>1, <1>4, <1>5 DEF Pull, GeneratorWakes
<1>9. CanWake(q) => q.promise = "pending"
  BY <1>6 DEF InLine, AtRest, CanWake
<1>10. /\ s \in Iterator /\ InLine(s, h, a, fate[e], b) /\ s.return = q.return
       /\ (s.gen = "ended" => s.done)
       /\ (b \in Delivering => s.done = q.done)
  BY <1>5, <1>6, <1>8, LineAsked, LineWoken
<1>11. iter' = [iter EXCEPT ![e] = s] /\ Len(window[e]) < Concurrency[e]
  BY <1>5, <1>8, <1>9
<1>12. \E k \in 0 .. MaxMsgs : InLine(s, k, arrived'[e], fate[e], sub[e])
  BY <1>2, <1>3, <1>7, <1>10
<1> QED BY <1>1, <1>3, <1>5, <1>7, <1>10, <1>11, <1>12, IteratorService

\* The handler is given the next request, which nobody has had before.
LEMMA TakeService ==
  ASSUME ServiceInv, NEW e \in Endpoints, Take(e)
  PROVE  ServiceInv'
<1>1. PICK q : q = iter[e]
  OBVIOUS
<1>2. PICK a : a = arrived[e]
  OBVIOUS
<1>3. PICK b : b = sub[e]
  OBVIOUS
<1>4. PICK s : s = [q EXCEPT !.promise = "none"]
  OBVIOUS
<1>5. /\ q \in Iterator /\ a \in 0 .. MaxMsgs /\ RoomyAt(e) /\ iter \in [Endpoints -> Iterator]
      /\ arrived \in [Endpoints -> 0 .. MaxMsgs]
      /\ ~q.return /\ (q.gen = "ended" => q.done)
      /\ (q.promise \in {"pending", "value"} => Len(window[e]) < Concurrency[e])
  BY <1>1, <1>2, EndpointFacts DEF RoomyAt
<1>6. PICK h \in 0 .. MaxMsgs : InLine(q, h, a, fate[e], b)
  BY <1>1, <1>2, <1>3, EndpointFacts DEF ServedAt
<1>7. PICK x \in {"running", "thrown"} : fate' = [fate EXCEPT ![e][q.value] = x]
  BY <1>1 DEF Take
<1>8. /\ Serving(e) /\ q.promise = "value" /\ window' = [window EXCEPT ![e] = Append(@, q.value)]
      /\ iter' = [iter EXCEPT ![e] = s]
      /\ sub' = sub /\ cause' = cause /\ done' = done /\ fiber' = fiber
      /\ answers' = answers /\ errors' = errors /\ arrived' = arrived
      /\ conn' = conn /\ scope' = scope
  BY <1>1, <1>4 DEF Take, serviceVars
<1>9. PICK g, f : g = fate'[e] /\ f = fate[e]
  OBVIOUS
<1>10. /\ fate \in [Endpoints -> [Messages -> Fates]] /\ f \in [Messages -> Fates]
       /\ window \in [Endpoints -> Seq(Messages)]
  BY <1>9 DEF ServiceInv, ServiceTypeOK
<1>11. /\ g = [f EXCEPT ![q.value] = x] /\ DOMAIN f = Messages /\ x # "unseen"
       /\ \A d \in Endpoints : d # e => fate'[d] = fate[d]
  BY <1>7, <1>9, <1>10
<1>12. /\ q.value \in Messages /\ f[q.value] = "unseen"
       /\ h + 1 \in 0 .. MaxMsgs
       /\ s \in Iterator /\ InLine(s, h + 1, a, g, b)
       /\ s.gen = q.gen /\ s.done = q.done /\ s.promise = "none"
       /\ s.return = q.return
  <2>1. q.value \in Messages
    <3>1. q.value = h + 1 /\ h + 1 <= a
      BY <1>6, <1>8 DEF InLine, Queued, Given
    <3> QED BY <1>5, <3>1, MaxMsgsAssumption DEF Messages
  <2>2. g[q.value] # "unseen" /\ \A n \in Messages \ {q.value} : g[n] = f[n]
    BY <1>11, <2>1
  <2>3. InLine(q, h, a, f, b)
    BY <1>6, <1>9
  <2> QED BY <1>4, <1>5, <1>8, <2>2, <2>3, LineTaken
<1>13. /\ iter' \in [Endpoints -> Iterator] /\ iter'[e] = s
       /\ \A d \in Endpoints : d # e => iter'[d] = iter[d]
  BY <1>5, <1>8, <1>12
<1>14. /\ window' \in [Endpoints -> Seq(Messages)]
       /\ Len(window'[e]) <= Concurrency[e]
       /\ \A d \in Endpoints : d # e => window'[d] = window[d]
  <2>1. PICK w : w = Append(window[e], q.value)
    OBVIOUS
  <2>2. /\ window[e] \in Seq(Messages) /\ w \in Seq(Messages)
        /\ Len(w) = Len(window[e]) + 1 /\ Len(window[e]) \in Nat
    BY <1>10, <1>12, <2>1, AppendProperties, LenProperties
  <2>3. Concurrency[e] \in Nat /\ Len(window[e]) < Concurrency[e]
    BY <1>5, <1>8, ConcurrencyAssumption
  <2>4. window' = [window EXCEPT ![e] = w]
    BY <1>8, <2>1
  <2>5. Len(w) <= Concurrency[e]
    BY <2>2, <2>3
  <2> QED BY <1>10, <2>2, <2>4, <2>5
<1>15. /\ fate' \in [Endpoints -> [Messages -> Fates]]
       /\ \A n \in Messages : g[n] = f[n] \/ (f[n] = "unseen" /\ g[n] = x)
  <2>1. g \in [Messages -> Fates]
    BY <1>10, <1>11 DEF Fates
  <2>2. fate' = [fate EXCEPT ![e] = g]
    BY <1>7, <1>9, <1>10
  <2> QED BY <1>10, <1>11, <1>12, <2>1, <2>2
<1>16. ServiceTypeOK'
  BY <1>8, <1>13, <1>14, <1>15 DEF ServiceInv, ServiceTypeOK
<1>17. Served'
  <2> SUFFICES ASSUME NEW d \in Endpoints PROVE ServedAt(d)' /\ RoomyAt(d)'
    BY DEF Served
  <2>1. ServedAt(d) /\ RoomyAt(d)
    BY DEF ServiceInv, Served
  <2>2. CASE d # e
    BY <1>8, <1>11, <1>13, <1>14, <2>1, <2>2, EndpointSame
  <2>3. CASE d = e
    <3>1. ServedAt(e)'
      BY <1>2, <1>3, <1>8, <1>9, <1>12, <1>13 DEF ServedAt
    <3>2. RoomyAt(e)'
      BY <1>5, <1>8, <1>12, <1>13 DEF RoomyAt, Serving
    <3> QED BY <2>3, <3>1, <3>2
  <2> QED BY <2>2, <2>3
<1>18. Coupled'
  BY <1>8 DEF ServiceInv, Coupled, Stopped, FibersEnded, Serving
<1>19. Contained'
  <2>1. Thrown => Thrown'
    <3>1. \A d \in Endpoints, n \in Messages : fate[d][n] = "thrown" => fate'[d][n] = "thrown"
      <4> TAKE d \in Endpoints, n \in Messages
      <4>1. CASE d = e
        BY <1>9, <1>15, <4>1
      <4>2. CASE d # e
        BY <1>11, <4>2
      <4> QED BY <4>1, <4>2
    <3> QED BY <3>1, ThrownStays
  <2>2. \A d \in Endpoints : iter'[d].done = iter[d].done
    BY <1>1, <1>12, <1>13
  <2> QED BY <1>8, <2>1, <2>2 DEF ServiceInv, Contained
<1>20. ErrorsCounted'
  <2>1. \A d \in Endpoints : Counts(errors[d], fate[d])
    BY ErrorsCountedAt DEF ServiceInv
  <2>2. ASSUME NEW d \in Endpoints PROVE Counts(errors'[d], fate'[d])
    <3>1. CASE d = e
      BY <1>8, <1>9, <1>15, <2>1, <3>1, CountsSame
    <3>2. CASE d # e
      BY <1>8, <1>11, <2>1, <3>2
    <3> QED BY <3>1, <3>2
  <2>3. ErrorsCounted' <=> \A d \in Endpoints : Counts(errors'[d], fate'[d])
    BY DEF ErrorsCounted, Counts, Failed, Ended, EndedIn
  <2> QED BY <2>2, <2>3
<1> QED BY <1>16, <1>17, <1>18, <1>19, <1>20 DEF ServiceInv

\* A handler ends, and is answered and counted.
LEMMA HandlerService ==
  ASSUME ServiceInv, NEW e \in Endpoints, NEW n \in Messages,
         NEW how \in Outcomes[e] \ {"throws"}, HandlerEnds(e, n, how)
  PROVE  ServiceInv'
<1>1. PICK g, f : g = fate'[e] /\ f = fate[e]
  OBVIOUS
<1>2. /\ fate \in [Endpoints -> [Messages -> Fates]] /\ f \in [Messages -> Fates]
      /\ answers \in [Endpoints -> [Messages -> Seq(Answers)]]
      /\ errors \in [Endpoints -> Nat]
  BY <1>1 DEF ServiceInv, ServiceTypeOK
<1>3. how \in AllOutcomes \ {"throws"}
  BY OutcomesAssumption
<1>4. /\ f[n] = "running" /\ fate' = [fate EXCEPT ![e][n] = how]
      /\ iter' = iter /\ sub' = sub /\ cause' = cause /\ done' = done /\ fiber' = fiber
      /\ window' = window /\ arrived' = arrived /\ conn' = conn /\ scope' = scope
      /\ errors' = [errors EXCEPT ![e] = errors[e] + Counted(how)]
  BY <1>1 DEF HandlerEnds, Answer, serviceVars
<1>5. answers' \in [Endpoints -> [Messages -> Seq(Answers)]]
  <2>1. Sent(how) \in Seq(Answers)
    <3>1. /\ << >> \in Seq(Answers) /\ <<"reply">> \in Seq(Answers)
          /\ <<"error">> \in Seq(Answers) /\ <<"internal error">> \in Seq(Answers)
      BY DEF Answers
    <3>2. Sent(how) \in {<< >>, <<"reply">>, <<"error">>, <<"internal error">>}
      BY <1>3 DEF Sent, AllOutcomes
    <3> QED BY <3>1, <3>2
  <2>2. PICK w : w = answers[e][n] \o Sent(how)
    OBVIOUS
  <2>3. w \in Seq(Answers)
    BY <1>2, <2>1, <2>2, ConcatProperties
  <2>4. answers' = answers \/ answers' = [answers EXCEPT ![e][n] = w]
    BY <2>2 DEF HandlerEnds, Answer
  <2>5. PICK row : row = [answers[e] EXCEPT ![n] = w]
    OBVIOUS
  <2>6. row \in [Messages -> Seq(Answers)]
    BY <1>2, <2>3, <2>5
  <2>7. answers' = answers \/ answers' = [answers EXCEPT ![e] = row]
    BY <1>2, <2>4, <2>5
  <2> QED BY <1>2, <2>6, <2>7
<1>6. /\ g = [f EXCEPT ![n] = how] /\ g[n] = how
      /\ \A m \in Messages \ {n} : g[m] = f[m]
      /\ \A d \in Endpoints : d # e => fate'[d] = fate[d]
  BY <1>1, <1>2, <1>4
<1>7. how \in Fates /\ how \notin {"unseen", "running", "thrown"}
  BY <1>3 DEF Fates, AllOutcomes
<1>8. fate' \in [Endpoints -> [Messages -> Fates]]
  <2>1. g \in [Messages -> Fates]
    BY <1>2, <1>6, <1>7
  <2>2. fate' = [fate EXCEPT ![e] = g]
    BY <1>1, <1>2, <1>4
  <2> QED BY <1>2, <2>1, <2>2
<1>9. Counted(how) \in Nat
  BY <1>3 DEF Counted, AllOutcomes
<1>10. /\ errors' \in [Endpoints -> Nat] /\ errors'[e] = errors[e] + Counted(how)
       /\ \A d \in Endpoints : d # e => errors'[d] = errors[d]
  BY <1>2, <1>4, <1>9
<1>11. ServiceTypeOK'
  BY <1>4, <1>5, <1>8, <1>10 DEF ServiceInv, ServiceTypeOK
<1>12. Served'
  <2> SUFFICES ASSUME NEW d \in Endpoints PROVE ServedAt(d)' /\ RoomyAt(d)'
    BY DEF Served
  <2>1. ServedAt(d) /\ RoomyAt(d)
    BY DEF ServiceInv, Served
  <2>2. CASE d # e
    BY <1>4, <1>6, <2>1, <2>2, EndpointSame
  <2>3. CASE d = e
    <3>1. \A m \in Messages : /\ g[m] = "unseen" <=> f[m] = "unseen"
                              /\ g[m] = "running" => f[m] = "running"
      BY <1>4, <1>6, <1>7
    <3>2. PICK h \in 0 .. MaxMsgs : InLine(iter[e], h, arrived[e], f, sub[e])
      BY <1>1, <2>1, <2>3 DEF ServedAt
    <3>3. InLine(iter[e], h, arrived[e], g, sub[e])
      BY <3>1, <3>2, LineSame
    <3>4. ServedAt(e)'
      BY <1>1, <1>4, <3>3 DEF ServedAt
    <3>5. RoomyAt(e)'
      BY <1>1, <1>4, <2>1, <2>3, <3>1 DEF RoomyAt, Serving
    <3> QED BY <2>3, <3>4, <3>5
  <2> QED BY <2>2, <2>3
<1>13. Coupled'
  BY <1>4 DEF ServiceInv, Coupled, Stopped, FibersEnded, Serving
<1>14. Contained'
  <2>1. \A d \in Endpoints, m \in Messages : fate[d][m] = "thrown" => fate'[d][m] = "thrown"
    <3> TAKE d \in Endpoints, m \in Messages
    <3>1. CASE d = e
      BY <1>1, <1>4, <1>6, <3>1
    <3>2. CASE d # e
      BY <1>6, <3>2
    <3> QED BY <3>1, <3>2
  <2>2. Thrown => Thrown'
    BY <2>1, ThrownStays
  <2> QED BY <1>4, <2>2 DEF ServiceInv, Contained
<1>15. ErrorsCounted'
  <2>1. \A d \in Endpoints : Counts(errors[d], fate[d])
    BY ErrorsCountedAt DEF ServiceInv
  <2>2. ASSUME NEW d \in Endpoints PROVE Counts(errors'[d], fate'[d])
    <3>1. CASE d = e
      <4>1. PICK k : k = errors[e]
        OBVIOUS
      <4>2. k \in Nat /\ DOMAIN f = Messages /\ Counts(k, f)
        BY <1>1, <1>2, <2>1, <4>1
      <4>3. Counts(k + Counted(how), [f EXCEPT ![n] = how])
        BY <1>3, <1>4, <4>2, CountsAdd
      <4> QED BY <1>1, <1>6, <1>10, <3>1, <4>1, <4>3
    <3>2. CASE d # e
      BY <1>6, <1>10, <2>1, <3>2
    <3> QED BY <3>1, <3>2
  <2>3. ErrorsCounted' <=> \A d \in Endpoints : Counts(errors'[d], fate'[d])
    BY DEF ErrorsCounted, Counts, Failed, Ended, EndedIn
  <2> QED BY <2>2, <2>3
<1> QED BY <1>11, <1>12, <1>13, <1>14, <1>15 DEF ServiceInv

LEMMA RetireService ==
  ASSUME ServiceInv, NEW e \in Endpoints, Retire(e)
  PROVE  ServiceInv'
<1>1. /\ window[e] # << >> /\ window' = [window EXCEPT ![e] = Tail(window[e])]
      /\ iter' = iter /\ sub' = sub /\ cause' = cause /\ done' = done /\ fiber' = fiber
      /\ fate' = fate /\ answers' = answers /\ errors' = errors /\ arrived' = arrived
      /\ conn' = conn /\ scope' = scope
  BY DEF Retire, serviceVars
<1>2. PICK t : t = Tail(window[e])
  OBVIOUS
<1>3. window \in [Endpoints -> Seq(Messages)] /\ Len(window[e]) <= Concurrency[e]
  BY DEF ServiceInv, ServiceTypeOK
<1>4. /\ t \in Seq(Messages) /\ Len(t) \in Nat /\ Len(window[e]) \in Nat
      /\ Len(t) < Len(window[e])
  <2>1. /\ window[e] \in Seq(Messages) /\ t \in Seq(Messages)
        /\ Len(t) = Len(window[e]) - 1
    BY <1>1, <1>2, <1>3, HeadTailProperties
  <2>2. Len(t) \in Nat /\ Len(window[e]) \in Nat
    BY <2>1, LenProperties
  <2> QED BY <2>1, <2>2
<1>5. Concurrency[e] \in Nat
  BY ConcurrencyAssumption
<1>6. /\ window' \in [Endpoints -> Seq(Messages)] /\ window'[e] = t
      /\ Len(t) <= Concurrency[e]
      /\ (Len(window[e]) < Concurrency[e] => Len(t) < Concurrency[e])
      /\ \A d \in Endpoints : d # e => window'[d] = window[d]
  BY <1>1, <1>2, <1>3, <1>4, <1>5
<1>7. ServiceTypeOK'
  BY <1>1, <1>6 DEF ServiceInv, ServiceTypeOK
<1>8. Served'
  <2> SUFFICES ASSUME NEW d \in Endpoints PROVE ServedAt(d)' /\ RoomyAt(d)'
    BY DEF Served
  <2>1. ServedAt(d) /\ RoomyAt(d)
    BY DEF ServiceInv, Served
  <2>2. CASE d # e
    BY <1>1, <1>6, <2>1, <2>2, EndpointSame
  <2>3. CASE d = e
    BY <1>1, <1>6, <2>1, <2>3 DEF ServedAt, RoomyAt, Serving
  <2> QED BY <2>2, <2>3
<1>9. Coupled' /\ Contained'
  BY <1>1 DEF ServiceInv, Coupled, Contained, Thrown, Stopped, FibersEnded, Serving
<1>10. ErrorsCounted'
  BY <1>1 DEF ServiceInv, ErrorsCounted, Failed, Ended
<1> QED BY <1>7, <1>8, <1>9, <1>10 DEF ServiceInv

\* The fiber of an endpoint ends: it crashes, comes to the end of its stream, or
\* is interrupted by the scope.
LEMMA FiberService ==
  ASSUME ServiceInv, NEW e \in Endpoints, Crash(e) \/ StreamEnds(e) \/ Interrupt(e)
  PROVE  ServiceInv'
<1>1. PICK g, f : g = fate'[e] /\ f = fate[e]
  OBVIOUS
<1>2. PICK how \in {"crashed", "ended", "cut"} : FiberEnds(e, how)
  BY DEF Crash, StreamEnds, Interrupt
<1>3. /\ fate \in [Endpoints -> [Messages -> Fates]] /\ f \in [Messages -> Fates]
      /\ iter \in [Endpoints -> Iterator] /\ window \in [Endpoints -> Seq(Messages)]
      /\ fiber \in [Endpoints -> {"serving", "crashed", "ended", "cut"}]
      /\ arrived \in [Endpoints -> 0 .. MaxMsgs]
  BY <1>1 DEF ServiceInv, ServiceTypeOK
<1>4. /\ sub' = sub /\ cause' = cause /\ done' = done /\ answers' = answers
      /\ errors' = errors /\ arrived' = arrived /\ conn' = conn /\ scope' = scope
      /\ fiber' = [fiber EXCEPT ![e] = how] /\ window' = [window EXCEPT ![e] = << >>]
      /\ fate' = [fate EXCEPT ![e] = [n \in Messages |->
                                        IF @[n] = "running" THEN "cut" ELSE @[n]]]
      /\ iter' = [iter EXCEPT ![e] = Abandoned]
  BY <1>2 DEF Crash, StreamEnds, Interrupt, FiberEnds, serviceVars
<1>5. /\ g = [n \in Messages |-> IF f[n] = "running" THEN "cut" ELSE f[n]]
      /\ g \in [Messages -> Fates] /\ fate' = [fate EXCEPT ![e] = g]
  BY <1>1, <1>3, <1>4 DEF Fates
<1>6. /\ \A n \in Messages : g[n] = f[n] \/ (f[n] = "running" /\ g[n] = "cut")
      /\ \A n \in Messages : g[n] = "unseen" <=> f[n] = "unseen"
      /\ \A n \in Messages : g[n] # "running"
  BY <1>5
<1>7. << >> \in Seq(Messages) /\ Len(<< >>) = 0 /\ 0 <= Concurrency[e]
  BY EmptySeq, ConcurrencyAssumption
<1>8. /\ iter' \in [Endpoints -> Iterator] /\ window' \in [Endpoints -> Seq(Messages)]
      /\ fate' \in [Endpoints -> [Messages -> Fates]]
      /\ fiber' \in [Endpoints -> {"serving", "crashed", "ended", "cut"}]
      /\ iter'[e] = Abandoned /\ window'[e] = << >> /\ fiber'[e] = how
      /\ \A d \in Endpoints : d # e => /\ iter'[d] = iter[d] /\ window'[d] = window[d]
                                       /\ fate'[d] = fate[d] /\ fiber'[d] = fiber[d]
  BY <1>3, <1>4, <1>5, <1>7, AbandonedType
<1>9. ServiceTypeOK'
  <2>1. \A d \in Endpoints : Len(window'[d]) <= Concurrency[d]
    BY <1>7, <1>8 DEF ServiceInv, ServiceTypeOK
  <2> QED BY <1>4, <1>8, <2>1 DEF ServiceInv, ServiceTypeOK
<1>10. Served'
  <2> SUFFICES ASSUME NEW d \in Endpoints PROVE ServedAt(d)' /\ RoomyAt(d)'
    BY DEF Served
  <2>1. ServedAt(d) /\ RoomyAt(d)
    BY DEF ServiceInv, Served
  <2>2. CASE d # e
    BY <1>4, <1>8, <2>1, <2>2, EndpointSame
  <2>3. CASE d = e
    <3>1. PICK h \in 0 .. MaxMsgs : InLine(iter[e], h, arrived[e], f, sub[e])
      BY <1>1, <2>1, <2>3 DEF ServedAt
    <3>2. PICK a \in 0 .. MaxMsgs : a = arrived[e]
      BY <1>3
    <3>3. InLine(Abandoned, h, a, g, sub[e])
      BY <1>6, <3>1, <3>2, LineAbandoned
    <3>4. ServedAt(e)'
      BY <1>1, <1>4, <1>8, <3>2, <3>3 DEF ServedAt
    <3>5. RoomyAt(e)'
      BY <1>1, <1>6, <1>8, AbandonedType DEF RoomyAt
    <3> QED BY <2>3, <3>4, <3>5
  <2> QED BY <2>2, <2>3
<1>11. Coupled'
  <2>1. FibersEnded => FibersEnded'
    BY <1>8 DEF FibersEnded, Serving
  <2> QED BY <1>4, <2>1 DEF ServiceInv, Coupled, Stopped
<1>12. Contained'
  <2>1. \A d \in Endpoints, n \in Messages : fate[d][n] = "thrown" => fate'[d][n] = "thrown"
    <3> TAKE d \in Endpoints, n \in Messages
    <3>1. CASE d = e
      BY <1>1, <1>6, <3>1
    <3>2. CASE d # e
      BY <1>8, <3>2
    <3> QED BY <3>1, <3>2
  <2>2. Thrown => Thrown'
    BY <2>1, ThrownStays
  <2>3. scope = "open" /\ cause = "none" => Thrown
    <3> SUFFICES ASSUME scope = "open", cause = "none" PROVE Thrown
      OBVIOUS
    <3>1. CASE Crash(e)
      <4>1. window[e] # << >> /\ fate[e][Head(window[e])] = "thrown"
        BY <3>1 DEF Crash
      <4>2. Head(window[e]) \in Messages
        BY <1>3, <4>1, HeadTailProperties
      <4> QED BY <4>1, <4>2 DEF Thrown
    <3>2. CASE StreamEnds(e)
      <4>1. iter[e].promise = "done" /\ iter[e] \in Iterator
        BY <1>3, <3>2 DEF StreamEnds
      <4>2. AtRest(iter[e])
        BY EndpointFacts DEF ServedAt, InLine
      <4>3. iter[e].gen = "ended"
        BY <4>1, <4>2 DEF AtRest, Iterator
      <4>4. iter[e].done
        BY <4>3, EndpointFacts DEF RoomyAt
      <4> QED BY <4>4 DEF ServiceInv, Contained
    <3>3. CASE Interrupt(e)
      BY <3>3 DEF Interrupt
    <3> QED BY <3>1, <3>2, <3>3
  <2> QED BY <1>4, <2>2, <2>3 DEF ServiceInv, Contained
<1>13. ErrorsCounted'
  <2>1. \A d \in Endpoints : Counts(errors[d], fate[d])
    BY ErrorsCountedAt DEF ServiceInv
  <2>2. ASSUME NEW d \in Endpoints PROVE Counts(errors'[d], fate'[d])
    <3>1. CASE d = e
      BY <1>1, <1>4, <1>6, <2>1, <3>1, CountsSame
    <3>2. CASE d # e
      BY <1>4, <1>8, <2>1, <3>2
    <3> QED BY <3>1, <3>2
  <2>3. ErrorsCounted' <=> \A d \in Endpoints : Counts(errors'[d], fate'[d])
    BY DEF ErrorsCounted, Counts, Failed, Ended, EndedIn
  <2> QED BY <2>2, <2>3
<1> QED BY <1>9, <1>10, <1>11, <1>12, <1>13 DEF ServiceInv

LEMMA SameService == ServiceInv /\ UNCHANGED vars => ServiceInv'
<1> SUFFICES ASSUME ServiceInv, UNCHANGED vars PROVE ServiceInv'
  OBVIOUS
<1>1. /\ iter' = iter /\ sub' = sub /\ cause' = cause /\ done' = done /\ fiber' = fiber
      /\ window' = window /\ fate' = fate /\ answers' = answers /\ errors' = errors
      /\ arrived' = arrived /\ conn' = conn /\ scope' = scope
  BY DEF vars, serviceVars, workVars
<1>2. ServiceTypeOK' /\ ErrorsCounted'
  BY <1>1 DEF ServiceInv, ServiceTypeOK, ErrorsCounted, Failed, Ended
<1>3. Served'
  BY <1>1 DEF ServiceInv, Served, ServedAt, RoomyAt, Serving
<1>4. Coupled' /\ Contained'
  BY <1>1 DEF ServiceInv, Coupled, Contained, Thrown, Stopped, FibersEnded, Serving
<1> QED BY <1>2, <1>3, <1>4 DEF ServiceInv

-----------------------------------------------------------------------------
(* Theorems *)

\* The invariant holds of every service, whatever the number of its endpoints,
\* their concurrency and what their handlers do (runEndpoint, ServiceImpl).
THEOREM ServiceInvariance == Spec => []ServiceInv
<1>1. ServiceInv /\ [Next]_vars => ServiceInv'
  <2> SUFFICES ASSUME ServiceInv, [Next]_vars PROVE ServiceInv'
    OBVIOUS
  <2>1. ASSUME NEW e \in Endpoints,
               IteratorClosed(e) \/ DrainEnds(e) \/ Pull(e) \/ GeneratorWakes(e)
               \/ Take(e) \/ Retire(e) \/ Crash(e) \/ StreamEnds(e) \/ Interrupt(e)
               \/ Arrive(e) \/ SubscriptionFails(e)
        PROVE  ServiceInv'
    BY <2>1, StopService, DrainService, PullService, TakeService, RetireService,
       FiberService, ArriveService
  <2>2. ASSUME NEW e \in Endpoints, NEW n \in Messages,
               NEW how \in Outcomes[e] \ {"throws"}, HandlerEnds(e, n, how)
        PROVE  ServiceInv'
    BY <2>2, HandlerService
  <2>3. CASE Settle \/ Release \/ ScopeClosed \/ CallerStops \/ ConnectionCloses \/ CloseScope
    BY <2>3, SettleService, StopService, DrainService
  <2>4. CASE UNCHANGED vars
    BY <2>4, SameService
  <2> QED BY <2>1, <2>2, <2>3, <2>4 DEF Next, Proceed, Happen
<1> QED BY InitService, <1>1, PTL DEF Spec

\* Every variable has its type; no endpoint ever holds more requests than its
\* concurrency allows (mapEffect).
THEOREM ServiceTypeCorrect == Spec => []ServiceTypeOK
<1>1. ServiceInv => ServiceTypeOK
  BY DEF ServiceInv
<1> QED BY ServiceInvariance, <1>1, PTL

\* While the scope is open only a handler that throws makes the service stop by
\* itself: no answer, no error and no race of the queue does (handleOne).
THEOREM OnlyThrowsStop == Spec => []FailuresContained
<1>1. ServiceInv => FailuresContained
  BY DEF ServiceInv, Contained, Thrown, FailuresContained
<1> QED BY ServiceInvariance, <1>1, PTL

\* The reported errors are the requests that failed, plus one for each error
\* answer that had to be replaced (handleOne, patchStats).
THEOREM ErrorsAreCounted == Spec => []ErrorsCounted
<1>1. ServiceInv => ErrorsCounted
  BY DEF ServiceInv
<1> QED BY ServiceInvariance, <1>1, PTL

\* A closed scope leaves no subscription and no handler behind, whichever side
\* stopped the service first (make, release).
THEOREM ServiceLeavesNothing == Spec => []NothingLeftRunning
<1>1. ServiceInv => NothingLeftRunning
  BY DEF ServiceInv, Served, RoomyAt, Coupled, FibersEnded, NothingLeftRunning
<1> QED BY ServiceInvariance, <1>1, PTL

\* No request is handed to a handler before it was delivered, or before an
\* older one of its endpoint.
TakenInOrder ==
  \A e \in Endpoints, n \in Messages :
    fate[e][n] # "unseen" => /\ n <= arrived[e]
                             /\ \A m \in Messages : m < n => fate[e][m] # "unseen"

\* Requests are taken in the order in which they were delivered, none is passed
\* over (iterate, runEndpoint).
THEOREM RequestsTakenInOrder == Spec => []TakenInOrder
<1>1. ServiceInv => TakenInOrder
  <2> SUFFICES ASSUME ServiceInv, NEW e \in Endpoints, NEW n \in Messages,
                      fate[e][n] # "unseen"
               PROVE  /\ n <= arrived[e]
                      /\ \A m \in Messages : m < n => fate[e][m] # "unseen"
    BY DEF TakenInOrder
  <2>1. PICK h \in 0 .. MaxMsgs : InLine(iter[e], h, arrived[e], fate[e], sub[e])
    BY EndpointFacts DEF ServedAt
  <2>2. PICK a \in 0 .. MaxMsgs : a = arrived[e]
    BY EndpointFacts
  <2>3. /\ \A m \in Messages : fate[e][m] = "unseen" <=> m > h
        /\ Given(iter[e], h) <= a
    BY <2>1, <2>2 DEF InLine, Queued
  <2>4. h \in Nat /\ a \in Nat /\ h <= a /\ n \in Nat /\ \A m \in Messages : m \in Nat
    BY <2>3, MaxMsgsAssumption DEF Given, Messages
  <2>5. n <= h
    BY <2>3, <2>4
  <2>6. \A m \in Messages : m < n => ~(m > h)
    BY <2>4, <2>5
  <2> QED BY <2>2, <2>3, <2>4, <2>5, <2>6
<1> QED BY ServiceInvariance, <1>1, PTL
=============================================================================
