------------------------- MODULE StreamAdapterProofs -------------------------
(***************************************************************************)
(* Proofs about one run of a stream: what is handed out, when an end is a  *)
(* complete one, and that nothing is left open.                            *)
(***************************************************************************)
EXTENDS StreamAdapter, QueuedIteratorProofs

\* The finalizers that may still have to run, in the orders they may come in.
Orders == {<< >>, <<"return">>, <<"release">>, <<"return", "release">>,
           <<"release", "return">>}

In(f, p) == \E i \in DOMAIN p : p[i] = f
Due(f)   == In(f, pending)

Over == phase \in {"closing", "closed"}

\* Whether the source may still push: the server sends, or a drain has still
\* to end.
Receptive == source = "open" /\ (interest \/ (kind = "drain" /\ Due("release")))

\* The queue holds what was pushed and not handed out; while the source may
\* push more, no function is in it.
Lossless ==
  /\ AtRest(iter)
  /\ Queued(iter, Len(handed), arrived)
  /\ Receptive => \/ iter.gen = "ended"
                  \/ ~iter.done /\ Total(iter, Len(handed)) = arrived

\* How the run and its finalizers go together.
Course ==
  /\ pending \in Orders
  /\ busy => phase = "closing" /\ pending # << >>
  /\ phase = "closed" => pending = << >>
  /\ ~Over => pending = << >> /\ outcome = "none" /\ ~iter.return
  /\ phase = "acquiring" => /\ iter = NewIterator /\ handed = << >> /\ arrived = 0
                            /\ source = "open" /\ ~interest

\* An iterator that has ended was stopped, and return() comes to one that had
\* started.
Started ==
  /\ iter.gen = "ended" => iter.done
  /\ handed # << >> \/ Due("return") => iter.gen # "fresh"

\* While the run goes on only the source ends the iterator, and after a
\* complete source only past its last message.
Complete ==
  /\ phase = "running" /\ source = "open" =>
       interest /\ ~iter.done
  /\ phase = "running" /\ source = "ended" /\ iter.done => Len(handed) = arrived
  /\ outcome = "ended" => source # "open"
  /\ EndIsComplete

\* What the finalizers that have run have brought about.
Finalized ==
  /\ Releasing => ~interest
  /\ Over /\ ~Due("return")  => iter.gen = "ended" \/ kind = "close"
  /\ Over /\ ~Due("release") => ~interest /\ (kind # "drain" => iter.done)

RunInv == TypeOK /\ HandedInOrder /\ Lossless /\ Course /\ Started /\ Complete /\ Finalized

-----------------------------------------------------------------------------
(* Finalizers *)

LEMMA OrderTails ==
  ASSUME NEW p \in Orders
  PROVE  /\ p \in Seq(Finalizers)
         /\ p = << >> => \A f \in Finalizers : ~In(f, p)
         /\ p # << >> => /\ Head(p) \in Finalizers
                         /\ In(Head(p), p)
                         /\ Tail(p) \in Orders
                         /\ \A f \in Finalizers : In(f, Tail(p)) <=> In(f, p) /\ f # Head(p)
<1>1. CASE p = << >>
  BY <1>1, EmptySeq DEF In
<1>2. ASSUME NEW f \in Finalizers, p = <<f>>
      PROVE  /\ p \in Seq(Finalizers) /\ p # << >> /\ Head(p) = f /\ Tail(p) = << >>
             /\ \A g : In(g, p) <=> g = f
  BY <1>2 DEF In
<1>3. ASSUME NEW f \in Finalizers, NEW g \in Finalizers, p = <<f, g>>
      PROVE  /\ p \in Seq(Finalizers) /\ p # << >> /\ Head(p) = f /\ Tail(p) = <<g>>
             /\ \A h : In(h, p) <=> h = f \/ h = g
  <2>1. p \in Seq(Finalizers) /\ p # << >> /\ Head(p) = f
    BY <1>3
  <2>2. Tail(p) = <<g>>
    BY <1>3
  <2>3. \A h : In(h, p) <=> h = f \/ h = g
    <3>1. DOMAIN p = {1, 2} /\ p[1] = f /\ p[2] = g
      BY <1>3
    <3> QED BY <3>1 DEF In
  <2> QED BY <2>1, <2>2, <2>3
<1>4. \A f, g : In(f, <<g>>) <=> f = g
  BY DEF In
<1>5. \A f : ~In(f, << >>)
  BY DEF In
<1>6. CASE p \in {<<"return">>, <<"release">>}
  <2>1. PICK f \in Finalizers : p = <<f>>
    BY <1>6 DEF Finalizers
  <2> QED BY <1>2, <1>5, <2>1 DEF Orders
<1>7. CASE p = <<"return", "release">>
  BY <1>3, <1>4, <1>7 DEF Orders, Finalizers
<1>8. CASE p = <<"release", "return">>
  BY <1>3, <1>4, <1>8 DEF Orders, Finalizers
<1> QED BY <1>1, <1>6, <1>7, <1>8 DEF Orders

LEMMA OrdersDue ==
  /\ In("return", <<"return", "release">>) /\ In("release", <<"return", "release">>)
  /\ In("return", <<"release", "return">>) /\ In("release", <<"release", "return">>)
  /\ In("release", <<"release">>) /\ ~In("return", <<"release">>)
<1>1. \A f, g : In(f, <<g>>) <=> f = g
  BY DEF In
<1>2. \A f, g, h : In(f, <<g, h>>) <=> f = g \/ f = h
  <2> TAKE f, g, h
  <2> DEFINE p == <<g, h>>
  <2>1. DOMAIN p = {1, 2} /\ p[1] = g /\ p[2] = h
    OBVIOUS
  <2> QED BY <2>1 DEF In
<1> QED BY <1>1, <1>2

-----------------------------------------------------------------------------
(* The invariant, action by action *)

LEMMA InitRun == Init => RunInv
<1> SUFFICES ASSUME Init PROVE RunInv
  OBVIOUS
<1>1. /\ iter \in Iterator /\ AtRest(iter) /\ iter.batch = << >> /\ iter.yields = << >>
      /\ iter.gen = "fresh" /\ ~iter.done /\ iter.promise = "none" /\ ~iter.return
  BY NewIteratorType DEF Init, NewIterator
<1>2. Len(handed) = 0 /\ DOMAIN handed = {} /\ handed \in Seq(Messages)
      /\ << >> \in Seq(Finalizers) /\ << >> \in Orders /\ ~Due("return") /\ ~Due("release")
  BY EmptySeq, OrderTails DEF Init, Due, Orders, Finalizers
<1>3. TypeOK
  <2>1. 0 \in 0 .. MaxMsgs
    BY MaxMsgsAssumption
  <2>2. /\ kind \in Kinds /\ source = "open" /\ interest = FALSE /\ arrived = 0
        /\ phase = "acquiring" /\ outcome = "none" /\ pending = << >> /\ busy = FALSE
    BY DEF Init
  <2> QED BY <1>1, <1>2, <2>1, <2>2 DEF TypeOK
<1>4. Queued(iter, Len(handed), arrived)
  <2>1. /\ Given(iter, 0) = 0 /\ Len(iter.batch) = 0 /\ Len(iter.yields) = 0
        /\ DOMAIN iter.batch = {} /\ DOMAIN iter.yields = {}
    BY <1>1, QueueTypes DEF Given
  <2> QED BY <1>1, <1>2, <2>1 DEF Queued, Init
<1> QED BY <1>1, <1>2, <1>3, <1>4
        DEF RunInv, HandedInOrder, Lossless, Course, Started, Complete, Finalized,
            Receptive, Over, EndIsComplete, Releasing, Init

\* The iterator moves on, by the fiber or by a finalizer.
LEMMA Advance ==
  ASSUME RunInv, NEW s, iter' = s, s \in Iterator, AtRest(s),
         Queued(s, Len(handed), arrived),
         Receptive' => s.gen = "ended" \/ (~s.done /\ Total(s, Len(handed)) = arrived),
         s.gen = "ended" => s.done,
         s.gen = "fresh" => iter.gen = "fresh",
         iter.done => s.done,
         iter.gen = "ended" => s.gen = "ended",
         phase # "acquiring", ~Over => ~s.return,
         interest' \in BOOLEAN, interest' => interest,
         phase = "running" /\ ~s.done => interest' = interest,
         phase = "running" /\ s.done =>
           \/ iter.done
           \/ source # "open" /\ (source = "ended" => Len(handed) = arrived),
         busy' \in BOOLEAN, busy' => phase = "closing" /\ pending # << >>,
         Releasing' => ~interest',
         UNCHANGED <<handed, sourceVars, kind, phase, outcome, pending>>
  PROVE  RunInv'
<1>1. TypeOK'
  BY DEF RunInv, TypeOK, sourceVars
<1>2. HandedInOrder'
  BY DEF RunInv, HandedInOrder
<1>3. Lossless'
  BY DEF Lossless, sourceVars
<1>4. (Over' <=> Over) /\ (\A f : Due(f)' <=> Due(f))
  BY DEF Over, Due
<1>5. Course'
  BY <1>4 DEF RunInv, Course, Over
<1>6. Started'
  BY <1>4 DEF RunInv, Started
<1>7. Complete'
  BY DEF RunInv, Complete, EndIsComplete, sourceVars
<1>8. Finalized'
  BY <1>4 DEF RunInv, Finalized
<1> QED BY <1>1, <1>2, <1>3, <1>5, <1>6, <1>7, <1>8 DEF RunInv

LEMMA ArriveRun == RunInv /\ Arrive => RunInv'
<1> SUFFICES ASSUME RunInv, Arrive PROVE RunInv'
  OBVIOUS
<1>1. PICK q : q = iter
  OBVIOUS
<1>2. PICK s : s = Push(q, arrived + 1)
  OBVIOUS
<1>3. PICK h : h = Len(handed)
  OBVIOUS
<1>4. PICK a : a = arrived
  OBVIOUS
<1>5. /\ q \in Iterator /\ AtRest(q) /\ h \in Nat /\ a \in 0 .. MaxMsgs /\ a < MaxMsgs
      /\ Queued(q, h, a) /\ iter' = s /\ s = Push(q, a + 1) /\ arrived' = a + 1
      /\ source = "open" /\ interest' = (interest /\ ~s.done)
  BY <1>1, <1>2, <1>3, <1>4, LenProperties DEF RunInv, TypeOK, Lossless, Arrive, IterBecomes
<1>6. Receptive
  BY OrderTails DEF RunInv, Course, Arrive, Receptive, Releasing, Due
<1>7. q.gen = "ended" \/ (~q.done /\ Total(q, h) = a)
  BY <1>1, <1>3, <1>4, <1>6 DEF RunInv, Lossless
<1>8. /\ a + 1 \in Entry /\ a + 1 \in 0 .. MaxMsgs /\ a \in Nat
  BY <1>5, MaxMsgsAssumption DEF Entry, Messages
<1>9. /\ s \in Iterator /\ AtRest(s) /\ s.gen = q.gen /\ s.done = q.done
      /\ s.return = q.return
  BY <1>5, <1>8, PushEffect
<1>10. Queued(s, h, a + 1) /\ (q.gen # "ended" => Total(s, h) = a + 1)
  BY <1>5, <1>7, PushedMessage
<1>11. phase # "acquiring"
  BY DEF RunInv, Course, Arrive, Releasing
<1>12. phase = "running" => interest /\ ~q.done
  BY <1>1, <1>5 DEF RunInv, Complete
<1>13. /\ handed' = handed /\ source' = source /\ kind' = kind /\ phase' = phase
       /\ outcome' = outcome /\ pending' = pending /\ busy' = busy
  BY DEF Arrive, scopeVars
<1>14. TypeOK'
  BY <1>5, <1>8, <1>9, <1>13 DEF RunInv, TypeOK
<1>15. HandedInOrder'
  BY <1>13 DEF RunInv, HandedInOrder
<1>16. Lossless'
  BY <1>3, <1>5, <1>7, <1>9, <1>10, <1>13 DEF Lossless
<1>17. (Over' <=> Over) /\ (\A f : Due(f)' <=> Due(f)) /\ (Releasing' <=> Releasing)
  BY <1>13 DEF Over, Due, Releasing
<1>18. Course'
  BY <1>1, <1>5, <1>9, <1>11, <1>13, <1>17 DEF RunInv, Course
<1>19. Started'
  BY <1>1, <1>5, <1>9, <1>13, <1>17 DEF RunInv, Started
<1>20. Complete'
  BY <1>1, <1>5, <1>9, <1>12, <1>13 DEF RunInv, Complete, EndIsComplete
<1>21. Finalized'
  BY <1>1, <1>5, <1>9, <1>13, <1>17 DEF RunInv, Finalized
<1> QED BY <1>14, <1>15, <1>16, <1>18, <1>19, <1>20, <1>21 DEF RunInv

\* The source is complete or fails: it pushes a function or stops the iterator.
LEMMA SourceRun == RunInv /\ (SourceEnds \/ SourceFails) => RunInv'
<1> SUFFICES ASSUME RunInv, SourceEnds \/ SourceFails PROVE RunInv'
  OBVIOUS
<1>1. PICK q : q = iter
  OBVIOUS
<1>2. PICK s : s = iter'
  OBVIOUS
<1>3. PICK h : h = Len(handed)
  OBVIOUS
<1>4. PICK a : a = arrived
  OBVIOUS
<1>5. /\ q \in Iterator /\ AtRest(q) /\ h \in Nat /\ a \in 0 .. MaxMsgs
      /\ Queued(q, h, a)
  BY <1>1, <1>3, <1>4, LenProperties DEF RunInv, TypeOK, Lossless
<1>6. /\ source = "open" /\ interest /\ source' \in {"ended", "failed"}
      /\ interest' \in BOOLEAN /\ arrived' = arrived /\ handed' = handed
      /\ kind' = kind /\ phase' = phase /\ outcome' = outcome /\ pending' = pending
      /\ busy' = busy
  BY DEF SourceEnds, SourceFails, IterBecomes, scopeVars, RunInv, TypeOK
<1>7. \/ s = Push(q, StopFn) /\ source' = "ended"
      \/ s = Push(q, FailFn) /\ source' = "failed"
      \/ s = Stop(q, TRUE) /\ source' = "failed"
  BY <1>1, <1>2 DEF SourceEnds, SourceFails, IterBecomes
<1>8. /\ s \in Iterator /\ AtRest(s) /\ s.gen = q.gen /\ s.return = q.return
      /\ (q.done => s.done) /\ (source' = "ended" => s.done = q.done)
      /\ Queued(s, h, a)
  <2>1. ASSUME NEW v \in {StopFn, FailFn}, s = Push(q, v)
        PROVE  /\ s \in Iterator /\ AtRest(s) /\ s.gen = q.gen /\ s.return = q.return
               /\ s.done = q.done /\ Queued(s, h, a)
    <3>1. v \in Entry
      BY <2>1 DEF Entry
    <3> QED BY <1>5, <2>1, <3>1, PushEffect, PushedFunction
  <2>2. CASE s = Stop(q, TRUE) /\ source' = "failed"
    <3>1. /\ s \in Iterator /\ AtRest(s) /\ s.done /\ s.gen = q.gen /\ s.batch = q.batch
          /\ s.promise = q.promise /\ s.value = q.value /\ s.return = q.return
          /\ s.yields = q.yields
      BY <1>5, <2>2, StopEffect
    <3>2. Queued(s, h, a)
      BY <1>5, <3>1, SameQueue
    <3> QED BY <2>2, <3>1, <3>2
  <2> QED BY <1>7, <2>1, <2>2
<1>9. phase # "acquiring" /\ outcome # "ended"
  BY <1>6 DEF RunInv, Course, Complete
<1>10. phase = "running" => ~q.done
  BY <1>1, <1>6 DEF RunInv, Complete
<1>11. TypeOK'
  BY <1>2, <1>6, <1>8 DEF RunInv, TypeOK
<1>12. HandedInOrder'
  BY <1>6 DEF RunInv, HandedInOrder
<1>13. Lossless'
  BY <1>2, <1>3, <1>4, <1>6, <1>8 DEF Lossless, Receptive
<1>14. (Over' <=> Over) /\ (\A f : Due(f)' <=> Due(f)) /\ (Releasing' <=> Releasing)
  BY <1>6 DEF Over, Due, Releasing
<1>15. Course'
  BY <1>1, <1>2, <1>6, <1>8, <1>9, <1>14 DEF RunInv, Course
<1>16. Started'
  BY <1>1, <1>2, <1>6, <1>8, <1>14 DEF RunInv, Started, AtRest, Consistent
<1>17. Complete'
  BY <1>2, <1>6, <1>8, <1>9, <1>10 DEF RunInv, Complete, EndIsComplete
<1>18. Finalized'
  <2>1. Over /\ ~Due("release") => FALSE
    BY <1>6 DEF RunInv, Finalized
  <2>2. ~Releasing
    BY <1>6 DEF RunInv, Finalized
  <2> QED BY <1>1, <1>2, <1>6, <1>8, <1>14, <2>1, <2>2 DEF RunInv, Finalized
<1> QED BY <1>11, <1>12, <1>13, <1>15, <1>16, <1>17, <1>18 DEF RunInv

\* The fiber asks for the next element, or the generator continues.
LEMMA PullRun == RunInv /\ Pull => RunInv'
<1> SUFFICES ASSUME RunInv, Pull PROVE RunInv'
  OBVIOUS
<1>1. PICK q : q = iter
  OBVIOUS
<1>2. PICK s : s = CallNext(q)
  OBVIOUS
<1>3. PICK h : h = Len(handed)
  OBVIOUS
<1>4. PICK a : a = arrived
  OBVIOUS
<1>5. /\ q \in Iterator /\ AtRest(q) /\ h \in Nat /\ a \in 0 .. MaxMsgs
      /\ Queued(q, h, a) /\ q.promise = "none" /\ iter' = s
      /\ interest' = (interest /\ ~s.done) /\ interest \in BOOLEAN /\ phase = "running"
  BY <1>1, <1>2, <1>3, <1>4, LenProperties
     DEF RunInv, TypeOK, Lossless, Pull, IterBecomes
<1>6. /\ ~Over /\ ~q.return /\ (q.gen = "ended" => q.done)
      /\ (source = "open" => interest /\ ~q.done)
      /\ (source = "ended" /\ q.done => h = a)
  BY <1>1, <1>3, <1>4, <1>5 DEF RunInv, Course, Over, Started, Complete
<1>7. source = "open" => ~q.done /\ Total(q, h) = a
  BY <1>1, <1>3, <1>4, <1>6 DEF RunInv, Lossless, Receptive
<1>8. UNCHANGED <<handed, sourceVars, kind, phase, outcome, pending>> /\ busy' = busy
  BY DEF Pull, scopeVars
<1>9. busy' = FALSE /\ busy' \in BOOLEAN /\ ~Releasing' /\ phase # "acquiring"
  BY <1>5, <1>8 DEF RunInv, TypeOK, Course, Over, Releasing
<1>10. CASE q.gen = "ended"
  <2>1. /\ s \in Iterator /\ AtRest(s) /\ s.gen = "ended" /\ s.promise = "done"
        /\ s.done = q.done /\ s.return = q.return
    <3>1. s = [q EXCEPT !.promise = "done"]
      BY <1>2, <1>10 DEF CallNext
    <3> QED BY <1>5, <1>10, <3>1 DEF Iterator, AtRest, Consistent
  <2>2. Queued(s, h, a)
    BY <1>5, <2>1 DEF Queued, Given
  <2> QED BY <1>1, <1>3, <1>4, <1>5, <1>6, <1>8, <1>9, <1>10, <2>1, <2>2, Advance
<1>11. CASE q.gen # "ended"
  <2>1. LoopsTo(s, q)
    BY <1>2, <1>5, <1>11, CallNextEffect, QueuedMessagesFirst
  <2>2. /\ s \in Iterator /\ AtRest(s) /\ s.return = q.return /\ s.gen # "fresh"
    BY <2>1 DEF LoopsTo, Waits, Yields, EndsLoop
  <2>3. /\ Queued(s, h, a)
        /\ s.gen # "ended" => Total(s, h) = Total(q, h) /\ s.done = q.done
        /\ s.gen = "ended" => s.done /\ (q.done \/ (h = a /\ Total(q, h) > a))
    BY <1>5, <1>11, <2>1, LoopsToQueued
  <2>4. a \in Nat /\ (Total(q, h) = a => ~(Total(q, h) > a))
    BY <1>5, MaxMsgsAssumption
  <2>5. source = "open" => s.gen # "ended" /\ ~s.done /\ Total(s, h) = a
    BY <1>7, <2>3, <2>4
  <2>6. q.done => s.done
    BY <2>3
  <2>7. s.done => q.done \/ (source # "open" /\ h = a)
    BY <2>3, <2>5
  <2>8. Receptive' => source = "open"
    BY <1>8 DEF Receptive, sourceVars
  <2> QED BY <1>1, <1>3, <1>4, <1>5, <1>6, <1>8, <1>9, <1>11, <2>2, <2>3, <2>5, <2>6,
             <2>7, <2>8, Advance
<1> QED BY <1>10, <1>11

LEMMA WakesRun == RunInv /\ GeneratorWakes => RunInv'
<1> SUFFICES ASSUME RunInv, GeneratorWakes PROVE RunInv'
  OBVIOUS
<1>1. PICK q : q = iter
  OBVIOUS
<1>2. PICK s : s = Wake(q)
  OBVIOUS
<1>3. PICK h : h = Len(handed)
  OBVIOUS
<1>4. PICK a : a = arrived
  OBVIOUS
<1>5. /\ q \in Iterator /\ AtRest(q) /\ h \in Nat /\ a \in 0 .. MaxMsgs
      /\ Queued(q, h, a) /\ CanWake(q) /\ q.gen = "waiting" /\ q.promise = "pending"
      /\ iter' = s /\ interest' = (interest /\ ~s.done) /\ interest \in BOOLEAN
  BY <1>1, <1>2, <1>3, <1>4, LenProperties
     DEF RunInv, TypeOK, Lossless, GeneratorWakes, IterBecomes, CanWake, AtRest
<1>6. /\ phase # "acquiring" /\ (~Over => phase = "running" /\ ~q.return)
      /\ (phase = "running" /\ source = "open" => interest /\ ~q.done)
      /\ (Receptive => ~q.done /\ Total(q, h) = a)
  <2>1. phase # "acquiring"
    BY <1>1, <1>5 DEF RunInv, Course, NewIterator
  <2>2. phase \in {"acquiring", "running", "closing", "closed"}
    BY DEF RunInv, TypeOK
  <2> QED BY <1>1, <1>3, <1>4, <1>5, <2>1, <2>2
          DEF RunInv, Course, Over, Complete, Lossless
<1>7. UNCHANGED <<handed, sourceVars, kind, phase, outcome, pending>> /\ busy' = busy
  BY DEF GeneratorWakes, scopeVars
<1>8. /\ busy \in BOOLEAN /\ (busy => phase = "closing" /\ pending # << >>)
      /\ (Releasing => ~interest) /\ (Releasing' <=> Releasing)
  BY <1>7 DEF RunInv, TypeOK, Course, Finalized, Releasing
<1>9. Receptive' => Receptive
  BY <1>5, <1>7 DEF Receptive, Due, sourceVars
<1>10. phase = "running" /\ source = "open" => Receptive
  BY <1>6 DEF Receptive
<1>11. \/ LoopsTo(s, q) /\ (s.gen = "paused" => ~q.return)
       \/ YieldsAndReturns(s, q)
  BY <1>2, <1>5, WakeEffect, QueuedMessagesFirst
<1>12. CASE LoopsTo(s, q)
  <2>2. /\ s \in Iterator /\ AtRest(s) /\ s.return = q.return /\ s.gen # "fresh"
    BY <1>12 DEF LoopsTo, Waits, Yields, EndsLoop
  <2>3. /\ Queued(s, h, a)
        /\ s.gen # "ended" => Total(s, h) = Total(q, h) /\ s.done = q.done
        /\ s.gen = "ended" => s.done /\ (q.done \/ (h = a /\ Total(q, h) > a))
    BY <1>5, <1>12, LoopsToQueued
  <2>4. a \in Nat /\ (Total(q, h) = a => ~(Total(q, h) > a))
    BY <1>5, MaxMsgsAssumption
  <2>5. Receptive => s.gen # "ended" /\ ~s.done /\ Total(s, h) = a
    BY <1>6, <2>3, <2>4
  <2>6. q.done => s.done
    BY <2>3
  <2>7. s.done => q.done \/ h = a
    BY <2>3
  <2> QED BY <1>1, <1>3, <1>4, <1>5, <1>6, <1>7, <1>8, <1>9, <1>10, <2>2, <2>3, <2>5,
             <2>6, <2>7, Advance
<1>13. CASE YieldsAndReturns(s, q)
  <2>1. /\ q.return /\ ~Empty(q) /\ First(q) \in Messages
        /\ s \in Iterator /\ AtRest(s) /\ s.return = q.return
        /\ s.gen = "ended" /\ s.done /\ s.promise = "value" /\ s.value = First(q)
    BY <1>13 DEF YieldsAndReturns
  <2>2. h + 1 <= a /\ First(q) = h + 1
    BY <1>5, <2>1, QueuedFirst
  <2>3. Queued(s, h, a)
    BY <2>1, <2>2 DEF Queued, Given
  <2>4. Over
    BY <1>6, <2>1
  <2>5. phase # "running"
    BY <2>4 DEF Over
  <2> QED BY <1>1, <1>3, <1>4, <1>5, <1>6, <1>7, <1>8, <2>1, <2>3, <2>4, <2>5, Advance
<1> QED BY <1>11, <1>12, <1>13

\* Messages are handed out one by one, from the first.
LEMMA ReceiveRun == RunInv /\ Receive => RunInv'
<1> SUFFICES ASSUME RunInv, Receive PROVE RunInv'
  OBVIOUS
<1>1. PICK q : q = iter
  OBVIOUS
<1>2. PICK s : s = [q EXCEPT !.promise = "none"]
  OBVIOUS
<1>3. PICK h : h = Len(handed)
  OBVIOUS
<1>4. PICK a : a = arrived
  OBVIOUS
<1>5. /\ q \in Iterator /\ AtRest(q) /\ h \in Nat /\ a \in 0 .. MaxMsgs
      /\ Queued(q, h, a) /\ q.promise = "value" /\ iter' = s /\ interest' = interest
      /\ handed' = Append(handed, q.value) /\ handed \in Seq(Messages)
      /\ Pulling
  BY <1>1, <1>2, <1>3, <1>4, LenProperties DEF RunInv, TypeOK, Lossless, Receive
<1>6. /\ s \in Iterator /\ AtRest(s) /\ Queued(s, h + 1, a)
      /\ Total(s, h + 1) = Total(q, h) /\ s.gen = q.gen /\ s.done = q.done
      /\ s.return = q.return /\ s.batch = q.batch
  BY <1>2, <1>5, ReceivedQueue
<1>7. q.value = h + 1 /\ h + 1 <= a /\ h + 1 \in Messages /\ a \in Nat /\ h + 1 # a + 1
  BY <1>5, MaxMsgsAssumption DEF Queued, Given, Messages
<1>8. /\ handed' \in Seq(Messages) /\ Len(handed') = h + 1
      /\ DOMAIN handed' = 1 .. h + 1
      /\ \A i \in 1 .. h : handed'[i] = handed[i]
      /\ handed'[h + 1] = h + 1
  BY <1>3, <1>5, <1>7, AppendProperties
<1>9. UNCHANGED <<sourceVars, kind, phase, outcome, pending>> /\ busy' = busy
  BY DEF Receive, scopeVars
<1>10. /\ phase # "acquiring" /\ outcome # "ended" /\ q.gen # "fresh"
  BY <1>5 DEF Pulling, RunInv, Course, Over, AtRest
<1>11. TypeOK'
  BY <1>5, <1>6, <1>8, <1>9 DEF RunInv, TypeOK, sourceVars
<1>12. HandedInOrder'
  <2>1. DOMAIN handed = 1 .. h
    BY <1>3, <1>5, LenProperties
  <2>2. ASSUME NEW i \in DOMAIN handed' PROVE handed'[i] = i
    <3>1. i \in 1 .. h \/ i = h + 1
      BY <1>5, <1>8, <2>2
    <3> QED BY <1>8, <2>1, <3>1 DEF RunInv, HandedInOrder
  <2> QED BY <2>2 DEF HandedInOrder
<1>13. (Over' <=> Over) /\ (\A f : Due(f)' <=> Due(f)) /\ (Releasing' <=> Releasing)
       /\ (Receptive' <=> Receptive)
  BY <1>5, <1>9 DEF Over, Due, Releasing, Receptive, sourceVars
<1>14. Lossless'
  BY <1>1, <1>3, <1>4, <1>5, <1>6, <1>8, <1>9, <1>13 DEF RunInv, Lossless, sourceVars
<1>15. Course'
  BY <1>1, <1>5, <1>6, <1>9, <1>10, <1>13 DEF RunInv, Course
<1>16. Started'
  BY <1>1, <1>5, <1>6, <1>10, <1>13 DEF RunInv, Started
<1>17. Complete'
  <2>1. phase = "running" /\ source = "ended" /\ q.done => FALSE
    BY <1>1, <1>3, <1>4, <1>5, <1>7 DEF RunInv, Complete
  <2> QED BY <1>1, <1>5, <1>6, <1>9, <1>10, <2>1
          DEF RunInv, Complete, EndIsComplete, sourceVars
<1>18. Finalized'
  BY <1>1, <1>5, <1>6, <1>9, <1>13 DEF RunInv, Finalized
<1> QED BY <1>11, <1>12, <1>14, <1>15, <1>16, <1>17, <1>18 DEF RunInv

\* The subscription is made; an interruption meanwhile closes it at once.
LEMMA AcquireRun == RunInv /\ (Acquire \/ AcquireInterrupted) => RunInv'
<1> SUFFICES ASSUME RunInv, Acquire \/ AcquireInterrupted PROVE RunInv'
  OBVIOUS
<1>1. /\ phase = "acquiring" /\ interest' = TRUE /\ kind' = kind /\ iter' = iter
      /\ handed' = handed /\ source' = source /\ arrived' = arrived
      /\ (busy' = busy \/ busy' = FALSE)
  BY DEF Acquire, AcquireInterrupted, CloseScopes, sourceVars
<1>2. /\ iter = NewIterator /\ handed = << >> /\ arrived = 0 /\ source = "open"
      /\ ~busy /\ busy \in BOOLEAN /\ pending = << >>
  BY <1>1 DEF RunInv, TypeOK, Course, Over
<1>3. \/ phase' = "running" /\ outcome' = outcome /\ pending' = pending
      \/ /\ phase' = "closing" /\ outcome' = "cut" /\ pending' = <<"release">>
         /\ kind = "close"
  BY DEF Acquire, AcquireInterrupted, CloseScopes
<1>4. /\ iter.batch = << >> /\ iter.yields = << >> /\ iter.gen = "fresh" /\ ~iter.done
      /\ ~iter.return /\ iter.promise = "none" /\ Len(handed) = 0
  BY <1>2, EmptySeq DEF NewIterator
<1>5. Total(iter, Len(handed)) = arrived
  <2>1. Len(iter.batch) = 0 /\ Len(iter.yields) = 0 /\ Given(iter, 0) = 0
    BY <1>4, EmptySeq DEF Given
  <2> QED BY <1>2, <1>4, <2>1 DEF Total
<1>6. pending' \in Orders
  BY <1>2, <1>3 DEF Orders
<1>7. ~Due("return")' /\ (phase' = "closing" => Due("release")')
  <2>1. ~In("return", << >>)
    BY DEF In
  <2> QED BY <1>2, <1>3, <2>1, OrdersDue DEF Due
<1>8. TypeOK'
  BY <1>1, <1>3, <1>6, OrderTails DEF RunInv, TypeOK
<1>9. HandedInOrder' /\ Lossless'
  BY <1>1, <1>4, <1>5 DEF RunInv, HandedInOrder, Lossless
<1>10. outcome = "none" /\ ~busy'
  BY <1>1, <1>2 DEF RunInv, Course, Over
<1>11. Course'
  BY <1>1, <1>2, <1>3, <1>4, <1>6, <1>10 DEF Course, Over
<1>12. Started'
  BY <1>1, <1>2, <1>4, <1>7 DEF Started
<1>13. Complete'
  BY <1>1, <1>2, <1>3, <1>4, <1>10 DEF Complete, EndIsComplete
<1>14. Finalized'
  BY <1>1, <1>3, <1>7, <1>10 DEF Finalized, Over, Releasing
<1> QED BY <1>8, <1>9, <1>11, <1>12, <1>13, <1>14 DEF RunInv

\* The run ends, by itself or because it is cut: the finalizers are to run.
LEMMA EndRun ==
  RunInv /\ (Finish \/ Fail \/ CutBetween \/ CutPulling \/ CutPrefetching) => RunInv'
<1> SUFFICES ASSUME RunInv, Finish \/ Fail \/ CutBetween \/ CutPulling \/ CutPrefetching
             PROVE  RunInv'
  OBVIOUS
<1>1. /\ phase = "running" /\ phase' = "closing" /\ busy' = FALSE /\ kind' = kind
      /\ iter' = iter /\ interest' = interest /\ handed' = handed
      /\ source' = source /\ arrived' = arrived
      /\ pending' \in {<<"return", "release">>, <<"release", "return">>}
      /\ outcome' \in {"ended", "failed", "cut", "prefetched"}
      /\ outcome' = "ended" => iter.promise = "done"
      /\ iter.promise # "none" \/ handed # << >>
  BY DEF Finish, Fail, CutBetween, CutPulling, CutPrefetching, CloseScopes, sourceVars
<1>2. AtRest(iter) /\ iter \in Iterator
  BY DEF RunInv, Lossless, TypeOK
<1>3. iter.gen # "fresh"
  BY <1>1, <1>2 DEF AtRest, RunInv, Started
<1>4. outcome' = "ended" => iter.done
  BY <1>1, <1>2 DEF AtRest, Iterator, RunInv, Started
<1>5. outcome' = "ended" => source # "open" /\ (source = "ended" => Len(handed) = arrived)
  BY <1>1, <1>4 DEF RunInv, Complete
<1>6. Due("return")' /\ Due("release")' /\ pending' \in Orders /\ pending' # << >>
  BY <1>1, OrdersDue DEF Due, Orders
<1>7. TypeOK'
  BY <1>1, <1>6, OrderTails DEF RunInv, TypeOK
<1>8. Receptive' => Receptive
  <2>1. source = "open" => interest
    BY <1>1 DEF RunInv, Complete
  <2> QED BY <1>1, <2>1 DEF Receptive
<1>9. HandedInOrder' /\ Lossless'
  BY <1>1, <1>8 DEF RunInv, HandedInOrder, Lossless
<1>10. Course'
  BY <1>1, <1>6 DEF RunInv, Course, Over
<1>11. Started'
  BY <1>1, <1>3 DEF RunInv, Started
<1>12. Complete'
  BY <1>1, <1>5 DEF RunInv, Complete, EndIsComplete
<1>13. Finalized'
  BY <1>1, <1>6 DEF Finalized, Releasing
<1> QED BY <1>7, <1>9, <1>10, <1>11, <1>12, <1>13 DEF RunInv

LEMMA BeginRun == RunInv /\ BeginFinalizer => RunInv'
<1> SUFFICES ASSUME RunInv, BeginFinalizer PROVE RunInv'
  OBVIOUS
<1>1. PICK q : q = iter
  OBVIOUS
<1>2. PICK s : s = iter'
  OBVIOUS
<1>3. PICK h : h = Len(handed)
  OBVIOUS
<1>4. PICK a : a = arrived
  OBVIOUS
<1>5. /\ q \in Iterator /\ AtRest(q) /\ h \in Nat /\ a \in 0 .. MaxMsgs
      /\ Queued(q, h, a) /\ interest \in BOOLEAN
  BY <1>1, <1>3, <1>4, LenProperties DEF RunInv, TypeOK, Lossless
<1>6. /\ phase = "closing" /\ pending # << >> /\ busy' = TRUE
      /\ UNCHANGED <<handed, sourceVars, kind, phase, outcome, pending>>
  BY DEF BeginFinalizer
<1>7. Over /\ phase # "running" /\ phase # "acquiring"
  BY <1>6 DEF Over
<1>8. /\ Head(pending) \in {"return", "release"} /\ Due(Head(pending))
      /\ (Releasing' <=> Head(pending) = "release")
  BY <1>6, OrderTails DEF RunInv, Course, Due, Finalizers, Releasing
<1>9. /\ (q.gen = "ended" => q.done) /\ (Due("return") => q.gen # "fresh")
      /\ (Receptive => q.gen = "ended" \/ (~q.done /\ Total(q, h) = a))
  BY <1>1, <1>3, <1>4 DEF RunInv, Started, Lossless
<1>10. CASE Head(pending) = "return"
  <2>1. s = Return(q) /\ interest' = (interest /\ ~s.done)
    BY <1>1, <1>2, <1>10 DEF BeginFinalizer, IterBecomes
  <2>2. /\ s \in Iterator /\ AtRest(s)
        /\ s.promise = q.promise /\ s.value = q.value /\ s.yields = q.yields
        /\ \/ q.gen = "waiting" /\ s.gen = "waiting" /\ s.done = q.done
           \/ q.gen = "fresh" /\ s.gen = "ended" /\ s.done = q.done
           \/ q.gen = "paused" /\ s.gen = "ended" /\ s.done
           \/ q.gen = "ended" /\ s = q
    BY <1>5, <2>1, ReturnEffect
  <2>3. q.gen # "fresh"
    BY <1>8, <1>9, <1>10
  <2>4. s.gen = "ended" \/ (q.gen = "waiting" /\ s.gen = "waiting" /\ s.done = q.done
                            /\ s.batch = q.batch)
    BY <1>5, <2>2, <2>3 DEF AtRest
  <2>5. Queued(s, h, a) /\ (s.gen # "ended" => Total(s, h) = Total(q, h))
    BY <1>5, <2>2, <2>4, SameQueue
  <2>6. Receptive' => Receptive
    BY <1>6, <2>1 DEF Receptive, Due, sourceVars
  <2>7. /\ s.gen # "fresh" /\ (s.gen = "ended" => s.done) /\ (q.done => s.done)
        /\ (q.gen = "ended" => s.gen = "ended")
    BY <1>9, <2>2, <2>3, <2>4
  <2>8. Receptive' => s.gen = "ended" \/ (~s.done /\ Total(s, h) = a)
    BY <1>9, <2>4, <2>5, <2>6
  <2>9. ~Releasing' /\ busy' \in BOOLEAN
    BY <1>6, <1>8, <1>10
  <2> QED BY <1>1, <1>2, <1>3, <1>4, <1>5, <1>6, <1>7, <2>1, <2>2, <2>5, <2>7, <2>8,
             <2>9, Advance
<1>11. CASE Head(pending) = "release"
  <2>0. BeginRelease /\ kind \in {"drain", "close", "stop"}
    BY <1>11, KindsAssumption DEF BeginFinalizer, RunInv, TypeOK
  <2>1. interest' = FALSE /\ interest' \in BOOLEAN /\ busy' \in BOOLEAN
    BY <1>6, <2>0 DEF BeginRelease
  <2>2. \/ s = q
        \/ kind # "drain" /\ (s = Push(q, StopFn) \/ s = Stop(q, FALSE))
    BY <1>1, <1>2, <2>0 DEF BeginRelease
  <2>3. CASE s = q
    <3>1. Receptive' => Receptive
      BY <1>6, <2>1 DEF Receptive, Due, sourceVars
    <3> QED BY <1>1, <1>2, <1>3, <1>4, <1>5, <1>6, <1>7, <1>9, <2>1, <2>3, <3>1, Advance
  <2>4. CASE kind # "drain" /\ (s = Push(q, StopFn) \/ s = Stop(q, FALSE))
    <3>1. /\ s \in Iterator /\ AtRest(s) /\ s.gen = q.gen /\ (q.done => s.done)
          /\ Queued(s, h, a)
      <4>1. CASE s = Push(q, StopFn)
        <5>1. StopFn \in Entry
          BY DEF Entry
        <5> QED BY <1>5, <4>1, <5>1, PushEffect, PushedFunction
      <4>2. CASE s = Stop(q, FALSE)
        <5>1. /\ s \in Iterator /\ AtRest(s) /\ s.done /\ s.gen = q.gen
              /\ s.batch = q.batch /\ s.promise = q.promise /\ s.value = q.value
              /\ s.yields = q.yields
          BY <1>5, <4>2, StopEffect
        <5> QED BY <1>5, <5>1, SameQueue
      <4> QED BY <2>4, <4>1, <4>2
    <3>2. ~Receptive'
      BY <1>6, <2>1, <2>4 DEF Receptive
    <3> QED BY <1>1, <1>2, <1>3, <1>4, <1>5, <1>6, <1>7, <1>9, <2>1, <3>1, <3>2, Advance
  <2> QED BY <2>2, <2>3, <2>4
<1> QED BY <1>8, <1>10, <1>11

\* A finalizer has done what it waited for.
LEMMA DoneRun == RunInv /\ (Returned \/ Released) => RunInv'
<1> SUFFICES ASSUME RunInv, Returned \/ Released PROVE RunInv'
  OBVIOUS
<1>1. /\ busy /\ busy' = FALSE /\ pending' = Tail(pending) /\ kind' = kind
      /\ iter' = iter /\ interest' = interest /\ handed' = handed /\ source' = source
      /\ arrived' = arrived /\ phase' = phase /\ outcome' = outcome
  BY DEF Returned, Released, FinalizerDone, sourceVars, Releasing
<1>2. phase = "closing" /\ pending # << >> /\ pending \in Orders
  BY <1>1 DEF RunInv, Course
<1>3. /\ pending' \in Orders /\ pending' \in Seq(Finalizers)
      /\ \A f \in Finalizers : Due(f)' <=> Due(f) /\ f # Head(pending)
  BY <1>1, <1>2, OrderTails DEF Due
<1>4. \/ Head(pending) = "return" /\ iter.gen = "ended"
      \/ Head(pending) = "release" /\ iter.done /\ ~interest
  BY DEF Returned, Released, Releasing, RunInv, Finalized
<1>5. (Due("return")' => Due("return")) /\ (Due("release")' => Due("release"))
  BY <1>3 DEF Finalizers
<1>6. TypeOK' /\ HandedInOrder'
  BY <1>1, <1>3 DEF RunInv, TypeOK, HandedInOrder
<1>7. Lossless'
  BY <1>1, <1>5 DEF RunInv, Lossless, Receptive
<1>8. Course'
  BY <1>1, <1>2, <1>3 DEF RunInv, Course, Over
<1>9. Started'
  BY <1>1, <1>5 DEF RunInv, Started
<1>10. Complete'
  BY <1>1 DEF RunInv, Complete, EndIsComplete
<1>11. Finalized'
  <2>1. ~Due("return")' => ~Due("return") \/ Head(pending) = "return"
    BY <1>3 DEF Finalizers
  <2>2. ~Due("release")' => ~Due("release") \/ Head(pending) = "release"
    BY <1>3 DEF Finalizers
  <2>3. Over' /\ Over
    BY <1>1, <1>2 DEF Over
  <2> QED BY <1>1, <1>4, <2>1, <2>2, <2>3 DEF RunInv, Finalized, Releasing
<1> QED BY <1>6, <1>7, <1>8, <1>9, <1>10, <1>11 DEF RunInv

\* The drained subscription is taken off the connection and queues its stop.
LEMMA DrainRun == RunInv /\ DrainEnds => RunInv'
<1> SUFFICES ASSUME RunInv, DrainEnds PROVE RunInv'
  OBVIOUS
<1>1. PICK q : q = iter
  OBVIOUS
<1>2. PICK s : s = Push(q, StopFn)
  OBVIOUS
<1>3. PICK h : h = Len(handed)
  OBVIOUS
<1>4. PICK a : a = arrived
  OBVIOUS
<1>5. /\ q \in Iterator /\ AtRest(q) /\ h \in Nat /\ a \in 0 .. MaxMsgs
      /\ Queued(q, h, a) /\ iter' = s /\ interest' = (interest /\ ~s.done)
      /\ kind = "drain" /\ busy /\ Head(pending) = "release" /\ ~interest
  BY <1>1, <1>2, <1>3, <1>4, LenProperties
     DEF RunInv, TypeOK, Lossless, DrainEnds, IterBecomes, Releasing, Finalized
<1>6. /\ busy' = FALSE /\ pending' = Tail(pending) /\ kind' = kind
      /\ handed' = handed /\ source' = source /\ arrived' = arrived
      /\ phase' = phase /\ outcome' = outcome /\ interest' = FALSE
  BY <1>5 DEF DrainEnds, FinalizerDone, sourceVars
<1>7. phase = "closing" /\ pending # << >> /\ pending \in Orders
  BY <1>5 DEF RunInv, Course
<1>8. /\ pending' \in Orders /\ pending' \in Seq(Finalizers)
      /\ \A f \in Finalizers : Due(f)' <=> Due(f) /\ f # Head(pending)
  BY <1>6, <1>7, OrderTails DEF Due
<1>9. ~Due("release")' /\ (Due("return")' <=> Due("return"))
  BY <1>5, <1>8 DEF Finalizers
<1>10. /\ s \in Iterator /\ AtRest(s) /\ s.gen = q.gen /\ s.done = q.done
       /\ s.return = q.return /\ Queued(s, h, a)
  <2>1. StopFn \in Entry
    BY DEF Entry
  <2> QED BY <1>2, <1>5, <2>1, PushEffect, PushedFunction
<1>11. TypeOK' /\ HandedInOrder'
  BY <1>5, <1>6, <1>8, <1>10 DEF RunInv, TypeOK, HandedInOrder
<1>12. Lossless'
  BY <1>3, <1>4, <1>5, <1>6, <1>9, <1>10 DEF Lossless, Receptive
<1>13. Course'
  BY <1>6, <1>7, <1>8 DEF RunInv, Course, Over
<1>14. Started'
  BY <1>1, <1>5, <1>6, <1>9, <1>10 DEF RunInv, Started
<1>15. Complete'
  BY <1>6, <1>7 DEF RunInv, Complete, EndIsComplete
<1>16. Finalized'
  BY <1>1, <1>5, <1>6, <1>9, <1>10 DEF RunInv, Finalized, Releasing, Over
<1> QED BY <1>11, <1>12, <1>13, <1>14, <1>15, <1>16 DEF RunInv

LEMMA CloseRun == RunInv /\ Close => RunInv'
<1> SUFFICES ASSUME RunInv, Close PROVE RunInv'
  OBVIOUS
<1>1. /\ phase = "closing" /\ phase' = "closed" /\ pending = << >> /\ kind' = kind
      /\ iter' = iter /\ interest' = interest /\ handed' = handed /\ source' = source
      /\ arrived' = arrived /\ outcome' = outcome /\ pending' = pending /\ busy' = busy
  BY DEF Close, sourceVars
<1>2. TypeOK' /\ HandedInOrder'
  BY <1>1 DEF RunInv, TypeOK, HandedInOrder
<1>3. (\A f : Due(f)' <=> Due(f)) /\ Over /\ Over' /\ ~busy
  BY <1>1 DEF Due, Over, RunInv, Course
<1>4. Lossless' /\ Started' /\ Complete'
  BY <1>1, <1>3 DEF RunInv, Lossless, Receptive, Started, Complete, EndIsComplete
<1>5. Course' /\ Finalized'
  BY <1>1, <1>3 DEF RunInv, Course, Finalized, Over, Releasing
<1> QED BY <1>2, <1>4, <1>5 DEF RunInv

LEMMA SameRun == RunInv /\ UNCHANGED vars => RunInv'
BY DEF RunInv, TypeOK, HandedInOrder, Lossless, Receptive, Course, Over, Started,
       Complete, EndIsComplete, Finalized, Releasing, Due, vars, sourceVars, scopeVars

-----------------------------------------------------------------------------
(* Theorems *)

\* The invariant holds of every run, whatever the kind of its source and the
\* ways it may be cut (streamFromQueuedIterator).
THEOREM RunInvariance == Spec => []RunInv
<1>1. RunInv /\ [Next]_vars => RunInv'
  BY ArriveRun, SourceRun, AcquireRun, PullRun, WakesRun, ReceiveRun, EndRun, BeginRun,
     DoneRun, DrainRun, CloseRun, SameRun
     DEF Next
<1> QED BY InitRun, <1>1, PTL DEF Spec

\* Every variable has its type, the iterator among them (QueuedIteratorImpl).
THEOREM RunTypeCorrect == Spec => []TypeOK
<1>1. RunInv => TypeOK
  BY DEF RunInv
<1> QED BY RunInvariance, <1>1, PTL

\* The consumer sees what the source pushed, in that order, without a gap and
\* without a repetition, for any number of messages (iterate).
THEOREM RunHandsInOrder == Spec => []HandedInOrder
<1>1. RunInv => HandedInOrder
  BY DEF RunInv
<1> QED BY RunInvariance, <1>1, PTL

\* A run that ends by itself after a complete source has handed out everything
\* that was pushed (iterate, stop).
THEOREM RunEndsComplete == Spec => []EndIsComplete
<1>1. RunInv => EndIsComplete
  BY DEF RunInv, Complete
<1> QED BY RunInvariance, <1>1, PTL

\* When the run is over the server sends no more and the iterator is stopped,
\* however the run ended and in whatever order its finalizers ran
\* (streamFromQueuedIterator).
THEOREM RunLeavesNothingOpen == Spec => []NothingLeftOpen
<1>1. RunInv => NothingLeftOpen
  <2> SUFFICES ASSUME RunInv, phase = "closed" PROVE ~interest /\ iter.done
    BY DEF NothingLeftOpen
  <2>1. ~Due("return") /\ ~Due("release") /\ Over
    BY OrderTails DEF RunInv, Course, Due, Finalizers, Over
  <2>2. ~interest /\ (kind # "drain" => iter.done)
        /\ (iter.gen = "ended" \/ kind = "close")
    BY <2>1 DEF RunInv, Finalized
  <2>3. iter.gen = "ended" => iter.done
    BY DEF RunInv, Started
  <2> QED BY <2>2, <2>3
<1> QED BY RunInvariance, <1>1, PTL
=============================================================================
