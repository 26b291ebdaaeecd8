------------------------ MODULE QueuedIteratorProofs ------------------------
(***************************************************************************)
(* What the operations of the SDK's iterator do, for every bound on its    *)
(* messages.  The modules that use the iterator prove about its queue with *)
(* these lemmas and never look into the loop.                              *)
(***************************************************************************)
EXTENDS QueuedIterator, SequenceTheorems, TLAPS

\* An iterator, or one whose loop has come to the end of a batch.
Looping == [gen : {"fresh", "waiting", "paused", "ended", "running"},
            batch : Seq(Entry), yields : Seq(Entry), signal : BOOLEAN,
            done : BOOLEAN, failed : BOOLEAN, didBreak : BOOLEAN, return : BOOLEAN,
            promise : {"none", "pending", "value", "done", "error"},
            value : Messages \cup {0}]

\* Functions are queued behind the messages: who stops the iterator has done
\* with pushing.
MessagesFirst(s) ==
  s # << >> /\ s[1] \notin Messages => \A i \in DOMAIN s : s[i] \notin Messages

Consistent(q) == (q.failed => q.done) /\ (q.didBreak => q.done)

\* An iterator between two suspensions.
AtRest(q) ==
  /\ q.gen = "waiting" => q.promise = "pending"
  /\ q.promise = "pending" => q.gen = "waiting"
  /\ q.gen \in {"fresh", "waiting", "ended"} => q.batch = << >>
  /\ q.gen = "fresh" => q.promise = "none"
  /\ q.gen = "paused" => q.promise \in {"none", "value"}
  /\ Consistent(q)

\* The queue of an iterator, as next() sees it.
Empty(q) == q.batch = << >> /\ q.yields = << >>
First(q) == IF q.batch # << >> THEN Head(q.batch) ELSE Head(q.yields)

\* What running the loop of q may come to: it waits, hands out the first
\* message, or ends, because it was stopped or is now by a function.
Waits(s, q) ==
  /\ Empty(q) /\ Empty(s)
  /\ s.gen = "waiting" /\ s.promise = "pending"
  /\ s.done = q.done

Yields(s, q) ==
  /\ ~Empty(q) /\ First(q) \in Messages
  /\ s.gen = "paused" /\ s.promise = "value" /\ s.value = First(q)
  /\ s.done = q.done
  /\ \/ q.batch # << >> /\ s.batch = Tail(q.batch) /\ s.yields = q.yields
     \/ q.batch = << >> /\ s.batch = Tail(q.yields) /\ s.yields = << >>

EndsLoop(s, q) ==
  /\ s.gen = "ended" /\ s.promise \in {"done", "error"} /\ s.batch = << >>
  /\ s.done
  /\ q.done \/ (~Empty(q) /\ First(q) \notin Messages)

LoopsTo(s, q) ==
  /\ s \in Iterator /\ AtRest(s) /\ s.return = q.return
  /\ Waits(s, q) \/ Yields(s, q) \/ EndsLoop(s, q)

-----------------------------------------------------------------------------
(* Types *)

LEMMA LoopingType == Iterator \subseteq Looping
BY DEF Iterator, Looping

LEMMA FirstType ==
  ASSUME NEW s \in Seq(Entry), s # << >>
  PROVE  /\ Head(s) \in Entry /\ Head(s) = s[1] /\ 1 \in DOMAIN s
         /\ Tail(s) \in Seq(Entry)
<1>1. Len(s) \in Nat /\ Len(s) # 0 /\ DOMAIN s = 1 .. Len(s)
  BY EmptySeq, LenProperties
<1> QED BY <1>1, HeadTailProperties

LEMMA NewIteratorType == NewIterator \in Iterator /\ AtRest(NewIterator)
BY EmptySeq DEF NewIterator, Iterator, AtRest, Consistent

LEMMA StopType ==
  ASSUME NEW q \in Looping, NEW b \in BOOLEAN
  PROVE  /\ Stop(q, b) \in Looping /\ (q \in Iterator => Stop(q, b) \in Iterator)
         /\ Stop(q, b).done
         /\ q.done => Stop(q, b) = q
         /\ ~q.done => Stop(q, b).failed = b
         /\ Stop(q, b).gen = q.gen /\ Stop(q, b).batch = q.batch
         /\ Stop(q, b).yields = q.yields /\ Stop(q, b).promise = q.promise
         /\ Stop(q, b).value = q.value /\ Stop(q, b).return = q.return
         /\ Stop(q, b).didBreak = q.didBreak
<1>1. CASE q.done
  <2>1. Stop(q, b) = q
    BY <1>1 DEF Stop
  <2> QED BY <1>1, <2>1
<1>2. CASE ~q.done
  <2>1. Stop(q, b) = [q EXCEPT !.done = TRUE, !.failed = b, !.signal = TRUE]
    BY <1>2 DEF Stop
  <2> QED BY <1>2, <2>1 DEF Looping, Iterator
<1> QED BY <1>1, <1>2

LEMMA LeaveType ==
  ASSUME NEW q \in Looping, NEW p \in {"none", "pending", "value", "done", "error"}
  PROVE  LET s == Leave(q, p)
         IN  /\ s \in Iterator /\ s.gen = "ended" /\ s.batch = << >>
             /\ s.promise = p /\ s.done /\ s.didBreak /\ s.return = q.return
             /\ s.yields = q.yields /\ s.value = q.value
<1>1. PICK r : r = Stop(q, FALSE)
  OBVIOUS
<1>2. r \in Looping /\ r.done /\ r.return = q.return /\ r.yields = q.yields
      /\ r.value = q.value
  BY <1>1, StopType
<1>3. Leave(q, p) = [r EXCEPT !.gen = "ended", !.didBreak = TRUE,
                              !.batch = << >>, !.promise = p]
  BY <1>1 DEF Leave
<1>4. << >> \in Seq(Entry)
  BY EmptySeq
<1>5. PICK s : s = Leave(q, p)
  OBVIOUS
<1>6. s \in Iterator
  <2>1. PICK t : t = [r EXCEPT !.gen = "ended", !.batch = << >>]
    OBVIOUS
  <2>2. t \in Iterator
    BY <1>2, <1>4, <2>1 DEF Looping, Iterator
  <2>3. s = [t EXCEPT !.didBreak = TRUE, !.promise = p]
    BY <1>2, <1>3, <1>5, <2>1 DEF Looping, Iterator
  <2> QED BY <2>2, <2>3 DEF Iterator
<1>7. /\ s.gen = "ended" /\ s.batch = << >> /\ s.promise = p /\ s.done /\ s.didBreak
      /\ s.return = q.return /\ s.yields = q.yields /\ s.value = q.value
  BY <1>2, <1>3, <1>5 DEF Looping, Iterator
<1> QED BY <1>5, <1>6, <1>7

-----------------------------------------------------------------------------
(* The loop *)

LEMMA NoMessage ==
  ASSUME NEW s \in Seq(Entry), s # << >> => Head(s) \notin Messages, MessagesFirst(s)
  PROVE  FirstMessage(s) = Len(s) + 1
<1>1. CASE s = << >>
  BY <1>1 DEF FirstMessage
<1>2. CASE s # << >>
  <2>1. {i \in DOMAIN s : s[i] \in Messages} = {}
    BY <1>2, FirstType DEF MessagesFirst
  <2> QED BY <2>1 DEF FirstMessage
<1> QED BY <1>1, <1>2

LEMMA MessageAtOnce ==
  ASSUME NEW s \in Seq(Entry), s # << >>, Head(s) \in Messages
  PROVE  FirstMessage(s) = 1
<1> DEFINE at == {i \in DOMAIN s : s[i] \in Messages}
<1>1. 1 \in at
  BY FirstType
<1>2. at \subseteq Nat \ {0}
  BY LenProperties
<1>3. PICK f : f = CHOOSE i \in at : \A j \in at : i <= j
  OBVIOUS
<1>4. \A j \in at : 1 <= j
  BY <1>2
<1>5. f \in at /\ \A j \in at : f <= j
  BY <1>1, <1>3, <1>4
<1>6. f = 1
  BY <1>1, <1>2, <1>5
<1>7. FirstMessage(s) = IF at = {} THEN Len(s) + 1 ELSE CHOOSE i \in at : \A j \in at : i <= j
  BY DEF FirstMessage
<1> HIDE DEF at
<1> QED BY <1>1, <1>3, <1>6, <1>7

LEMMA WalkPast ==
  ASSUME NEW q \in Looping, q.batch = << >>
  PROVE  Walk(q) = [q EXCEPT !.gen = "running", !.batch = << >>]
<1>1. FirstMessage(q.batch) = 1 /\ Len(q.batch) = 0
  BY NoMessage, EmptySeq DEF MessagesFirst, Looping
<1> QED BY <1>1 DEF Walk

LEMMA WalkYields ==
  ASSUME NEW q \in Looping, q.batch # << >>, Head(q.batch) \in Messages
  PROVE  Walk(q) = [q EXCEPT !.gen = "paused", !.promise = "value",
                             !.value = Head(q.batch), !.batch = Tail(@)]
<1>0. q.batch \in Seq(Entry)
  BY DEF Looping
<1>1. FirstMessage(q.batch) = 1 /\ Head(q.batch) = q.batch[1]
  BY <1>0, FirstType, MessageAtOnce
<1>2. SubSeq(q.batch, 1 + 1, Len(q.batch)) = Tail(q.batch)
  BY <1>0, TailIsSubSeq
<1>3. Len(q.batch) \in Nat /\ ~ (1 > Len(q.batch))
  BY <1>0, EmptySeq
<1>4. Walk(q) = [q EXCEPT !.gen = "paused", !.promise = "value",
                          !.value = q.batch[1],
                          !.batch = SubSeq(q.batch, 1 + 1, Len(q.batch))]
  BY <1>1, <1>3 DEF Walk
<1> QED BY <1>1, <1>2, <1>4

LEMMA WalkRuns ==
  ASSUME NEW q \in Looping, q.batch # << >>, Head(q.batch) \notin Messages,
         MessagesFirst(q.batch)
  PROVE  LET r == RunFn(q, Head(q.batch))
         IN  Walk(q) = IF r.failed THEN Leave(r, "error")
                       ELSE [r EXCEPT !.gen = "running", !.batch = << >>]
<1>0. q.batch \in Seq(Entry)
  BY DEF Looping
<1>1. Len(q.batch) \in Nat /\ Len(q.batch) # 0
  BY <1>0, EmptySeq
<1>2. FirstMessage(q.batch) = Len(q.batch) + 1
  BY <1>0, NoMessage
<1>3. /\ Len(q.batch) + 1 # 1 /\ Len(q.batch) + 1 > 1
      /\ Len(q.batch) + 1 > Len(q.batch)
  BY <1>1
<1> QED BY <1>2, <1>3 DEF Walk

\* A walk by what it comes to.
LEMMA WalkEffect ==
  ASSUME NEW q \in Looping, MessagesFirst(q.batch), q.promise = "pending",
         Consistent(q)
  PROVE  LET s == Walk(q)
         IN  /\ s \in Looping /\ s.return = q.return /\ Consistent(s)
             /\ \/ /\ q.batch = << >>
                   /\ s.gen = "running" /\ s.promise = "pending" /\ s.batch = << >>
                   /\ s.yields = q.yields /\ s.done = q.done
                \/ /\ q.batch # << >> /\ Head(q.batch) \in Messages
                   /\ s \in Iterator /\ s.gen = "paused" /\ s.promise = "value"
                   /\ s.value = Head(q.batch) /\ s.batch = Tail(q.batch)
                   /\ s.yields = q.yields /\ s.done = q.done
                \/ /\ q.batch # << >> /\ Head(q.batch) \notin Messages /\ s.done
                   /\ s.batch = << >>
                   /\ \/ s.gen = "running" /\ s.promise = "pending"
                      \/ s \in Iterator /\ s.gen = "ended" /\ s.promise = "error"
<1>0. q.batch \in Seq(Entry) /\ << >> \in Seq(Entry)
  BY EmptySeq DEF Looping
<1>1. CASE q.batch = << >>
  BY <1>0, <1>1, WalkPast DEF Looping, Consistent
<1>2. CASE q.batch # << >> /\ Head(q.batch) \in Messages
  <2>1. PICK h, t : h = Head(q.batch) /\ t = Tail(q.batch)
    OBVIOUS
  <2>2. h \in Messages /\ t \in Seq(Entry)
    BY <1>0, <1>2, <2>1, FirstType
  <2>3. Walk(q) = [q EXCEPT !.gen = "paused", !.promise = "value",
                            !.value = h, !.batch = t]
    BY <1>2, <2>1, WalkYields
  <2>4. Walk(q) \in Iterator /\ Walk(q) \in Looping
    BY <2>2, <2>3 DEF Looping, Iterator
  <2> QED BY <1>2, <2>1, <2>3, <2>4 DEF Looping, Consistent
<1>3. CASE q.batch # << >> /\ Head(q.batch) \notin Messages
  <2>1. PICK r : r = RunFn(q, Head(q.batch))
    OBVIOUS
  <2>2. r \in Looping /\ r.done /\ r.return = q.return /\ r.promise = "pending"
    BY <2>1, StopType DEF RunFn
  <2>3. CASE r.failed
    <3>1. Walk(q) = Leave(r, "error")
      BY <1>3, <2>1, <2>3, WalkRuns
    <3>2. /\ Walk(q) \in Iterator /\ Walk(q).gen = "ended" /\ Walk(q).batch = << >>
          /\ Walk(q).promise = "error" /\ Walk(q).done /\ Walk(q).return = r.return
      BY <2>2, <3>1, LeaveType
    <3> QED BY <1>3, <2>2, <3>2, LoopingType DEF Consistent
  <2>4. CASE ~r.failed
    <3>1. Walk(q) = [r EXCEPT !.gen = "running", !.batch = << >>]
      BY <1>3, <2>1, <2>4, WalkRuns
    <3> QED BY <1>0, <1>3, <2>2, <3>1 DEF Looping, Consistent
  <2> QED BY <2>3, <2>4
<1> QED BY <1>1, <1>2, <1>3

LEMMA NextBatchEnds ==
  ASSUME NEW r \in Looping, r.done
  PROVE  NextBatch(r) = Leave(r, "done")
BY DEF NextBatch

LEMMA TakeBatchType ==
  ASSUME NEW q \in Looping
  PROVE  LET t == TakeBatch(q)
         IN  /\ t \in Looping /\ t.batch = q.yields /\ t.yields = << >>
             /\ t.promise = q.promise /\ t.return = q.return /\ t.gen = q.gen
             /\ t.done = q.done /\ (Consistent(q) => Consistent(t))
<1>1. << >> \in Seq(Entry)
  BY EmptySeq
<1> QED BY <1>1 DEF TakeBatch, Looping, Consistent

\* The loop from anywhere in a batch.
LEMMA LoopEffect ==
  ASSUME NEW q \in Looping, MessagesFirst(q.batch), MessagesFirst(q.yields),
         q.promise = "pending", Consistent(q)
  PROVE  LoopsTo(Loop(q), q)
<1>1. PICK r : r = Walk(q)
  OBVIOUS
<1>2. /\ r \in Looping /\ r.return = q.return /\ Consistent(r)
      /\ \/ /\ q.batch = << >>
            /\ r.gen = "running" /\ r.promise = "pending" /\ r.batch = << >>
            /\ r.yields = q.yields /\ r.done = q.done
         \/ /\ q.batch # << >> /\ Head(q.batch) \in Messages
            /\ r \in Iterator /\ r.gen = "paused" /\ r.promise = "value"
            /\ r.value = Head(q.batch) /\ r.batch = Tail(q.batch)
            /\ r.yields = q.yields /\ r.done = q.done
         \/ /\ q.batch # << >> /\ Head(q.batch) \notin Messages /\ r.done
            /\ r.batch = << >>
            /\ \/ r.gen = "running" /\ r.promise = "pending"
               \/ r \in Iterator /\ r.gen = "ended" /\ r.promise = "error"
  BY <1>1, WalkEffect
<1>3. ASSUME r.gen # "running" PROVE LoopsTo(Loop(q), q)
  <2>1. Loop(q) = r
    BY <1>1, <1>3 DEF Loop
  <2>2. r \in Iterator /\ AtRest(r)
    BY <1>2, <1>3 DEF AtRest, Consistent
  <2>3. Yields(r, q) \/ EndsLoop(r, q)
    BY <1>2, <1>3 DEF Yields, EndsLoop, Empty, First
  <2> QED BY <1>2, <2>1, <2>2, <2>3 DEF LoopsTo
<1>4. ASSUME r.gen = "running", r.done PROVE LoopsTo(Loop(q), q)
  <2>1. PICK s : s = Leave(r, "done")
    OBVIOUS
  <2>2. /\ s \in Iterator /\ s.gen = "ended" /\ s.batch = << >> /\ s.promise = "done"
        /\ s.done /\ s.return = r.return
    BY <1>2, <2>1, LeaveType
  <2>3. NextBatch(r) = s
    BY <1>2, <1>4, <2>1, NextBatchEnds
  <2>4. Loop(q) = s
    BY <1>1, <1>4, <2>2, <2>3 DEF Loop
  <2>5. AtRest(s)
    BY <2>2 DEF AtRest, Consistent
  <2>6. q.done \/ (q.batch # << >> /\ Head(q.batch) \notin Messages)
    BY <1>2, <1>4
  <2>7. EndsLoop(s, q)
    BY <2>2, <2>6 DEF EndsLoop, Empty, First
  <2> QED BY <1>2, <2>2, <2>4, <2>5, <2>7 DEF LoopsTo
<1>5. ASSUME r.gen = "running", ~r.done, r.yields = << >> PROVE LoopsTo(Loop(q), q)
  <2>1. PICK s : s = [r EXCEPT !.gen = "waiting", !.signal = FALSE]
    OBVIOUS
  <2>2. NextBatch(r) = s
    BY <1>5, <2>1 DEF NextBatch
  <2>3. /\ s \in Iterator /\ s.gen = "waiting" /\ s.promise = "pending" /\ s.batch = << >>
        /\ s.yields = << >> /\ s.return = q.return /\ s.done = r.done /\ Consistent(s)
    BY <1>2, <1>5, <2>1 DEF Looping, Iterator, Consistent
  <2>4. Loop(q) = s
    BY <1>1, <1>5, <2>2, <2>3 DEF Loop
  <2>5. AtRest(s)
    BY <2>3 DEF AtRest, Consistent
  <2>6. Waits(s, q)
    BY <1>2, <1>5, <2>3 DEF Waits, Empty
  <2> QED BY <2>3, <2>4, <2>5, <2>6 DEF LoopsTo
<1>6. ASSUME r.gen = "running", ~r.done, r.yields # << >> PROVE LoopsTo(Loop(q), q)
  <2>0. q.batch = << >> /\ r.yields = q.yields /\ r.promise = "pending" /\ ~q.done
    BY <1>2, <1>6
  <2>1. PICK t : t = TakeBatch(r)
    OBVIOUS
  <2>2. /\ t \in Looping /\ t.batch = q.yields /\ t.yields = << >>
        /\ t.promise = "pending" /\ t.return = q.return /\ t.done = q.done /\ Consistent(t)
    BY <1>2, <1>6, <2>0, <2>1, TakeBatchType
  <2>3. PICK s : s = Walk(t)
    OBVIOUS
  <2>4. /\ s \in Looping /\ s.return = t.return /\ Consistent(s)
        /\ \/ /\ Head(t.batch) \in Messages
              /\ s \in Iterator /\ s.gen = "paused" /\ s.promise = "value"
              /\ s.value = Head(t.batch) /\ s.batch = Tail(t.batch)
              /\ s.yields = t.yields /\ s.done = t.done
           \/ /\ Head(t.batch) \notin Messages /\ s.done
              /\ s.batch = << >>
              /\ \/ s.gen = "running" /\ s.promise = "pending"
                 \/ s \in Iterator /\ s.gen = "ended" /\ s.promise = "error"
    BY <1>6, <2>0, <2>2, <2>3, WalkEffect
  <2>5. NextBatch(r) = s
    BY <1>6, <2>1, <2>3 DEF NextBatch
  <2>6. ~Empty(q) /\ First(q) = Head(t.batch)
    BY <1>6, <2>0, <2>2 DEF Empty, First
  <2>7. CASE s.gen # "running"
    <3>1. Loop(q) = s
      BY <1>1, <1>6, <2>5, <2>7 DEF Loop
    <3>2. s \in Iterator /\ AtRest(s)
      BY <2>4, <2>7 DEF AtRest, Consistent
    <3>3. Yields(s, q) \/ EndsLoop(s, q)
      <4>1. CASE Head(t.batch) \in Messages
        BY <2>0, <2>2, <2>4, <2>6, <4>1 DEF Yields
      <4>2. CASE Head(t.batch) \notin Messages
        BY <2>4, <2>6, <2>7, <4>2 DEF EndsLoop
      <4> QED BY <4>1, <4>2
    <3> QED BY <2>2, <2>4, <3>1, <3>2, <3>3 DEF LoopsTo
  <2>8. CASE s.gen = "running"
    <3>1. PICK u : u = Leave(s, "done")
      OBVIOUS
    <3>2. /\ u \in Iterator /\ u.gen = "ended" /\ u.batch = << >> /\ u.promise = "done"
          /\ u.done /\ u.return = s.return
      BY <2>4, <3>1, LeaveType
    <3>3. Loop(q) = u
      BY <1>1, <1>6, <2>4, <2>5, <2>8, <3>1, NextBatchEnds DEF Loop
    <3>4. AtRest(u)
      BY <3>2 DEF AtRest, Consistent
    <3>5. EndsLoop(u, q)
      BY <2>4, <2>6, <2>8, <3>2 DEF EndsLoop
    <3> QED BY <2>2, <2>4, <3>2, <3>3, <3>4, <3>5 DEF LoopsTo
  <2> QED BY <2>7, <2>8
<1> QED BY <1>3, <1>4, <1>5, <1>6

\* The top of the loop, with nothing left of the last batch.
LEMMA TurnEffect ==
  ASSUME NEW q \in Looping, q.batch = << >>, MessagesFirst(q.yields),
         q.promise = "pending", Consistent(q)
  PROVE  LoopsTo(Turn(q), q)
<1>1. CASE q.failed
  <2>1. PICK s : s = Leave(q, "error")
    OBVIOUS
  <2>2. /\ s \in Iterator /\ s.gen = "ended" /\ s.batch = << >> /\ s.promise = "error"
        /\ s.done /\ s.return = q.return
    BY <2>1, LeaveType
  <2>3. Turn(q) = s /\ q.done
    BY <1>1, <2>1 DEF Turn, Consistent
  <2> QED BY <2>2, <2>3 DEF LoopsTo, EndsLoop, AtRest, Consistent
<1>2. CASE ~q.failed
  <2>1. PICK t : t = TakeBatch(q)
    OBVIOUS
  <2>2. /\ t \in Looping /\ t.batch = q.yields /\ t.yields = << >>
        /\ t.promise = "pending" /\ t.return = q.return /\ t.done = q.done /\ Consistent(t)
    BY <2>1, TakeBatchType
  <2>3. LoopsTo(Loop(t), t)
    BY <2>2, LoopEffect DEF MessagesFirst
  <2>4. PICK s : s = Loop(t)
    OBVIOUS
  <2>5. Turn(q) = s
    BY <1>2, <2>1, <2>4 DEF Turn
  <2>6. (Empty(t) <=> Empty(q)) /\ (~Empty(q) => First(t) = First(q))
    BY <2>2 DEF Empty, First
  <2>7. Waits(s, t) => Waits(s, q)
    BY <2>2, <2>6 DEF Waits
  <2>8. Yields(s, t) => Yields(s, q)
    BY <2>2, <2>6 DEF Yields, Empty
  <2>9. EndsLoop(s, t) => EndsLoop(s, q)
    BY <2>2, <2>6 DEF EndsLoop
  <2> QED BY <2>2, <2>3, <2>4, <2>5, <2>7, <2>8, <2>9 DEF LoopsTo
<1> QED BY <1>1, <1>2

-----------------------------------------------------------------------------
(* The operations *)

\* next() on an iterator whose last next() was answered.
LEMMA CallNextEffect ==
  ASSUME NEW q \in Iterator, AtRest(q), q.promise = "none",
         MessagesFirst(q.batch), MessagesFirst(q.yields)
  PROVE  LET s == CallNext(q)
         IN  IF q.gen = "ended"
             THEN /\ s \in Iterator /\ AtRest(s) /\ s.gen = "ended" /\ s.promise = "done"
                  /\ s.done = q.done /\ s.return = q.return
             ELSE LoopsTo(s, q)
<1>1. CASE q.gen = "ended"
  <2>1. CallNext(q) = [q EXCEPT !.promise = "done"]
    BY <1>1 DEF CallNext
  <2> QED BY <1>1, <2>1 DEF Iterator, AtRest, Consistent
<1>2. CASE q.gen # "ended"
  <2>1. PICK p : p = [q EXCEPT !.promise = "pending"]
    OBVIOUS
  <2>2. /\ p \in Looping /\ p \in Iterator /\ p.promise = "pending" /\ Consistent(p)
        /\ p.batch = q.batch /\ p.yields = q.yields /\ p.done = q.done
        /\ p.return = q.return /\ p.gen = q.gen
    BY <2>1 DEF Iterator, Looping, AtRest, Consistent
  <2>3. \A s : LoopsTo(s, p) => LoopsTo(s, q)
    BY <2>2 DEF LoopsTo, Waits, Yields, EndsLoop, Empty, First
  <2>4. q.gen \in {"fresh", "paused"}
    BY <1>2 DEF AtRest, Iterator
  <2>5. CASE q.gen = "paused"
    <3>1. CallNext(q) = Loop(p)
      BY <2>1, <2>5 DEF CallNext
    <3> QED BY <1>2, <2>2, <2>3, <3>1, LoopEffect
  <2>6. CASE q.gen = "fresh" /\ q.yields # << >>
    <3>1. CallNext(q) = Turn(p)
      BY <2>1, <2>6 DEF CallNext
    <3>2. p.batch = << >>
      BY <2>2, <2>6 DEF AtRest
    <3> QED BY <1>2, <2>2, <2>3, <3>1, <3>2, TurnEffect
  <2>7. CASE q.gen = "fresh" /\ q.yields = << >>
    <3>1. PICK s : s = [p EXCEPT !.gen = "waiting"]
      OBVIOUS
    <3>2. CallNext(q) = s
      BY <2>1, <2>7, <3>1 DEF CallNext
    <3>3. /\ s \in Iterator /\ s.gen = "waiting" /\ s.promise = "pending" /\ s.done = p.done
          /\ s.batch = p.batch /\ s.yields = p.yields /\ s.return = p.return /\ Consistent(s)
      BY <2>2, <3>1 DEF Iterator, Consistent
    <3>4. q.batch = << >>
      BY <2>7 DEF AtRest
    <3>5. Waits(s, q) /\ AtRest(s)
      BY <2>2, <2>7, <3>3, <3>4 DEF Waits, Empty, AtRest
    <3> QED BY <1>2, <2>2, <3>2, <3>3, <3>5 DEF LoopsTo
  <2> QED BY <2>4, <2>5, <2>6, <2>7
<1> QED BY <1>1, <1>2

\* A message handed out to a next() whose iterator was told to return meanwhile.
YieldsAndReturns(s, q) ==
  /\ q.return /\ ~Empty(q) /\ First(q) \in Messages
  /\ s \in Iterator /\ AtRest(s) /\ s.return = q.return
  /\ s.gen = "ended" /\ s.done /\ s.batch = << >>
  /\ s.promise = "value" /\ s.value = First(q)

LEMMA WakeEffect ==
  ASSUME NEW q \in Iterator, AtRest(q), CanWake(q), MessagesFirst(q.yields)
  PROVE  \/ LoopsTo(Wake(q), q) /\ (Wake(q).gen = "paused" => ~q.return)
         \/ YieldsAndReturns(Wake(q), q)
<1>1. PICK r : r = Turn(q)
  OBVIOUS
<1>2. q \in Looping /\ q.batch = << >> /\ q.promise = "pending" /\ Consistent(q)
  BY LoopingType DEF CanWake, AtRest
<1>3. LoopsTo(r, q)
  BY <1>1, <1>2, TurnEffect
<1>4. CASE r.gen = "paused" /\ q.return
  <2>1. Wake(q) = Leave(r, r.promise)
    BY <1>1, <1>4 DEF Wake
  <2>2. Yields(r, q) /\ r \in Looping /\ r.return = q.return
    BY <1>3, <1>4, LoopingType DEF LoopsTo, Waits, EndsLoop
  <2>3. Wake(q) = Leave(r, "value")
    BY <2>1, <2>2 DEF Yields
  <2>4. /\ Wake(q) \in Iterator /\ Wake(q).gen = "ended" /\ Wake(q).batch = << >>
        /\ Wake(q).promise = "value" /\ Wake(q).done /\ Wake(q).return = r.return
        /\ Wake(q).value = r.value
    BY <2>2, <2>3, LeaveType
  <2>5. AtRest(Wake(q))
    BY <2>4 DEF AtRest, Consistent
  <2> QED BY <1>4, <2>2, <2>4, <2>5 DEF YieldsAndReturns, Yields
<1>5. CASE ~(r.gen = "paused" /\ q.return)
  <2>1. Wake(q) = r
    BY <1>1, <1>5 DEF Wake
  <2> QED BY <1>3, <1>5, <2>1
<1> QED BY <1>4, <1>5

LEMMA ReturnEffect ==
  ASSUME NEW q \in Iterator, AtRest(q)
  PROVE  LET s == Return(q)
         IN  /\ s \in Iterator /\ AtRest(s)
             /\ s.promise = q.promise /\ s.value = q.value /\ s.yields = q.yields
             /\ \/ q.gen = "waiting" /\ s.gen = "waiting" /\ s.done = q.done
                \/ q.gen = "fresh" /\ s.gen = "ended" /\ s.done = q.done
                \/ q.gen = "paused" /\ s.gen = "ended" /\ s.done
                \/ q.gen = "ended" /\ s = q
<1>1. CASE q.gen = "paused"
  <2>1. Return(q) = Leave(q, q.promise)
    BY <1>1 DEF Return
  <2>2. q.promise \in {"none", "value"} /\ q \in Looping
    BY <1>1, LoopingType DEF AtRest
  <2>3. /\ Return(q) \in Iterator /\ Return(q).gen = "ended" /\ Return(q).batch = << >>
        /\ Return(q).promise = q.promise /\ Return(q).done
        /\ Return(q).value = q.value /\ Return(q).yields = q.yields
    BY <2>1, <2>2, LeaveType
  <2> QED BY <1>1, <2>2, <2>3 DEF AtRest, Consistent
<1>2. CASE q.gen = "waiting"
  <2>1. Return(q) = [q EXCEPT !.return = TRUE]
    BY <1>2 DEF Return
  <2> QED BY <1>2, <2>1 DEF Iterator, AtRest, Consistent
<1>3. CASE q.gen = "fresh"
  <2>1. Return(q) = [q EXCEPT !.gen = "ended"]
    BY <1>3 DEF Return
  <2> QED BY <1>3, <2>1 DEF Iterator, AtRest, Consistent
<1>4. CASE q.gen = "ended"
  BY <1>4 DEF Return
<1> QED BY <1>1, <1>2, <1>3, <1>4 DEF Iterator

\* A stopped iterator takes nothing, the others queue what is pushed.
LEMMA PushEffect ==
  ASSUME NEW q \in Iterator, AtRest(q), NEW v \in Entry
  PROVE  LET s == Push(q, v)
         IN  /\ s \in Iterator /\ AtRest(s)
             /\ s.gen = q.gen /\ s.batch = q.batch /\ s.promise = q.promise
             /\ s.value = q.value /\ s.return = q.return /\ s.done = q.done
             /\ s.yields = IF q.done THEN q.yields ELSE Append(q.yields, v)
<1>1. CASE q.done
  <2>1. Push(q, v) = q
    BY <1>1 DEF Push
  <2> QED BY <1>1, <2>1
<1>2. CASE ~q.done
  <2>1. ~q.didBreak
    BY <1>2 DEF AtRest, Consistent
  <2>2. PICK y : y = Append(q.yields, v)
    OBVIOUS
  <2>3. y \in Seq(Entry)
    BY <2>2, AppendProperties DEF Iterator
  <2>4. Push(q, v) = [q EXCEPT !.yields = y, !.signal = TRUE]
    BY <1>2, <2>1, <2>2 DEF Push
  <2> QED BY <1>2, <2>2, <2>3, <2>4 DEF Iterator, AtRest, Consistent
<1> QED BY <1>1, <1>2

LEMMA StopEffect ==
  ASSUME NEW q \in Iterator, AtRest(q), NEW b \in BOOLEAN
  PROVE  LET s == Stop(q, b)
         IN  /\ s \in Iterator /\ AtRest(s) /\ s.done
             /\ s.gen = q.gen /\ s.batch = q.batch /\ s.promise = q.promise
             /\ s.value = q.value /\ s.return = q.return /\ s.yields = q.yields
<1>1. q \in Looping
  BY LoopingType
<1> QED BY <1>1, StopType DEF AtRest, Consistent

-----------------------------------------------------------------------------
(* Order *)

\* Messages that have left the queue when h of them have been received.
Given(q, h) == IF q.promise = "value" THEN h + 1 ELSE h

\* The queue of an iterator that was pushed 1 .. a and then functions, of which
\* h messages have been received: what it holds of them is all that is left, in
\* order.  Once the loop was left the queue is of no more use.
Queued(q, h, a) ==
  /\ q.promise = "value" => q.value = h + 1
  /\ Given(q, h) <= a
  /\ q.gen # "ended" =>
       /\ \A i \in DOMAIN q.batch :
             LET n == Given(q, h) + i
             IN  IF n <= a THEN q.batch[i] = n ELSE q.batch[i] \notin Messages
       /\ \A i \in DOMAIN q.yields :
             LET n == Given(q, h) + Len(q.batch) + i
             IN  IF n <= a THEN q.yields[i] = n ELSE q.yields[i] \notin Messages
       /\ a <= Given(q, h) + Len(q.batch) + Len(q.yields)

\* Everything that was pushed and not dropped, functions included.
Total(q, h) == Given(q, h) + Len(q.batch) + Len(q.yields)

LEMMA Sums ==
  /\ \A h, m, n \in Nat : m # 0 \/ n # 0 => h + m + n > h
  /\ \A h, l, m \in Nat : l + 1 = m => h + 1 + l = h + m
  /\ \A h, n \in Nat : h + 0 + n = h + n /\ h + n + 0 = h + n
OBVIOUS

LEMMA QueueTypes ==
  ASSUME NEW q \in Iterator
  PROVE  /\ q.batch \in Seq(Entry) /\ q.yields \in Seq(Entry)
         /\ Len(q.batch) \in Nat /\ Len(q.yields) \in Nat
         /\ DOMAIN q.batch = 1 .. Len(q.batch) /\ DOMAIN q.yields = 1 .. Len(q.yields)
         /\ (q.batch = << >> <=> Len(q.batch) = 0)
         /\ (q.yields = << >> <=> Len(q.yields) = 0)
<1>1. q.batch \in Seq(Entry) /\ q.yields \in Seq(Entry)
  BY DEF Iterator
<1> QED BY <1>1, LenProperties, EmptySeq

LEMMA QueuedMessagesFirst ==
  ASSUME NEW q \in Iterator, AtRest(q), NEW h \in Nat, NEW a \in 0 .. MaxMsgs,
         Queued(q, h, a)
  PROVE  q.gen # "ended" => MessagesFirst(q.batch) /\ MessagesFirst(q.yields)
<1> SUFFICES ASSUME q.gen # "ended" PROVE MessagesFirst(q.batch) /\ MessagesFirst(q.yields)
  OBVIOUS
<1>0. Given(q, h) \in Nat
  BY DEF Given
<1>1. ASSUME q.batch # << >>, q.batch[1] \notin Messages, NEW i \in DOMAIN q.batch
      PROVE  q.batch[i] \notin Messages
  <2>1. i \in Nat \ {0} /\ 1 \in DOMAIN q.batch
    BY <1>1, QueueTypes
  <2>2. ~ (Given(q, h) + 1 <= a)
    BY <1>0, <1>1, <2>1, MaxMsgsAssumption DEF Queued, Messages
  <2>3. ~ (Given(q, h) + i <= a)
    BY <1>0, <2>1, <2>2, MaxMsgsAssumption
  <2> QED BY <2>3 DEF Queued
<1>2. ASSUME q.yields # << >>, q.yields[1] \notin Messages, NEW i \in DOMAIN q.yields
      PROVE  q.yields[i] \notin Messages
  <2>0. Len(q.batch) \in Nat
    BY QueueTypes
  <2>1. i \in Nat \ {0} /\ 1 \in DOMAIN q.yields
    BY <1>2, QueueTypes
  <2>2. ~ (Given(q, h) + Len(q.batch) + 1 <= a)
    <3> SUFFICES ASSUME Given(q, h) + Len(q.batch) + 1 <= a PROVE FALSE
      OBVIOUS
    <3>1. q.yields[1] = Given(q, h) + Len(q.batch) + 1
      BY <2>1 DEF Queued
    <3>2. Given(q, h) + Len(q.batch) + 1 \in Messages
      BY <1>0, <2>0, MaxMsgsAssumption DEF Messages
    <3> QED BY <1>2, <3>1, <3>2
  <2>3. ~ (Given(q, h) + Len(q.batch) + i <= a)
    BY <1>0, <2>0, <2>1, <2>2, MaxMsgsAssumption
  <2> QED BY <2>3 DEF Queued
<1> QED BY <1>1, <1>2 DEF MessagesFirst

\* The first of the queue is the next message, or there is none.
LEMMA QueuedFirst ==
  ASSUME NEW q \in Iterator, q.gen # "ended", NEW h \in Nat, NEW a \in 0 .. MaxMsgs,
         Queued(q, h, a), q.promise # "value", ~Empty(q)
  PROVE  IF First(q) \in Messages THEN h + 1 <= a /\ First(q) = h + 1 ELSE h = a
<1>0. Given(q, h) = h /\ h <= a
  BY DEF Given, Queued
<1>1. CASE q.batch # << >>
  <2>1. 1 \in DOMAIN q.batch /\ First(q) = q.batch[1]
    BY <1>1, QueueTypes, FirstType DEF First
  <2> QED BY <1>0, <2>1, MaxMsgsAssumption DEF Queued, Messages
<1>2. CASE q.batch = << >>
  <2>1. 1 \in DOMAIN q.yields /\ First(q) = q.yields[1] /\ Len(q.batch) = 0
    BY <1>2, QueueTypes, FirstType DEF First, Empty
  <2> QED BY <1>0, <2>1, MaxMsgsAssumption DEF Queued, Messages
<1> QED BY <1>1, <1>2

LEMMA LoopsToQueued ==
  ASSUME NEW q \in Iterator, q.gen # "ended", q.promise # "value",
         NEW h \in Nat, NEW a \in 0 .. MaxMsgs, Queued(q, h, a),
         NEW s, LoopsTo(s, q)
  PROVE  /\ Queued(s, h, a)
         /\ s.gen # "ended" => Total(s, h) = Total(q, h) /\ s.done = q.done
         /\ s.gen = "ended" => /\ s.done /\ s.promise # "value"
                               /\ q.done \/ (h = a /\ Total(q, h) > a)
<1>0. Given(q, h) = h /\ h <= a /\ s \in Iterator /\ a \in Nat
  BY MaxMsgsAssumption DEF Given, Queued, LoopsTo
<1>1. CASE Waits(s, q)
  <2>1. /\ Given(s, h) = h /\ Len(s.batch) = 0 /\ Len(s.yields) = 0 /\ s.gen # "ended"
        /\ Len(q.batch) = 0 /\ Len(q.yields) = 0 /\ s.promise # "value"
        /\ DOMAIN s.batch = {} /\ DOMAIN s.yields = {} /\ s.done = q.done
    BY <1>0, <1>1, QueueTypes DEF Waits, Given, Empty
  <2>2. a <= h
    BY <1>0, <2>1 DEF Queued
  <2> QED BY <1>0, <2>1, <2>2 DEF Queued, Total
<1>2. CASE Yields(s, q)
  <2>1. h + 1 <= a /\ First(q) = h + 1
    BY <1>2, QueuedFirst DEF Yields
  <2>2. Given(s, h) = h + 1 /\ s.value = h + 1 /\ s.gen = "paused" /\ s.done = q.done
    BY <1>2, <2>1 DEF Yields, Given
  <2>3. CASE q.batch # << >> /\ s.batch = Tail(q.batch) /\ s.yields = q.yields
    <3>1. /\ Len(s.batch) + 1 = Len(q.batch)
          /\ DOMAIN s.batch = 1 .. Len(s.batch)
          /\ \A i \in DOMAIN s.batch : /\ s.batch[i] = q.batch[i + 1]
                                       /\ i + 1 \in DOMAIN q.batch
      BY <1>0, <2>3, QueueTypes, HeadTailProperties
    <3>2. Len(q.batch) \in Nat /\ Len(s.batch) \in Nat /\ Len(q.yields) \in Nat
      BY <1>0, QueueTypes
    <3>3. ASSUME NEW i \in DOMAIN s.batch
          PROVE  IF h + 1 + i <= a THEN s.batch[i] = h + 1 + i ELSE s.batch[i] \notin Messages
      <4>1. IF h + (i + 1) <= a THEN q.batch[i + 1] = h + (i + 1)
            ELSE q.batch[i + 1] \notin Messages
        BY <1>0, <3>1, <3>3 DEF Queued
      <4>2. i \in Nat /\ h + (i + 1) = h + 1 + i
        BY <3>1, <3>3
      <4> QED BY <3>1, <3>3, <4>1, <4>2
    <3>4. h + 1 + Len(s.batch) = h + Len(q.batch)
      <4>1. Len(s.batch) + 1 = Len(q.batch)
        BY <3>1
      <4> QED BY <3>2, <4>1, Sums
    <3> QED BY <1>0, <2>1, <2>2, <2>3, <3>2, <3>3, <3>4 DEF Queued, Total
  <2>4. CASE q.batch = << >> /\ s.batch = Tail(q.yields) /\ s.yields = << >>
    <3>0. q.yields # << >>
      BY <1>2, <2>4 DEF Yields, Empty
    <3>1. /\ Len(s.batch) + 1 = Len(q.yields)
          /\ DOMAIN s.batch = 1 .. Len(s.batch)
          /\ \A i \in DOMAIN s.batch : /\ s.batch[i] = q.yields[i + 1]
                                       /\ i + 1 \in DOMAIN q.yields
      BY <1>0, <2>4, <3>0, QueueTypes, HeadTailProperties
    <3>2. /\ Len(q.batch) = 0 /\ Len(s.batch) \in Nat /\ Len(q.yields) \in Nat
          /\ Len(s.yields) = 0 /\ DOMAIN s.yields = {}
      BY <1>0, <2>4, QueueTypes
    <3>3. ASSUME NEW i \in DOMAIN s.batch
          PROVE  IF h + 1 + i <= a THEN s.batch[i] = h + 1 + i ELSE s.batch[i] \notin Messages
      <4>1. IF h + 0 + (i + 1) <= a THEN q.yields[i + 1] = h + 0 + (i + 1)
            ELSE q.yields[i + 1] \notin Messages
        BY <1>0, <3>1, <3>2, <3>3 DEF Queued
      <4>2. i \in Nat /\ h + 0 + (i + 1) = h + 1 + i
        BY <3>1, <3>2, <3>3
      <4> QED BY <3>1, <3>3, <4>1, <4>2
    <3>4. a <= h + Len(q.yields)
      BY <1>0, <3>2 DEF Queued
    <3>5. /\ h + 1 + Len(s.batch) + Len(s.yields) = h + Len(q.yields)
          /\ h + Len(q.batch) + Len(q.yields) = h + Len(q.yields)
      <4>1. Len(s.batch) + 1 = Len(q.yields)
        BY <3>1
      <4>2. h + 1 + Len(s.batch) = h + Len(q.yields)
        BY <3>2, <4>1, Sums
      <4>3. h + 1 + Len(s.batch) + 0 = h + 1 + Len(s.batch) /\ h + 0 = h
        BY <3>2, Sums
      <4> QED BY <3>2, <4>2, <4>3, Sums
    <3>6. a <= h + 1 + Len(s.batch) + Len(s.yields)
      BY <3>4, <3>5
    <3>7. Total(s, h) = Total(q, h)
      BY <1>0, <2>2, <3>5 DEF Total
    <3>8. Queued(s, h, a)
      BY <2>1, <2>2, <3>2, <3>3, <3>6 DEF Queued
    <3> QED BY <2>2, <3>7, <3>8
  <2> QED BY <1>2, <2>3, <2>4 DEF Yields
<1>3. CASE EndsLoop(s, q)
  <2>1. s.gen = "ended" /\ s.done /\ s.promise # "value"
    BY <1>3 DEF EndsLoop
  <2>2. Queued(s, h, a)
    BY <1>0, <2>1 DEF Queued, Given
  <2>3. ASSUME ~q.done PROVE h = a /\ Total(q, h) > a
    <3>1. ~Empty(q) /\ First(q) \notin Messages
      BY <1>3, <2>3 DEF EndsLoop
    <3>2. h = a
      BY <3>1, QueuedFirst
    <3>3. Len(q.batch) \in Nat /\ Len(q.yields) \in Nat
      BY QueueTypes
    <3>4. Len(q.batch) # 0 \/ Len(q.yields) # 0
      BY <3>1, QueueTypes DEF Empty
    <3>5. h + Len(q.batch) + Len(q.yields) > h
      BY <3>3, <3>4, Sums
    <3> QED BY <1>0, <3>2, <3>5 DEF Total
  <2> QED BY <2>1, <2>2, <2>3
<1> QED BY <1>1, <1>2, <1>3 DEF LoopsTo

LEMMA PushedMessage ==
  ASSUME NEW q \in Iterator, AtRest(q), NEW h \in Nat, NEW a \in 0 .. MaxMsgs,
         a < MaxMsgs, Queued(q, h, a), q.gen = "ended" \/ (~q.done /\ Total(q, h) = a)
  PROVE  /\ Queued(Push(q, a + 1), h, a + 1)
         /\ q.gen # "ended" => Total(Push(q, a + 1), h) = a + 1
<1>0. a \in Nat /\ a + 1 \in Messages /\ a + 1 \in Entry /\ Given(q, h) \in Nat
  BY MaxMsgsAssumption DEF Messages, Entry, Given
<1>1. PICK s : s = Push(q, a + 1)
  OBVIOUS
<1>2. /\ s \in Iterator /\ s.gen = q.gen /\ s.batch = q.batch /\ s.promise = q.promise
      /\ s.value = q.value
      /\ s.yields = IF q.done THEN q.yields ELSE Append(q.yields, a + 1)
  BY <1>0, <1>1, PushEffect
<1>3. Given(s, h) = Given(q, h)
  BY <1>2 DEF Given
<1>4. CASE q.gen = "ended"
  BY <1>0, <1>1, <1>2, <1>3, <1>4 DEF Queued
<1>5. CASE q.gen # "ended" /\ ~q.done /\ Total(q, h) = a
  <2>1. /\ Len(q.batch) \in Nat /\ Len(q.yields) \in Nat
        /\ a = Given(q, h) + Len(q.batch) + Len(q.yields)
        /\ DOMAIN q.batch = 1 .. Len(q.batch) /\ DOMAIN q.yields = 1 .. Len(q.yields)
    BY <1>5, QueueTypes DEF Total
  <2>2. /\ Len(s.yields) = Len(q.yields) + 1 /\ DOMAIN s.yields = 1 .. Len(q.yields) + 1
        /\ \A i \in 1 .. Len(q.yields) : s.yields[i] = q.yields[i]
        /\ s.yields[Len(q.yields) + 1] = a + 1
    BY <1>0, <1>2, <1>5, QueueTypes, AppendProperties
  <2>3. ASSUME NEW i \in DOMAIN s.batch
        PROVE  Given(q, h) + i <= a + 1 /\ s.batch[i] = Given(q, h) + i
    <3>1. i \in 1 .. Len(q.batch)
      BY <1>2, <2>1, <2>3
    <3>2. Given(q, h) + i <= a
      BY <1>0, <2>1, <3>1
    <3> QED BY <1>0, <1>2, <1>5, <2>1, <3>1, <3>2 DEF Queued
  <2>4. ASSUME NEW i \in DOMAIN s.yields
        PROVE  /\ Given(q, h) + Len(q.batch) + i <= a + 1
               /\ s.yields[i] = Given(q, h) + Len(q.batch) + i
    <3>1. CASE i \in 1 .. Len(q.yields)
      <4>1. Given(q, h) + Len(q.batch) + i <= a
        BY <1>0, <2>1, <3>1
      <4>2. q.yields[i] = Given(q, h) + Len(q.batch) + i
        BY <1>5, <2>1, <3>1, <4>1 DEF Queued
      <4>3. Given(q, h) + Len(q.batch) + i <= a + 1
        BY <1>0, <2>1, <3>1, <4>1
      <4> QED BY <2>2, <3>1, <4>2, <4>3
    <3>2. CASE i = Len(q.yields) + 1
      <4>1. Given(q, h) + Len(q.batch) + i = a + 1
        BY <1>0, <2>1, <3>2
      <4>2. s.yields[i] = a + 1
        BY <2>2, <3>2
      <4> QED BY <1>0, <4>1, <4>2
    <3> QED BY <2>1, <2>2, <2>4, <3>1, <3>2
  <2>5. Given(s, h) + Len(s.batch) + Len(s.yields) = a + 1
    BY <1>0, <1>2, <1>3, <2>1, <2>2
  <2>6. (q.promise = "value" => q.value = h + 1) /\ Given(q, h) <= a
    BY DEF Queued
  <2>7. Queued(s, h, a + 1)
    BY <1>0, <1>2, <1>3, <1>5, <2>3, <2>4, <2>5, <2>6 DEF Queued
  <2> QED BY <1>1, <2>5, <2>7 DEF Total
<1> QED BY <1>4, <1>5

LEMMA PushedFunction ==
  ASSUME NEW q \in Iterator, AtRest(q), NEW h \in Nat, NEW a \in 0 .. MaxMsgs,
         Queued(q, h, a), NEW v \in {StopFn, FailFn}
  PROVE  Queued(Push(q, v), h, a)
<1>0. a \in Nat /\ v \notin Messages /\ v \in Entry /\ Given(q, h) \in Nat
  BY MaxMsgsAssumption DEF Messages, Entry, Given, StopFn, FailFn
<1>1. PICK s : s = Push(q, v)
  OBVIOUS
<1>2. /\ s \in Iterator /\ s.gen = q.gen /\ s.batch = q.batch /\ s.promise = q.promise
      /\ s.value = q.value
      /\ s.yields = IF q.done THEN q.yields ELSE Append(q.yields, v)
  BY <1>0, <1>1, PushEffect
<1>3. Given(s, h) = Given(q, h)
  BY <1>2 DEF Given
<1>4. CASE q.gen = "ended" \/ q.done
  BY <1>1, <1>2, <1>3, <1>4 DEF Queued
<1>5. CASE q.gen # "ended" /\ ~q.done
  <2>1. /\ Len(q.batch) \in Nat /\ Len(q.yields) \in Nat
        /\ a <= Given(q, h) + Len(q.batch) + Len(q.yields)
        /\ DOMAIN q.yields = 1 .. Len(q.yields)
    BY <1>5, QueueTypes DEF Queued
  <2>2. /\ Len(s.yields) = Len(q.yields) + 1 /\ DOMAIN s.yields = 1 .. Len(q.yields) + 1
        /\ \A i \in 1 .. Len(q.yields) : s.yields[i] = q.yields[i]
        /\ s.yields[Len(q.yields) + 1] = v
    BY <1>0, <1>2, <1>5, QueueTypes, AppendProperties
  <2>3. ASSUME NEW i \in DOMAIN s.yields
        PROVE  LET n == Given(q, h) + Len(q.batch) + i
               IN  IF n <= a THEN s.yields[i] = n ELSE s.yields[i] \notin Messages
    <3>1. CASE i \in 1 .. Len(q.yields)
      BY <1>5, <2>1, <2>2, <3>1 DEF Queued
    <3>2. CASE i = Len(q.yields) + 1
      BY <1>0, <2>1, <2>2, <3>2
    <3> QED BY <2>1, <2>2, <2>3, <3>1, <3>2
  <2>4. a <= Given(s, h) + Len(s.batch) + Len(s.yields)
    BY <1>0, <1>2, <1>3, <2>1, <2>2
  <2>5. Queued(s, h, a)
    BY <1>2, <1>3, <1>5, <2>3, <2>4 DEF Queued
  <2> QED BY <1>1, <2>5
<1> QED BY <1>4, <1>5

\* Stopping, returning and receiving leave the queue as it is.
LEMMA SameQueue ==
  ASSUME NEW q, NEW s, NEW h, NEW a, Queued(q, h, a),
         s.promise = q.promise, s.value = q.value,
         s.gen = "ended" \/ (q.gen # "ended" /\ s.batch = q.batch /\ s.yields = q.yields)
  PROVE  Queued(s, h, a) /\ (s.gen # "ended" => Total(s, h) = Total(q, h))
<1>1. Given(s, h) = Given(q, h)
  BY DEF Given
<1> QED BY <1>1 DEF Queued, Total

LEMMA ReceivedQueue ==
  ASSUME NEW q \in Iterator, AtRest(q), q.promise = "value", NEW h \in Nat, NEW a,
         Queued(q, h, a)
  PROVE  LET s == [q EXCEPT !.promise = "none"]
         IN  /\ s \in Iterator /\ AtRest(s) /\ Queued(s, h + 1, a)
             /\ Total(s, h + 1) = Total(q, h)
             /\ s.gen = q.gen /\ s.done = q.done /\ s.promise = "none"
             /\ s.return = q.return /\ s.batch = q.batch
<1>1. PICK s : s = [q EXCEPT !.promise = "none"]
  OBVIOUS
<1>2. /\ s \in Iterator /\ s.promise = "none" /\ s.gen = q.gen /\ s.done = q.done
      /\ s.return = q.return /\ s.batch = q.batch /\ s.yields = q.yields
      /\ s.failed = q.failed /\ s.didBreak = q.didBreak
  BY <1>1 DEF Iterator
<1>3. AtRest(s)
  BY <1>2 DEF AtRest, Consistent
<1>4. Given(s, h + 1) = Given(q, h)
  BY <1>2 DEF Given
<1>5. Queued(s, h + 1, a) /\ Total(s, h + 1) = Total(q, h)
  BY <1>2, <1>4 DEF Queued, Total
<1> QED BY <1>1, <1>2, <1>3, <1>5
=============================================================================
