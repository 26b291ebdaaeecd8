--------------------------- MODULE QueuedIterator ---------------------------
(***************************************************************************)
(* The SDK's QueuedIteratorImpl: a buffer that callbacks push into and an  *)
(* async generator that hands the buffer out, one element per next().      *)
(* Between two suspensions the generator runs without interruption, so     *)
(* each operation is a function from one state of the iterator to the      *)
(* next.  The generator suspends at two places: at `await this.signal`     *)
(* ("waiting") and at `yield` ("paused").                                  *)
(*                                                                         *)
(* The buffer holds messages and callback functions; of the functions only *)
(* the two that matter here are told apart, the one that stops the         *)
(* iterator and the one that stops it with an error.                       *)
(***************************************************************************)
EXTENDS Naturals, Sequences

CONSTANT MaxMsgs        \* bound: messages one source pushes

ASSUME MaxMsgsAssumption == MaxMsgs \in Nat \ {0}

Messages == 1 .. MaxMsgs
StopFn   == 0
FailFn   == MaxMsgs + 1
Entry    == Messages \cup {StopFn, FailFn}

\* The state of an iterator.  promise is what became of the last next().
Iterator ==
  [gen      : {"fresh", "waiting", "paused", "ended"},
   batch    : Seq(Entry),    \* entries the loop is walking through
   yields   : Seq(Entry),    \* entries pushed since
   signal   : BOOLEAN,       \* whether the promise waited for is resolved
   done     : BOOLEAN,       \* stopped; iterClosed is resolved
   failed   : BOOLEAN,       \* stopped with an error
   didBreak : BOOLEAN,
   return   : BOOLEAN,       \* a return() is queued behind a pending next()
   promise  : {"none", "pending", "value", "done", "error"},
   value    : Messages \cup {0}]

NewIterator ==
  [gen |-> "fresh", batch |-> << >>, yields |-> << >>, signal |-> FALSE,
   done |-> FALSE, failed |-> FALSE, didBreak |-> FALSE, return |-> FALSE,
   promise |-> "none", value |-> 0]

\* Variant: stop() does not resolve the signal.
StopSilently(q, withError) ==
  IF q.done THEN q ELSE [q EXCEPT !.done = TRUE, !.failed = withError]

Stop(q, withError) ==
  IF q.done THEN q
  ELSE [q EXCEPT !.done = TRUE, !.failed = withError, !.signal = TRUE]

RunFn(q, fn) == Stop(q, fn = FailFn)

\* Once the loop was left, functions run at once and messages are dropped.
Push(q, v) ==
  CASE q.done -> q
    [] ~q.done /\ q.didBreak  -> IF v \in Messages THEN q ELSE RunFn(q, v)
    [] ~q.done /\ ~q.didBreak ->
         [q EXCEPT !.yields = Append(@, v), !.signal = TRUE]

\* The generator's finally block, whichever way the loop is left.
Leave(q, result) ==
  [Stop(q, FALSE) EXCEPT !.gen = "ended", !.didBreak = TRUE,
                         !.batch = << >>, !.promise = result]

-----------------------------------------------------------------------------
(* The loop *)

\* Variant: the batch is taken and yet stays queued.
TakeBatchKeeping(q) == [q EXCEPT !.batch = q.yields]

TakeBatch(q) == [q EXCEPT !.batch = q.yields, !.yields = << >>]

\* Variant: functions are yielded like messages.
WalkUnfiltered(q) ==
  IF q.batch = << >> THEN [q EXCEPT !.gen = "running"]
  ELSE [q EXCEPT !.gen = "paused", !.promise = "value",
                 !.value = Head(q.batch), !.batch = Tail(@)]

\* The place of the first message in a batch, or the one past its end.
FirstMessage(s) ==
  LET at == {i \in DOMAIN s : s[i] \in Messages}
  IN  IF at = {} THEN Len(s) + 1 ELSE CHOOSE i \in at : \A j \in at : i <= j

\* Walks through the batch: functions are run, the first message is yielded.
\* A batch that holds none leaves gen at "running".
Walk(q) ==
  LET fst == FirstMessage(q.batch)
      r   == IF fst = 1 THEN q ELSE RunFn(q, Head(q.batch))
  IN  IF fst > 1 /\ r.failed THEN Leave(r, "error")
      ELSE IF fst > Len(q.batch) THEN [r EXCEPT !.gen = "running", !.batch = << >>]
      ELSE [r EXCEPT !.gen = "paused", !.promise = "value",
                     !.value = q.batch[fst],
                     !.batch = SubSeq(q.batch, fst + 1, Len(q.batch))]

\* Variant: the signal is renewed although more was pushed meanwhile.
NextBatchRenewing(r) ==
  IF r.done THEN Leave(r, "done")
  ELSE [r EXCEPT !.gen = "waiting", !.signal = FALSE]

\* At the end of a batch.
NextBatch(r) ==
  CASE r.done -> Leave(r, "done")
    [] ~r.done /\ r.yields = << >> -> [r EXCEPT !.gen = "waiting",
                                               !.signal = FALSE]
    [] ~r.done /\ r.yields # << >> -> Walk(TakeBatch(r))

\* Nothing is pushed while the loop runs, so two turns reach a suspension.
Loop(q) ==
  LET r == Walk(q)
      s == IF r.gen = "running" THEN NextBatch(r) ELSE r
  IN  IF s.gen = "running" THEN NextBatch(s) ELSE s

\* The top of the loop, past the wait.
Turn(q) == IF q.failed THEN Leave(q, "error") ELSE Loop(TakeBatch(q))

-----------------------------------------------------------------------------
(* What the outside calls and what the event loop does *)

\* next(), called only when the previous call was answered.
CallNext(q) ==
  LET p == [q EXCEPT !.promise = "pending"]
  IN  CASE q.gen = "ended"  -> [q EXCEPT !.promise = "done"]
        [] q.gen = "paused" -> Loop(p)
        [] q.gen = "fresh"  -> IF q.yields = << >>
                               THEN [p EXCEPT !.gen = "waiting"] ELSE Turn(p)

\* The awaited signal is resolved and the generator continues; a return()
\* queued meanwhile takes effect when it suspends at a yield.
CanWake(q) == q.gen = "waiting" /\ q.signal

Wake(q) ==
  LET r == Turn(q)
  IN  IF r.gen = "paused" /\ q.return THEN Leave(r, r.promise) ELSE r

\* return(): on a generator that never started nothing of its body runs, and
\* on one that waits the call waits too.
Return(q) ==
  CASE q.gen = "fresh"   -> [q EXCEPT !.gen = "ended"]
    [] q.gen = "paused"  -> Leave(q, q.promise)
    [] q.gen = "waiting" -> [q EXCEPT !.return = TRUE]
    [] q.gen = "ended"   -> q
=============================================================================
