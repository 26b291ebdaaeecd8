---------------------------- MODULE StreamAdapter ----------------------------
(***************************************************************************)
(* streamFromQueuedIterator: one run of the stream that every long-lived   *)
(* flow of the library is built from.  An SDK source pushes into a queued  *)
(* iterator; a fiber pulls from it with next(); and when the run ends, for *)
(* whatever reason, the scopes are closed, whose finalizers are            *)
(*   "return"   iter.return(), added by Stream.fromAsyncIterable, and      *)
(*   "release"  onRelease, added by acquireRelease.                        *)
(* Which comes first depends on how the run ends: a pull that fails or is  *)
(* interrupted closes the scope of acquireRelease at once, while an end    *)
(* downstream closes the scope of the whole run in reverse order.          *)
(*                                                                         *)
(* A step is what happens between two suspensions of the event loop, so a  *)
(* value that next() resolved and the fiber that awaits it are two steps.  *)
(***************************************************************************)
EXTENDS QueuedIterator

CONSTANTS Kinds,  \* what onRelease does, by the source the stream is made from
          Cuts    \* the ways a run may be ended from outside

\* Core subscriptions drain, JetStream's consume and fetch close, and the
\* others (watches, services, request-many) only stop the iterator.
ASSUME KindsAssumption == Kinds \subseteq {"drain", "close", "stop"}
ASSUME CutsAssumption ==
         Cuts \subseteq {"acquiring", "pulling", "between", "prefetching"}

Finalizers == {"return", "release"}

VARIABLES
  kind,      \* which of Kinds this run is
  iter,      \* the queued iterator
  source,    \* the SDK's side: "open", "ended" or "failed"
  interest,  \* whether the server still sends to this subscription
  arrived,   \* messages the source has pushed
  handed,    \* messages handed downstream, in order
  phase,     \* "acquiring", "running", "closing" or "closed"
  outcome,   \* how the run ended
  pending,   \* finalizers still to run, in order
  busy       \* whether the first of them has been started

sourceVars == <<source, arrived>>
scopeVars  == <<kind, phase, outcome, pending, busy>>
vars == <<iter, interest, handed, sourceVars, scopeVars>>

Init ==
  /\ kind \in Kinds
  /\ iter = NewIterator
  /\ source = "open"
  /\ interest = FALSE
  /\ arrived = 0
  /\ handed = << >>
  /\ phase = "acquiring"
  /\ outcome = "none"
  /\ pending = << >>
  /\ busy = FALSE

\* The iterator moves on to q; once it is closed its subscription is dropped.
IterBecomes(q) == iter' = q /\ interest' = (interest /\ ~q.done)

-----------------------------------------------------------------------------
(* The source *)

Releasing == busy /\ Head(pending) = "release"

\* A message for the subscription; those on their way when it was drained
\* still arrive.
Arrive ==
  /\ source = "open"
  /\ interest \/ (kind = "drain" /\ Releasing)
  /\ arrived < MaxMsgs
  /\ arrived' = arrived + 1
  /\ IterBecomes(Push(iter, arrived + 1))
  /\ UNCHANGED <<source, handed, scopeVars>>

\* Variant: the source stops the iterator instead of queueing the stop.
SourceEndsAbruptly ==
  /\ source = "open"
  /\ interest
  /\ source' = "ended"
  /\ IterBecomes(Stop(iter, FALSE))
  /\ UNCHANGED <<arrived, handed, scopeVars>>

\* A bounded flow is complete: max was reached, the fetch was answered.
SourceEnds ==
  /\ source = "open"
  /\ interest
  /\ source' = "ended"
  /\ IterBecomes(Push(iter, StopFn))
  /\ UNCHANGED <<arrived, handed, scopeVars>>

\* The server refuses the subscription or the consumer fails.  A subscription
\* stops its iterator at once, the others queue the error; a JetStream
\* consumer also unsubscribes at once.
SourceFails ==
  /\ source = "open"
  /\ interest
  /\ source' = "failed"
  /\ iter' = IF kind = "drain" THEN Stop(iter, TRUE) ELSE Push(iter, FailFn)
  /\ interest' = (kind = "stop" /\ ~iter'.done)
  /\ UNCHANGED <<arrived, handed, scopeVars>>

-----------------------------------------------------------------------------
(* The run *)

\* Variant: the scopes are forgotten.
CloseScopesIgnored(how, fins) ==
  /\ phase' = "closing"
  /\ outcome' = how
  /\ pending' = SelectSeq(fins, LAMBDA f : f \notin Finalizers)
  /\ busy' = FALSE
  /\ UNCHANGED kind

CloseScopes(how, fins) ==
  /\ phase' = "closing"
  /\ outcome' = how
  /\ pending' = fins
  /\ busy' = FALSE
  /\ UNCHANGED kind

Acquire ==
  /\ phase = "acquiring"
  /\ phase' = "running"
  /\ interest' = TRUE
  /\ UNCHANGED <<kind, iter, handed, sourceVars, outcome, pending, busy>>

\* Acquisition is not interruptible, so an interruption that falls into it
\* takes effect when the resource and its finalizer are there.  Only consume
\* and fetch await a promise here.
AcquireInterrupted ==
  /\ "acquiring" \in Cuts
  /\ kind = "close"
  /\ phase = "acquiring"
  /\ interest' = TRUE
  /\ CloseScopes("cut", <<"release">>)
  /\ UNCHANGED <<iter, handed, sourceVars>>

\* The fiber asks for the next element.
Pull ==
  /\ phase = "running"
  /\ iter.promise = "none"
  /\ IterBecomes(CallNext(iter))
  /\ UNCHANGED <<handed, sourceVars, scopeVars>>

\* The generator continues after its signal was resolved.
GeneratorWakes ==
  /\ CanWake(iter)
  /\ IterBecomes(Wake(iter))
  /\ UNCHANGED <<handed, sourceVars, scopeVars>>

\* Behind mapEffect with concurrency the pulling fiber lives on until the
\* scope of that stage is closed, after the ones modelled here.
Pulling == phase = "running" \/ (phase = "closing" /\ outcome = "prefetched")

\* The fiber continues with the value of next().
Receive ==
  /\ Pulling
  /\ iter.promise = "value"
  /\ handed' = Append(handed, iter.value)
  /\ iter' = [iter EXCEPT !.promise = "none"]
  /\ UNCHANGED <<interest, sourceVars, scopeVars>>

Finish ==
  /\ phase = "running"
  /\ iter.promise = "done"
  /\ CloseScopes("ended", <<"return", "release">>)
  /\ UNCHANGED <<iter, interest, handed, sourceVars>>

Fail ==
  /\ phase = "running"
  /\ iter.promise = "error"
  /\ CloseScopes("failed", <<"release", "return">>)
  /\ UNCHANGED <<iter, interest, handed, sourceVars>>

\* The consumer has had enough, or fails, while it holds an element.
CutBetween ==
  /\ "between" \in Cuts
  /\ phase = "running"
  /\ iter.promise = "none"
  /\ handed # << >>
  /\ CloseScopes("cut", <<"return", "release">>)
  /\ UNCHANGED <<iter, interest, handed, sourceVars>>

\* The fiber is interrupted while it awaits next(), or is about to continue.
CutPulling ==
  /\ "pulling" \in Cuts
  /\ phase = "running"
  /\ iter.promise # "none"
  /\ CloseScopes("cut", <<"release", "return">>)
  /\ UNCHANGED <<iter, interest, handed, sourceVars>>

\* The consumer has had enough while another fiber already pulls ahead.
CutPrefetching ==
  /\ "prefetching" \in Cuts
  /\ phase = "running"
  /\ iter.promise \in {"pending", "value"}
  /\ handed # << >>
  /\ CloseScopes("prefetched", <<"return", "release">>)
  /\ UNCHANGED <<iter, interest, handed, sourceVars>>

-----------------------------------------------------------------------------
(* The finalizers, one after the other *)

\* What onRelease does before it first waits.
BeginRelease ==
  CASE kind = "drain" -> iter' = iter /\ interest' = FALSE
    [] kind = "close" -> iter' = Push(iter, StopFn) /\ interest' = FALSE
    [] kind = "stop"  -> iter' = Stop(iter, FALSE) /\ interest' = FALSE

BeginFinalizer ==
  /\ phase = "closing"
  /\ pending # << >>
  /\ ~busy
  /\ busy' = TRUE
  /\ IF Head(pending) = "return" THEN IterBecomes(Return(iter)) ELSE BeginRelease
  /\ UNCHANGED <<handed, sourceVars, kind, phase, outcome, pending>>

FinalizerDone == pending' = Tail(pending) /\ busy' = FALSE

Returned ==
  /\ busy
  /\ Head(pending) = "return"
  /\ iter.gen = "ended"
  /\ FinalizerDone
  /\ UNCHANGED <<iter, interest, handed, sourceVars, kind, phase, outcome>>

\* close() waits for iterClosed; a plain stop waits for nothing.
Released ==
  /\ Releasing
  /\ kind \in {"close", "stop"}
  /\ iter.done
  /\ FinalizerDone
  /\ UNCHANGED <<iter, interest, handed, sourceVars, kind, phase, outcome>>

\* drain() waits for the server, but no longer than its timeout.  Both ways
\* the subscription is taken off the connection, which queues its stop.
DrainEnds ==
  /\ Releasing
  /\ kind = "drain"
  /\ FinalizerDone
  /\ IterBecomes(Push(iter, StopFn))
  /\ UNCHANGED <<handed, sourceVars, kind, phase, outcome>>

Close ==
  /\ phase = "closing"
  /\ pending = << >>
  /\ phase' = "closed"
  /\ UNCHANGED <<iter, interest, handed, sourceVars, kind, outcome, pending, busy>>

-----------------------------------------------------------------------------
Next ==
  \/ Arrive \/ SourceEnds \/ SourceFails
  \/ Acquire \/ AcquireInterrupted
  \/ Pull \/ GeneratorWakes \/ Receive \/ Finish \/ Fail
  \/ CutBetween \/ CutPulling \/ CutPrefetching
  \/ BeginFinalizer \/ Returned \/ Released \/ DrainEnds \/ Close

Spec == Init /\ [][Next]_vars

\* Promises are settled, fibers continue, the consumer keeps pulling and the
\* drain timer fires.  Nothing makes a message arrive.
Fairness ==
  /\ WF_vars(Acquire) /\ WF_vars(Pull) /\ WF_vars(GeneratorWakes)
  /\ WF_vars(Receive) /\ WF_vars(Finish) /\ WF_vars(Fail)
  /\ WF_vars(BeginFinalizer) /\ WF_vars(Returned)
  /\ WF_vars(Released) /\ WF_vars(DrainEnds) /\ WF_vars(Close)

FairSpec == Spec /\ Fairness

-----------------------------------------------------------------------------
(* What must hold *)

TypeOK ==
  /\ kind \in Kinds
  /\ iter \in Iterator
  /\ source \in {"open", "ended", "failed"}
  /\ interest \in BOOLEAN
  /\ arrived \in 0 .. MaxMsgs
  /\ handed \in Seq(Messages)
  /\ phase \in {"acquiring", "running", "closing", "closed"}
  /\ outcome \in {"none", "ended", "failed", "cut", "prefetched"}
  /\ pending \in Seq(Finalizers)
  /\ busy \in BOOLEAN

\* The consumer sees what the source pushed, in that order, without a gap and
\* without a repetition, whatever batches it was taken in and however the
\* stop, the error and the return interleave with it (iterate).
HandedInOrder == \A i \in DOMAIN handed : handed[i] = i

\* A run that ends by itself because its source was complete has handed out
\* every message the source pushed (iterate, stop).
EndIsComplete ==
  outcome = "ended" /\ source = "ended" => Len(handed) = arrived

\* When the run is over nothing is left behind: the server sends no more, and
\* the iterator accepts no more (streamFromQueuedIterator).
NothingLeftOpen == phase = "closed" => ~interest /\ iter.done

\* The two ways a finalizer may wait for what nobody has to do: return()
\* behind a next() of an iterator that runs, which only a message answers, and
\* close() for a reader that is gone before it reached the stop in the queue.
AwaitsMessage == /\ busy
                 /\ Head(pending) = "return"
                 /\ iter.gen = "waiting"
                 /\ ~iter.done
AwaitsReader  == Releasing /\ kind = "close" /\ ~iter.done

\* Closing ends, or waits for ever in one of these two ways: no other source,
\* cut or race leaves a scope open (releaseSubscription, fromAsyncIterable).
ReleaseCompletes ==
  phase = "closing" ~> phase = "closed" \/ [](AwaitsMessage \/ AwaitsReader)

\* No wakeup is lost: a consumer that keeps pulling gets every message that
\* was pushed, at whatever moment it was pushed (push, iterate).
NoLostWakeup ==
  \A n \in Messages : arrived >= n /\ phase = "running"
                      ~> Len(handed) >= n \/ phase # "running"

\* The design: the finalizer of a JetStream stream calls close(), which
\* resolves after what is in flight was handed over.
CloseResolves == kind = "close" /\ Releasing ~> ~Releasing
=============================================================================
