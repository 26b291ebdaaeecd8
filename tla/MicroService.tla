---------------------------- MODULE MicroService ----------------------------
(***************************************************************************)
(* A service of NatsMicro.  Each endpoint is an SDK subscription whose     *)
(* callback pushes requests into a queued iterator, and a fiber that pulls *)
(* them out and runs the handler on up to `concurrency` of them at a time. *)
(* Results are taken in the order of the requests, so a slow handler holds *)
(* back the pulling once the window is full.                               *)
(*                                                                         *)
(* The SDK's service couples the endpoints: when one iterator is closed,   *)
(* or a subscription ends, the whole service stops, drains every           *)
(* subscription, and each drained subscription stops its iterator.  The    *)
(* scope of the service ends it from the other side: it interrupts the     *)
(* fibers, last endpoint first, and then stops the service.                *)
(***************************************************************************)
EXTENDS QueuedIterator, FiniteSets

CONSTANTS NumEndpoints,  \* endpoints of the service
          Concurrency,   \* Concurrency[e]: Endpoint.concurrency
          Requests,      \* Requests[e]: bound, the requests an endpoint gets
          Outcomes,      \* Outcomes[e]: what its handler may do with a request
          Ends           \* what may end the service from outside

Endpoints == 1 .. NumEndpoints

\* reply: it succeeds with a payload; void: it succeeds without one; error: it
\* fails with an EndpointError; garbled: with one whose description no header
\* can hold; defect: its effect fails otherwise; throws: no effect is returned.
AllOutcomes == {"reply", "void", "error", "garbled", "defect", "throws"}
AllEnds     == {"scope", "caller", "connection", "subscription"}

ASSUME NumEndpointsAssumption == NumEndpoints \in Nat \ {0}
ASSUME ConcurrencyAssumption == Concurrency \in [Endpoints -> Nat \ {0}]
ASSUME RequestsAssumption == Requests \in [Endpoints -> 0 .. MaxMsgs]
ASSUME OutcomesAssumption == Outcomes \in [Endpoints -> SUBSET AllOutcomes]
ASSUME EndsAssumption == Ends \subseteq AllEnds

Answers == {"reply", "error", "internal error"}

VARIABLES
  iter,      \* iter[e]: the iterator of an endpoint
  sub,       \* sub[e]: its subscription
  fiber,     \* fiber[e]: the fiber that serves it
  window,    \* window[e]: requests handed to the handler, oldest first
  arrived,   \* arrived[e]: requests the subscription has delivered
  fate,      \* fate[e][n]: what became of a request
  answers,   \* answers[e][n]: answers that were sent to a request
  errors,    \* errorCounts
  cause,     \* what made the service stop; "none" while _stopped is false
  done,      \* the promise _done is resolved
  conn,      \* the connection
  scope      \* the scope the service was made in

serviceVars == <<sub, cause, done>>
workVars    == <<fiber, window, fate, answers, errors>>
vars == <<iter, serviceVars, workVars, arrived, conn, scope>>

Init ==
  /\ iter = [e \in Endpoints |-> NewIterator]
  /\ sub = [e \in Endpoints |-> "open"]
  /\ fiber = [e \in Endpoints |-> "serving"]
  /\ window = [e \in Endpoints |-> << >>]
  /\ arrived = [e \in Endpoints |-> 0]
  /\ fate = [e \in Endpoints |-> [n \in Messages |-> "unseen"]]
  /\ answers = [e \in Endpoints |-> [n \in Messages |-> << >>]]
  /\ errors = [e \in Endpoints |-> 0]
  /\ cause = "none"
  /\ done = FALSE
  /\ conn = "open"
  /\ scope = "open"

Stopped == cause # "none"

-----------------------------------------------------------------------------
(* The SDK's service *)

\* close(): only the first call counts; every subscription that is still open
\* is drained.
CloseService(why) ==
  /\ cause' = why
  /\ sub' = [e \in Endpoints |-> IF sub[e] = "open" THEN "draining" ELSE sub[e]]

\* A request is delivered; those on their way when the subscription is drained
\* still come.
Arrive(e) ==
  /\ sub[e] \in {"open", "draining"}
  /\ arrived[e] < Requests[e]
  /\ arrived' = [arrived EXCEPT ![e] = @ + 1]
  /\ iter' = [iter EXCEPT ![e] = Push(@, arrived[e] + 1)]
  /\ UNCHANGED <<serviceVars, workVars, conn, scope>>

\* Variant: the end of one endpoint is its own affair.
IteratorClosedAlone(e) ==
  /\ iter[e].done
  /\ ~Stopped
  /\ cause' = "iterator"
  /\ sub' = [sub EXCEPT ![e] = IF @ = "open" THEN "draining" ELSE @]
  /\ UNCHANGED <<iter, done, workVars, arrived, conn, scope>>

\* An endpoint whose iterator was closed ends the service.
IteratorClosed(e) ==
  /\ iter[e].done
  /\ ~Stopped
  /\ CloseService("iterator")
  /\ UNCHANGED <<iter, done, workVars, arrived, conn, scope>>

\* The server has answered the drain, or the connection is gone: either way
\* the subscription is cancelled and its closing stops the iterator.
DrainEnds(e) ==
  /\ sub[e] = "draining"
  /\ sub' = [sub EXCEPT ![e] = "closed"]
  /\ iter' = [iter EXCEPT ![e] = Stop(@, FALSE)]
  /\ UNCHANGED <<cause, done, workVars, arrived, conn, scope>>

\* Variant: waits for all drains to succeed, which that of a subscription that
\* was closed before does not.
SettleAll ==
  /\ Stopped
  /\ cause # "subscription"
  /\ \A e \in Endpoints : sub[e] # "draining"
  /\ ~done
  /\ done' = TRUE
  /\ UNCHANGED <<iter, sub, cause, workVars, arrived, conn, scope>>

\* Every drain has succeeded or failed.
Settle ==
  /\ Stopped
  /\ \A e \in Endpoints : sub[e] # "draining"
  /\ ~done
  /\ done' = TRUE
  /\ UNCHANGED <<iter, sub, cause, workVars, arrived, conn, scope>>

\* The server refuses a subscription: the service stops with that error, and
\* the iterator of this endpoint is not stopped.
SubscriptionFails(e) ==
  /\ "subscription" \in Ends
  /\ sub[e] = "open"
  /\ cause' = "subscription"
  /\ sub' = [f \in Endpoints |-> IF f = e THEN "closed" ELSE "draining"]
  /\ UNCHANGED <<iter, done, workVars, arrived, conn, scope>>

\* Somebody stops the service through RunningService.service.
CallerStops ==
  /\ "caller" \in Ends
  /\ ~Stopped
  /\ CloseService("caller")
  /\ UNCHANGED <<iter, done, workVars, arrived, conn, scope>>

\* The connection is closed under the service.
ConnectionCloses ==
  /\ "connection" \in Ends
  /\ conn = "open"
  /\ conn' = "closed"
  /\ sub' = [e \in Endpoints |-> "closed"]
  /\ iter' = [e \in Endpoints |-> IF sub[e] = "closed" THEN iter[e]
                                  ELSE Stop(iter[e], FALSE)]
  /\ cause' = IF Stopped THEN cause ELSE "connection"
  /\ UNCHANGED <<done, workVars, arrived, scope>>

-----------------------------------------------------------------------------
(* The fiber of an endpoint *)

Serving(e) == fiber[e] = "serving"

\* Variant: one request too many.
PullOneMore(e) ==
  /\ Serving(e)
  /\ iter[e].promise = "none"
  /\ Len(window[e]) <= Concurrency[e]
  /\ \A n \in Messages : fate[e][n] # "thrown"
  /\ iter' = [iter EXCEPT ![e] = CallNext(@)]
  /\ UNCHANGED <<serviceVars, workVars, arrived, conn, scope>>

\* The next element is asked for while the window has room, and never again
\* once pulling has failed.
Pull(e) ==
  /\ Serving(e)
  /\ iter[e].promise = "none"
  /\ Len(window[e]) < Concurrency[e]
  /\ \A n \in Messages : fate[e][n] # "thrown"
  /\ iter' = [iter EXCEPT ![e] = CallNext(@)]
  /\ UNCHANGED <<serviceVars, workVars, arrived, conn, scope>>

GeneratorWakes(e) ==
  /\ CanWake(iter[e])
  /\ iter' = [iter EXCEPT ![e] = Wake(@)]
  /\ UNCHANGED <<serviceVars, workVars, arrived, conn, scope>>

\* The handler is called with the request: it returns an effect, which runs
\* from now on, or it throws.
Take(e) ==
  /\ Serving(e)
  /\ iter[e].promise = "value"
  /\ \E f \in {"running"} \cup (IF "throws" \in Outcomes[e] THEN {"thrown"} ELSE {}) :
       fate' = [fate EXCEPT ![e][iter[e].value] = f]
  /\ window' = [window EXCEPT ![e] = Append(@, iter[e].value)]
  /\ iter' = [iter EXCEPT ![e].promise = "none"]
  /\ UNCHANGED <<serviceVars, fiber, answers, errors, arrived, conn, scope>>

\* Variant: an answer that cannot be sent is not replaced.
SentAsIs(how) ==
  CASE how = "reply" -> <<"reply">>
    [] how = "error" -> <<"error">>
    [] how \in {"void", "garbled"} -> << >>
    [] how = "defect" -> <<"internal error">>

\* The answer that a request gets in the end.
Sent(how) ==
  CASE how = "reply" -> <<"reply">>
    [] how = "void"  -> << >>
    [] how = "error" -> <<"error">>
    [] how \in {"garbled", "defect"} -> <<"internal error">>

\* Variant: only the errors a handler declares are counted.
CountedWhenDeclared(how) == IF how \in {"error", "garbled"} THEN 1 ELSE 0

\* countError() is called before the answer; an answer that throws is a defect
\* like another and counted once more.
Counted(how) ==
  CASE how \in {"reply", "void"} -> 0
    [] how \in {"error", "defect"} -> 1
    [] how = "garbled" -> 2

\* What is published on a closed connection goes nowhere.
Answer(e, n, how) ==
  /\ answers' = IF conn = "open" THEN [answers EXCEPT ![e][n] = @ \o Sent(how)]
                ELSE answers
  /\ errors' = [errors EXCEPT ![e] = @ + Counted(how)]

\* An iterator that was stopped and returned; nobody looks at it any more.
Abandoned == [NewIterator EXCEPT !.gen = "ended", !.done = TRUE, !.didBreak = TRUE]

\* The fiber ends: the handlers that still run are interrupted, without an
\* answer, and the iterator is stopped and returned.
FiberEnds(e, how) ==
  /\ fiber' = [fiber EXCEPT ![e] = how]
  /\ window' = [window EXCEPT ![e] = << >>]
  /\ fate' = [fate EXCEPT ![e] = [n \in Messages |->
                IF @[n] = "running" THEN "cut" ELSE @[n]]]
  /\ iter' = [iter EXCEPT ![e] = Abandoned]
  /\ UNCHANGED <<answers, errors>>

\* Variant: only the errors a handler declares are caught.
HandlerEndsUncaught(e, n, how) ==
  /\ fate[e][n] = "running"
  /\ IF how = "defect" THEN FiberEnds(e, "crashed")
     ELSE /\ fate' = [fate EXCEPT ![e][n] = how]
          /\ Answer(e, n, how)
          /\ UNCHANGED <<iter, fiber, window>>
  /\ UNCHANGED <<serviceVars, arrived, conn, scope>>

HandlerEnds(e, n, how) ==
  /\ fate[e][n] = "running"
  /\ fate' = [fate EXCEPT ![e][n] = how]
  /\ Answer(e, n, how)
  /\ UNCHANGED <<iter, serviceVars, fiber, window, arrived, conn, scope>>

\* The result of the oldest request is taken.
Retire(e) ==
  /\ Serving(e)
  /\ window[e] # << >>
  /\ fate[e][Head(window[e])] \in AllOutcomes
  /\ window' = [window EXCEPT ![e] = Tail(@)]
  /\ UNCHANGED <<iter, serviceVars, fiber, fate, answers, errors, arrived, conn,
                 scope>>

\* Nothing catches what the handler throws: the stream fails when it is the
\* turn of that request.
Crash(e) ==
  /\ Serving(e)
  /\ window[e] # << >>
  /\ fate[e][Head(window[e])] = "thrown"
  /\ FiberEnds(e, "crashed")
  /\ UNCHANGED <<serviceVars, arrived, conn, scope>>

\* The iterator has ended and every result was taken.
StreamEnds(e) ==
  /\ Serving(e)
  /\ iter[e].promise = "done"
  /\ window[e] = << >>
  /\ FiberEnds(e, "ended")
  /\ UNCHANGED <<serviceVars, arrived, conn, scope>>

-----------------------------------------------------------------------------
(* The scope *)

CloseScope ==
  /\ "scope" \in Ends
  /\ scope = "open"
  /\ scope' = "closing"
  /\ UNCHANGED <<iter, serviceVars, workVars, arrived, conn>>

\* Finalizers run in the reverse of the order in which they were added.
Interrupt(e) ==
  /\ scope = "closing"
  /\ Serving(e)
  /\ \A f \in Endpoints : Serving(f) => f <= e
  /\ FiberEnds(e, "cut")
  /\ UNCHANGED <<serviceVars, arrived, conn, scope>>

FibersEnded == \A e \in Endpoints : ~Serving(e)

Release ==
  /\ scope = "closing"
  /\ FibersEnded
  /\ ~Stopped
  /\ CloseService("scope")
  /\ UNCHANGED <<iter, done, workVars, arrived, conn, scope>>

\* Variant: the release does not wait for the service to be done.
ScopeClosedEarly ==
  /\ scope = "closing"
  /\ FibersEnded
  /\ Stopped
  /\ scope' = "closed"
  /\ UNCHANGED <<iter, serviceVars, workVars, arrived, conn>>

\* stop() resolves when _done does.
ScopeClosed ==
  /\ scope = "closing"
  /\ FibersEnded
  /\ done
  /\ scope' = "closed"
  /\ UNCHANGED <<iter, serviceVars, workVars, arrived, conn>>

-----------------------------------------------------------------------------
\* What the service, its fibers and the connection do by themselves.
Proceed ==
  \/ \E e \in Endpoints :
       \/ IteratorClosed(e) \/ DrainEnds(e)
       \/ Pull(e) \/ GeneratorWakes(e) \/ Take(e) \/ Retire(e)
       \/ \E n \in Messages, how \in Outcomes[e] \ {"throws"} :
            HandlerEnds(e, n, how)
       \/ Crash(e) \/ StreamEnds(e) \/ Interrupt(e)
  \/ Settle \/ Release \/ ScopeClosed

\* What happens to it.
Happen ==
  \/ \E e \in Endpoints : Arrive(e) \/ SubscriptionFails(e)
  \/ CallerStops \/ ConnectionCloses \/ CloseScope

Next == Proceed \/ Happen

Spec == Init /\ [][Next]_vars

\* Promises settle, fibers continue, a drain is answered, and handlers end.
\* Nothing makes a request come or the service end.  No step repeats, so it is
\* enough that something goes on while anything can.
Fairness == WF_vars(Proceed)

FairSpec == Spec /\ Fairness

-----------------------------------------------------------------------------
(* What must hold *)

Fates == {"unseen", "running", "thrown", "cut"} \cup (AllOutcomes \ {"throws"})

ServiceTypeOK ==
  /\ iter \in [Endpoints -> Iterator]
  /\ sub \in [Endpoints -> {"open", "draining", "closed"}]
  /\ fiber \in [Endpoints -> {"serving", "crashed", "ended", "cut"}]
  /\ window \in [Endpoints -> Seq(Messages)]
  /\ \A e \in Endpoints : Len(window[e]) <= Concurrency[e]
  /\ arrived \in [Endpoints -> 0 .. MaxMsgs]
  /\ fate \in [Endpoints -> [Messages -> Fates]]
  /\ answers \in [Endpoints -> [Messages -> Seq(Answers)]]
  /\ errors \in [Endpoints -> Nat]
  /\ cause \in AllEnds \cup {"none", "iterator"}
  /\ done \in BOOLEAN
  /\ conn \in {"open", "closed"}
  /\ scope \in {"open", "closing", "closed"}

\* While the scope is open only a handler that throws, and no other failure of
\* a handler or of an answer, makes the service stop by itself (handleOne).
FailuresContained ==
  cause = "iterator" /\ scope = "open"
    => \E e \in Endpoints, n \in Messages : fate[e][n] = "thrown"

Ended(e, outcomes) == {n \in Messages : fate[e][n] \in outcomes}

Failed(e) == Ended(e, {"error", "garbled", "defect"})

\* The errors an endpoint reports are the requests that failed, whether or not
\* their answers could be sent, and one more for each error answer that had to
\* be replaced, over all the handlers that run at a time (handleOne, patchStats).
ErrorsCounted ==
  \A e \in Endpoints :
    errors[e] = Cardinality(Failed(e)) + Cardinality(Ended(e, {"garbled"}))

\* Every request that is delivered is answered, or was meant to have no answer,
\* unless the service comes to its end meanwhile (runEndpoint).
Settled(e, n) == \/ fate[e][n] = "void"
                 \/ fate[e][n] \in AllOutcomes /\ answers[e][n] # << >>

EveryRequestSettled ==
  []<>\/ \A e \in Endpoints, n \in Messages : arrived[e] >= n => Settled(e, n)
      \/ Stopped \/ scope # "open"
      \/ \E e \in Endpoints, n \in Messages : fate[e][n] = "thrown"

\* A service does not live on with an endpoint that nobody serves: when one
\* fiber is gone every subscription is given up and the caller of stopped
\* learns it (_addEndpoint, close).
NoHalfService ==
  (\E e \in Endpoints : ~Serving(e))
    ~> done /\ \A e \in Endpoints : sub[e] = "closed"

\* Closing the scope ends, whatever the endpoints are doing and whichever of
\* the two sides stopped the service first (release).
ScopeCloses == scope = "closing" ~> scope = "closed"

\* After that nothing is subscribed and no handler runs (make, release).
NothingLeftRunning ==
  scope = "closed" => \A e \in Endpoints : /\ sub[e] = "closed"
                                           /\ \A n \in Messages : fate[e][n] # "running"
=============================================================================
