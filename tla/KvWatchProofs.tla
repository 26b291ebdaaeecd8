---------------------------- MODULE KvWatchProofs ----------------------------
(***************************************************************************)
(* Proofs about KvWatch, for every set of clients and keys, every choice   *)
(* of operations, and all bounds.                                          *)
(***************************************************************************)
EXTENDS KvWatch, KvBucketProofs

\* The watcher knows every key whose last message lies after n, up to m.
Shown(n, m) ==
  \A k \in Keys : n < entry[k].rev /\ entry[k].rev <= m /\ entry[k].op \in Reported
                    => view[k] = entry[k].rev

\* A run has shown what it has passed.  So had the run that emitted the last
\* entry, which is what a stream that resumes after it relies on, and those
\* before the stream was made, which is what another run of it relies on.
Followed ==
  /\ watch.cursor <= seq /\ Shown(watch.from, watch.cursor)
  /\ event.rev <= seq /\ Shown(event.from, event.rev)
  /\ watch.options.resume > 0 => /\ watch.options.resume - 1 <= seq
                                 /\ Shown(watch.from, watch.options.resume - 1)

WatchInv == WatchTypeOK /\ BucketInv /\ Numbered(entry) /\ Followed

LEMMA WatchTypes ==
  ASSUME WatchTypeOK
  PROVE  /\ BucketTypeOK /\ seq \in Nat /\ seq \in Revision
         /\ watch.cursor \in Nat /\ watch.from \in Nat
         /\ watch.options \in Options /\ watch.options.resume \in Nat
         /\ watch.runs \in 0 .. MaxRuns /\ watch.firstEntry \in BOOLEAN
         /\ watch.on \in BOOLEAN
         /\ event.rev \in Revision /\ event.from \in Revision
         /\ watch.from \in Revision /\ watch.cursor \in Revision
         /\ \A k \in Keys : /\ entry[k].rev \in Nat /\ entry[k].rev \in Revision
                            /\ entry[k] \in Entry
<1>1. Revision \subseteq Nat
  BY MaxRevAssumption DEF Revision
<1>2. \A k \in Keys : entry[k] \in Entry
  BY DEF WatchTypeOK, BucketTypeOK
<1>3. watch.options.resume \in Revision
  BY DEF WatchTypeOK, Options
<1> QED BY <1>1, <1>2, <1>3, EntryType DEF WatchTypeOK, BucketTypeOK

LEMMA WatchInitInv == WatchInit => WatchInv
<1> SUFFICES ASSUME WatchInit PROVE WatchInv
  OBVIOUS
<1>1. BucketInv
  BY InitTypes, InitWarranted DEF WatchInit, BucketInv
<1>2. 0 \in Revision
  BY MaxRevAssumption DEF Revision
<1>3. NoWatch.options \in Options
  BY <1>2 DEF NoWatch, Options
<1>4. WatchTypeOK
  BY <1>1, <1>2, <1>3, MaxRunsAssumption
     DEF BucketInv, WatchInit, WatchTypeOK, NoWatch, NoEvent
<1>5. \A k \in Keys : entry[k].rev = 0
  BY DEF WatchInit, Init, Nothing
<1>6. Numbered(entry) /\ Followed
  BY <1>5 DEF WatchInit, Init, Numbered, Followed, Shown, NoWatch, NoEvent
<1> QED BY <1>1, <1>4, <1>6 DEF WatchInv

\* What the server does leaves what the watcher was shown, or lies beyond it.
LEMMA ServerFollowed ==
  ASSUME WatchInv, BucketNext, UNCHANGED watchVars
  PROVE  Followed'
<1>0. BucketTypeOK /\ seq \in Nat /\ \A k \in Keys : entry[k].rev \in Nat
  BY WatchTypes DEF WatchInv
<1>1. /\ seq' \in Nat /\ seq <= seq'
      /\ \A k \in Keys : \/ entry'[k] = entry[k]
                         \/ entry'[k] = Nothing
                         \/ entry'[k].rev = seq + 1 /\ seq' = seq + 1
  BY <1>0, ServerSteps
<1>2. ASSUME NEW n \in Nat, NEW m \in Nat, m <= seq, Shown(n, m)
      PROVE  Shown(n, m)'
  BY <1>0, <1>1, <1>2 DEF Shown, Nothing, watchVars
<1>3. watch' = watch /\ event' = event
  BY DEF watchVars
<1>4. /\ watch.cursor \in Nat /\ watch.from \in Nat /\ watch.options.resume \in Nat
      /\ event.rev \in Nat /\ event.from \in Nat
  BY WatchTypes, MaxRevAssumption DEF WatchInv, Revision
<1>5. watch.cursor <= seq' /\ Shown(watch.from, watch.cursor)'
  BY <1>0, <1>1, <1>2, <1>3, <1>4 DEF WatchInv, Followed
<1>6. event.rev <= seq' /\ Shown(event.from, event.rev)'
  BY <1>0, <1>1, <1>2, <1>3, <1>4 DEF WatchInv, Followed
<1>7. ASSUME watch.options.resume > 0
      PROVE  /\ watch.options.resume - 1 <= seq'
             /\ Shown(watch.from, watch.options.resume - 1)'
  <2>1. watch.options.resume - 1 \in Nat
    BY <1>4, <1>7
  <2> QED BY <1>0, <1>1, <1>2, <1>3, <1>4, <1>7, <2>1 DEF WatchInv, Followed
<1> QED BY <1>3, <1>5, <1>6, <1>7 DEF Followed

\* A run that starts.
LEMMA RunFollowed ==
  ASSUME WatchInv, UNCHANGED vars, NEW o \in Options, NEW flag \in BOOLEAN,
         NEW shown \in Revision, Run(o, flag, shown),
         o.resume > 0 => o.resume - 1 <= seq /\ Shown(shown, o.resume - 1)
  PROVE  WatchTypeOK' /\ Followed'
<1>0. /\ seq \in Nat /\ seq \in Revision /\ 0 \in Revision /\ o.resume \in Nat
      /\ watch.runs \in 0 .. MaxRuns
      /\ \A k \in Keys : entry[k].rev \in Nat
  BY WatchTypes, MaxRevAssumption DEF WatchInv, Options, Revision
<1>a. PICK from : from = IF o.resume > 0 THEN shown
                         ELSE IF o.include = "updatesOnly" THEN seq ELSE 0
  OBVIOUS
<1>b. PICK start : start = StartsAt(o)
  OBVIOUS
<1>1. /\ watch.runs < MaxRuns
      /\ watch' = [on |-> TRUE, runs |-> watch.runs + 1, firstEntry |-> flag,
                   cursor |-> start, start |-> seq, options |-> o, from |-> from]
      /\ UNCHANGED <<event, view>>
  BY <1>a, <1>b DEF Run
<1>2. start \in Revision /\ start \in Nat /\ start <= seq
  <2>1. CASE o.resume > 0
    BY <1>0, <1>b, <2>1, MaxRevAssumption DEF StartsAt, Options, Revision
  <2>2. CASE ~ (o.resume > 0)
    BY <1>0, <1>b, <2>2 DEF StartsAt
  <2> QED BY <2>1, <2>2
<1>3. from \in Revision
  BY <1>0, <1>a
<1>4. Shown(from, start)
  <2>1. CASE o.resume > 0
    BY <1>a, <1>b, <2>1 DEF StartsAt
  <2>2. CASE ~ (o.resume > 0)
    BY <1>0, <1>a, <1>b, <2>2 DEF StartsAt, Shown
  <2> QED BY <2>1, <2>2
<1>5. o.resume > 0 => o.resume - 1 <= seq /\ Shown(from, o.resume - 1)
  BY <1>a
<1>6. watch.runs + 1 \in 0 .. MaxRuns
  BY <1>0, <1>1, MaxRunsAssumption
<1>7. BucketTypeOK'
  BY DEF WatchInv, WatchTypeOK, BucketTypeOK, vars, serverVars, histVars
<1>8. WatchTypeOK'
  BY <1>0, <1>1, <1>2, <1>3, <1>6, <1>7 DEF WatchInv, WatchTypeOK
<1>9. \A n, m : Shown(n, m) => Shown(n, m)'
  BY <1>1 DEF Shown, vars, serverVars
<1>10. seq' = seq /\ event' = event
  BY <1>1 DEF vars, serverVars
<1>11. /\ watch'.cursor = start /\ watch'.from = from /\ watch'.options = o
  BY <1>1
<1>12. Shown(event.from, event.rev)'
  <2>1. PICK n, m : n = event.from /\ m = event.rev
    OBVIOUS
  <2> QED BY <1>9, <1>10, <2>1 DEF WatchInv, Followed
<1> QED BY <1>2, <1>4, <1>5, <1>8, <1>9, <1>10, <1>11, <1>12 DEF WatchInv, Followed

\* What is delivered is the next message of the bucket, and the key is shown if
\* the callback does not pass over it.
LEMMA DeliverFollowed ==
  ASSUME WatchInv, UNCHANGED vars, WatchDeliver
  PROVE  WatchTypeOK' /\ Followed'
<1>0. /\ seq \in Nat /\ watch.cursor \in Nat /\ watch.from \in Nat
      /\ watch.from \in Revision
      /\ watch.options.resume \in Nat /\ event.rev \in Nat /\ event.from \in Nat
      /\ \A k \in Keys : entry[k].rev \in Nat /\ entry[k].rev \in Revision
  BY WatchTypes, MaxRevAssumption DEF WatchInv, Revision
<1>1. PICK k \in After(watch.cursor) :
        /\ \A j \in After(watch.cursor) : entry[k].rev <= entry[j].rev
        /\ \/ Ignored(entry[k]) /\ UNCHANGED <<event, view>>
           \/ ~Ignored(entry[k]) /\ Emit(k)
        /\ watch' = [watch EXCEPT !.cursor = entry[k].rev,
                                  !.firstEntry = @ /\ Ignored(entry[k])]
  BY DEF WatchDeliver
<1>2. k \in Keys /\ entry[k].rev > watch.cursor
  BY <1>1 DEF After
<1>3. /\ watch'.cursor = entry[k].rev /\ watch'.from = watch.from
      /\ watch'.options = watch.options
      /\ watch' \in [on : BOOLEAN, runs : 0 .. MaxRuns, firstEntry : BOOLEAN,
                     cursor : Revision, start : Revision, from : Revision,
                     options : Options]
  <2>1. (watch.firstEntry /\ Ignored(entry[k])) \in BOOLEAN
    BY WatchTypes DEF WatchInv
  <2> QED BY <1>0, <1>1, <1>2, <2>1 DEF WatchInv, WatchTypeOK
<1>4. IsUpdate \in BOOLEAN
  BY DEF IsUpdate
<1>5. /\ view' \in [Keys -> Revision]
      /\ \A j \in Keys : \/ view'[j] = view[j]
                         \/ j = k /\ view'[k] = entry[k].rev
      /\ entry[k].op \in Reported => view'[k] = entry[k].rev
      /\ \/ event' = event
         \/ event' = [rev |-> entry[k].rev, isUpdate |-> IsUpdate, from |-> watch.from]
  <2>0. view \in [Keys -> Revision]
    BY DEF WatchInv, WatchTypeOK
  <2>1. CASE Ignored(entry[k]) /\ UNCHANGED <<event, view>>
    BY <2>0, <2>1 DEF Ignored, Reported
  <2>2. CASE Emit(k)
    BY <1>0, <1>2, <2>0, <2>2 DEF Emit
  <2> QED BY <1>1, <2>1, <2>2
<1>6. BucketTypeOK'
  BY DEF WatchInv, WatchTypeOK, BucketTypeOK, vars, serverVars, histVars
<1>7. WatchTypeOK'
  <2>1. event' \in [rev : Revision, isUpdate : BOOLEAN, from : Revision]
    BY <1>0, <1>2, <1>4, <1>5 DEF WatchInv, WatchTypeOK
  <2> QED BY <1>3, <1>5, <1>6, <2>1 DEF WatchTypeOK
<1>8. seq' = seq /\ entry' = entry /\ entry[k].rev <= seq
  BY <1>2 DEF vars, serverVars, WatchInv, BucketInv, Warranted
<1>9. \A n, m : Shown(n, m) => Shown(n, m)'
  <2>1. \A j \in Keys : view'[j] = view[j] \/ view'[j] = entry[j].rev
    BY <1>5
  <2> QED BY <1>8, <2>1 DEF Shown
<1>10. PICK from, upto : from = watch.from /\ upto = entry[k].rev
  OBVIOUS
<1>11. Shown(from, upto)'
  <2>1. ASSUME NEW j \in Keys, watch.from < entry[j].rev, entry[j].rev <= entry[k].rev,
               entry[j].op \in Reported
        PROVE  view'[j] = entry[j].rev
    <3>1. CASE entry[j].rev <= watch.cursor
      <4>1. view[j] = entry[j].rev
        BY <2>1, <3>1 DEF WatchInv, Followed, Shown
      <4> QED BY <1>5, <4>1
    <3>2. CASE entry[j].rev > watch.cursor
      <4>1. j \in After(watch.cursor)
        BY <3>2 DEF After
      <4>2. entry[j].rev = entry[k].rev /\ entry[k].rev # 0
        BY <1>0, <1>1, <1>2, <2>1, <4>1
      <4>3. j = k
        BY <1>2, <4>2 DEF WatchInv, Numbered
      <4> QED BY <1>5, <2>1, <4>3
    <3> QED BY <1>0, <3>1, <3>2
  <2> QED BY <1>8, <1>10, <2>1 DEF Shown
<1>12. event'.rev <= seq' /\ Shown(event.from, event.rev)'
  <2>1. CASE event' = event
    <3>1. PICK n, m : n = event.from /\ m = event.rev
      OBVIOUS
    <3> QED BY <1>8, <1>9, <2>1, <3>1 DEF WatchInv, Followed
  <2>2. CASE event' = [rev |-> entry[k].rev, isUpdate |-> IsUpdate, from |-> watch.from]
    <3>1. event'.rev = upto /\ event'.from = from
      BY <1>10, <2>2
    <3> QED BY <1>8, <1>10, <1>11, <3>1
  <2> QED BY <1>5, <2>1, <2>2
<1>13. watch.options.resume > 0 => /\ watch'.options.resume - 1 <= seq'
                                   /\ Shown(watch.from, watch.options.resume - 1)'
  <2>1. PICK m : m = watch.options.resume - 1
    OBVIOUS
  <2> QED BY <1>3, <1>8, <1>9, <1>10, <2>1 DEF WatchInv, Followed
<1> QED BY <1>3, <1>7, <1>8, <1>10, <1>11, <1>12, <1>13 DEF Followed

\* A run of a watch has shown all it has passed, and so had those before it that
\* it goes on from (makeBucket.watch, streamFromQueuedIterator).
THEOREM WatchInvariance == WatchSpec => []WatchInv
<1>1. WatchInit => WatchInv
  BY WatchInitInv
<1>2. WatchInv /\ [WatchNext]_<<vars, watchVars>> => WatchInv'
  <2> SUFFICES ASSUME WatchInv, [WatchNext]_<<vars, watchVars>> PROVE WatchInv'
    OBVIOUS
  <2>0. [BucketNext]_vars
    BY DEF WatchNext
  <2>1. BucketInv' /\ Numbered(entry)' /\ BucketTypeOK'
    BY <2>0, NextType, NextCoherent, NextWarranted, NumberedStays DEF WatchInv, BucketInv
  <2>2. CASE BucketNext /\ UNCHANGED watchVars
    <3>1. WatchTypeOK'
      BY <2>1, <2>2 DEF WatchInv, WatchTypeOK, watchVars
    <3> QED BY <2>1, <2>2, <3>1, ServerFollowed DEF WatchInv
  <2>3. ASSUME WatchStep, UNCHANGED vars PROVE WatchInv'
    <3>2. ASSUME NEW o \in Options, o.resume \in Resumable, Run(o, TRUE, event.from)
          PROVE  WatchTypeOK' /\ Followed'
      <4>1. event.rev \in Nat /\ event.from \in Revision /\ o.resume \in Nat
        BY WatchTypes, MaxRevAssumption DEF WatchInv, Options, Revision
      <4>2. ASSUME o.resume > 0 PROVE o.resume - 1 <= seq /\ Shown(event.from, o.resume - 1)
        <5>1. o.resume - 1 = event.rev
          BY <3>2, <4>1, <4>2 DEF Resumable
        <5> QED BY <5>1 DEF WatchInv, Followed
      <4> QED BY <2>3, <3>2, <4>1, <4>2, RunFollowed
    <3>3. ASSUME WatchAgain PROVE WatchTypeOK' /\ Followed'
      <4>1. Run(watch.options, watch.firstEntry, watch.from)
        BY <3>3 DEF WatchAgain
      <4>2. watch.options \in Options /\ watch.firstEntry \in BOOLEAN /\ watch.from \in Revision
        BY WatchTypes DEF WatchInv
      <4>3. watch.options.resume > 0 => /\ watch.options.resume - 1 <= seq
                                        /\ Shown(watch.from, watch.options.resume - 1)
        BY DEF WatchInv, Followed
      <4> QED BY <2>3, <4>1, <4>2, <4>3, RunFollowed
    <3>4. ASSUME WatchStop PROVE WatchTypeOK' /\ Followed'
      <4>1. /\ watch' = [watch EXCEPT !.on = FALSE] /\ event' = event /\ view' = view
            /\ entry' = entry /\ seq' = seq
        BY <2>3, <3>4 DEF WatchStop, vars, serverVars
      <4>2. /\ watch'.cursor = watch.cursor /\ watch'.from = watch.from
            /\ watch'.options = watch.options
        BY <4>1 DEF WatchInv, WatchTypeOK
      <4>3. WatchTypeOK'
        BY <2>1, <4>1 DEF WatchInv, WatchTypeOK
      <4>4. \A n, m : Shown(n, m) => Shown(n, m)'
        BY <4>1 DEF Shown
      <4>5. Shown(watch.from, watch.cursor)' /\ Shown(event.from, event.rev)'
        BY <4>1, <4>2 DEF Shown, WatchInv, Followed
      <4>6. Followed'
        BY <4>1, <4>2, <4>5 DEF WatchInv, Followed, Shown
      <4> QED BY <4>3, <4>6
    <3> QED BY <2>1, <2>3, <3>2, <3>3, <3>4, DeliverFollowed
            DEF WatchStep, WatchStart, WatchInv
  <2>4. CASE UNCHANGED <<vars, watchVars>>
    <3>1. WatchTypeOK' /\ Followed'
      BY <2>1, <2>4 DEF WatchInv, WatchTypeOK, Followed, Shown, vars, serverVars, watchVars
    <3> QED BY <2>1, <3>1 DEF WatchInv
  <2> QED BY <2>2, <2>3, <2>4 DEF WatchNext
<1> QED BY <1>1, <1>2, PTL DEF WatchSpec

\* The watcher's state, its last event and its view are what they should be
\* (makeBucket.watch).
THEOREM WatchTypeCorrect == WatchSpec => []WatchTypeOK
BY WatchInvariance, PTL DEF WatchInv

\* A watcher that has been told all there is knows the last value of every key
\* written since its watch began, across all the runs it resumed
\* (makeBucket.watch, translateWatchOptions).
THEOREM NothingMissed == WatchSpec => []ViewCurrent
<1>1. WatchInv => ViewCurrent
  <2> SUFFICES ASSUME WatchInv, After(watch.cursor) = {}, NEW k \in Keys,
                      entry[k].rev > watch.from, entry[k].op \in Reported
               PROVE  view[k] = entry[k].rev
    BY DEF ViewCurrent
  <2>1. entry[k].rev \in Nat /\ watch.cursor \in Nat /\ watch.from \in Nat
    BY WatchTypes DEF WatchInv
  <2>2. entry[k].rev <= watch.cursor
    BY <2>1 DEF After
  <2> QED BY <2>1, <2>2 DEF WatchInv, Followed, Shown
<1> QED BY <1>1, WatchInvariance, PTL

\* The bucket's guarantees hold with a watcher beside it, which only reads.
THEOREM WatchIsABucket == WatchSpec => BucketSpec
<1>1. WatchInit => Init
  BY DEF WatchInit
<1>2. [WatchNext]_<<vars, watchVars>> => [BucketNext]_vars
  BY DEF WatchNext
<1> QED BY <1>1, <1>2, PTL DEF WatchSpec, BucketSpec
=============================================================================
