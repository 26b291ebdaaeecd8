------------------------------- MODULE KvWatch -------------------------------
(***************************************************************************)
(* A watch on a bucket that others write to.  Kv.watch returns a stream;   *)
(* every run of it is a consumer of its own, which first delivers what the *)
(* bucket has (the catch-up) and then each write.  A watcher that was cut  *)
(* may ask for a stream that continues with the revision after the last    *)
(* one it saw.  A watch keeps a flag of whether it has emitted anything,   *)
(* from which it derives isUpdate; the flag belongs to the stream, not to  *)
(* one run of it.                                                          *)
(***************************************************************************)
EXTENDS KvBucket

CONSTANTS IgnoreDeletes,  \* WatchOptions.ignoreDeletes
          MaxRuns         \* bound: runs of watch streams

ASSUME IgnoreDeletesAssumption == IgnoreDeletes \in BOOLEAN
ASSUME MaxRunsAssumption == MaxRuns \in Nat

Options == [include : {"lastValue", "updatesOnly"}, resume : Revision]
NoWatch == [on |-> FALSE, runs |-> 0, firstEntry |-> TRUE, cursor |-> 0,
            start |-> 0, from |-> 0,
            options |-> [include |-> "lastValue", resume |-> 0]]
NoEvent == [rev |-> 0, isUpdate |-> FALSE, from |-> 0]

VARIABLES
  watch,  \* the watch: its options and flag, the run's place in the bucket, and
          \* as history where the run began and since when nothing was skipped
  event,  \* the last entry emitted, and as history the from of its run
  view    \* view[k]: the revision of the last entry emitted for a key

watchVars == <<watch, event, view>>

WatchInit == Init /\ watch = NoWatch /\ event = NoEvent /\ view = [k \in Keys |-> 0]

\* Variants: the consumer starts behind the revision to resume from; a
\* revision of 0 is resumed from as well.
StartsBehind(o) == IF o.resume > 0 THEN o.resume
                   ELSE IF o.include = "updatesOnly" THEN seq ELSE 0

StartsUnchecked(o) == IF o.include = "updatesOnly" THEN seq ELSE o.resume - 1

\* The consumer of a run delivers what lies beyond this revision.
StartsAt(o) == IF o.resume > 0 THEN o.resume - 1
               ELSE IF o.include = "updatesOnly" THEN seq ELSE 0

\* A run of a stream; one that resumes goes on from what was shown before.
Run(o, flag, shown) ==
  /\ ~watch.on /\ watch.runs < MaxRuns
  /\ watch' = [on |-> TRUE, runs |-> watch.runs + 1, firstEntry |-> flag,
               cursor |-> StartsAt(o), start |-> seq, options |-> o,
               from |-> IF o.resume > 0 THEN shown
                        ELSE IF o.include = "updatesOnly" THEN seq ELSE 0]
  /\ UNCHANGED <<event, view>>

\* Where a watcher that was cut may go on: after what it saw last.
Resumable == {0} \cup {n \in Revision : event.rev > 0 /\ n = event.rev + 1}

\* A new stream; another run of the same stream.
WatchStart == \E o \in Options : o.resume \in Resumable /\ Run(o, TRUE, event.from)
WatchAgain == watch.runs > 0 /\ Run(watch.options, watch.firstEntry, watch.from)

\* Entries the SDK's callback does not push.
Ignored(e) == IgnoreDeletes /\ e.op = "DEL"

IsUpdate == watch.options.include = "updatesOnly" \/ ~watch.firstEntry

Emit(k) == /\ event' = [rev |-> entry[k].rev, isUpdate |-> IsUpdate,
                         from |-> watch.from]
           /\ view' = [view EXCEPT ![k] = entry[k].rev]

WatchDeliver ==
  /\ watch.on
  /\ \E k \in After(watch.cursor) :
       /\ \A j \in After(watch.cursor) : entry[k].rev <= entry[j].rev
       /\ \/ Ignored(entry[k])  /\ UNCHANGED <<event, view>>
          \/ ~Ignored(entry[k]) /\ Emit(k)
       /\ watch' = [watch EXCEPT !.cursor = entry[k].rev,
                                 !.firstEntry = @ /\ Ignored(entry[k])]

\* The scope of a run closes.
WatchStop == watch.on /\ watch' = [watch EXCEPT !.on = FALSE] /\ UNCHANGED <<event, view>>

WatchStep == WatchStart \/ WatchAgain \/ WatchDeliver \/ WatchStop

WatchNext == \/ BucketNext /\ UNCHANGED watchVars
             \/ WatchStep /\ UNCHANGED vars

WatchSpec == WatchInit /\ [][WatchNext]_<<vars, watchVars>>

-----------------------------------------------------------------------------
WatchTypeOK ==
  /\ BucketTypeOK
  /\ watch \in [on : BOOLEAN, runs : 0 .. MaxRuns, firstEntry : BOOLEAN,
                cursor : Revision, start : Revision, from : Revision,
                options : Options]
  /\ event \in [rev : Revision, isUpdate : BOOLEAN, from : Revision]
  /\ view \in [Keys -> Revision]

Reported == IF IgnoreDeletes THEN {"PUT", "PURGE"} ELSE Writes

\* A watcher that has been told everything there is has the last value of every
\* key written since its watch began, across any number of runs it resumed,
\* and knows of every purge even if it asked to ignore deletes (makeBucket.watch,
\* translateWatchOptions).
ViewCurrent ==
  watch.on /\ After(watch.cursor) = {} =>
    \A k \in Keys : entry[k].rev > watch.from /\ entry[k].op \in Reported
                    => view[k] = entry[k].rev

\* The design: isUpdate is false during the catch-up (KvEntry.isUpdate).
IsUpdateTruthful ==
  [][event' # event /\ event'.isUpdate => event'.rev > watch.start]_<<vars, watchVars>>
=============================================================================
