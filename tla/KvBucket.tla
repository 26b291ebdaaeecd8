------------------------------ MODULE KvBucket ------------------------------
(***************************************************************************)
(* A key-value bucket used by several clients at once.  Every operation of *)
(* NatsKv is one or more requests to the server: put, delete and purge are *)
(* one write, update is one conditional write, and create is a conditional *)
(* write, a read when that is refused, and another conditional write when  *)
(* the read finds a deletion marker.  clear, of the KeyValueStore made     *)
(* from a bucket, lists the keys and purges them while the list is still   *)
(* coming in; the list takes a heartbeat, or the closing of its consumer,  *)
(* for its end.  A request or its answer may be lost, and a request that   *)
(* the client has given up on may still be served.                         *)
(*                                                                         *)
(* The bucket is a stream that keeps the last message of each key, as it   *)
(* is by default.  The server is external: it applies requests one at a    *)
(* time, and a conditional write only if the last revision of the key is   *)
(* the expected one, a key without any message counting as revision 0.     *)
(***************************************************************************)
EXTENDS Naturals, Sequences, FiniteSets

CONSTANTS Clients,   \* fibers or processes that use the bucket
          Keys,      \* keys
          Calls,     \* Calls[c]: the operations a client calls
          MaxRev,    \* bound: revisions the server hands out
          MaxLate,   \* bound: writes given up on and still on their way
          Ttl        \* whether BucketOptions.ttl is set

Ops == {"get", "put", "create", "update", "delete", "purge", "clear"}

ASSUME CallsAssumption == Calls \in [Clients -> SUBSET Ops]
ASSUME MaxRevAssumption == MaxRev \in Nat \ {0}
ASSUME MaxLateAssumption == MaxLate \in Nat
ASSUME TtlAssumption == Ttl \in BOOLEAN

Revision == 0 .. MaxRev
Writes   == {"PUT", "DEL", "PURGE"}

\* An entry, with the client that wrote it.
Stored  == [op : Writes, rev : Revision \ {0}, by : Clients]
Nothing == [op |-> "NONE", rev |-> 0]
Entry   == Stored \cup {Nothing}

\* A request, the operation it is for (how) and the revision this operation was
\* given (seen).  Its client still waits for it, or has given up on it.
Request == [from : Clients, waiting : BOOLEAN, how : Ops, seen : Revision,
            key : Keys, op : Writes \cup {"READ"}, expect : SUBSET Revision]

Answer   == [kind : {"ok", "conflict", "timeout"}, rev : Revision]
              \cup [kind : {"entry"}, op : Writes \cup {"NONE"}, rev : Revision]
NoAnswer == [kind |-> "none"]
TimedOut == [kind |-> "timeout", rev |-> 0]

Steps == {"first", "look", "retake", "list", "purge"}
Call  == [op : Ops, key : Keys, seen : Revision, step : Steps,
          err : {"none", "conflict", "timeout"}]
Idle  == [op |-> "none"]

Outcome   == [op : Ops, key : Keys, rev : Revision,
              kind : {"ok", "absent", "conflict", "timeout"}]
NoOutcome == [op |-> "none", kind |-> "none"]

VARIABLES
  entry,   \* server: the last message of each key
  seq,     \* server: the last revision handed out
  wire,    \* requests on their way
  reply,   \* reply[c]: the answer on its way to a client
  call,    \* call[c]: the operation a client has called
  list,    \* list[c]: the key listing of a clear (cut is history: whether
           \* it ended with something still to deliver)
  result,  \* result[c]: how the client's last call ended
  during,  \* history: entries the key of the call has had since it began
  before   \* history: the revisions of the values that were there when it began

serverVars == <<entry, seq>>
histVars   == <<during, before>>
vars == <<serverVars, wire, reply, call, list, result, histVars>>

Closed == [cursor |-> 0, queue |-> << >>, ended |-> TRUE, cut |-> FALSE]

Init ==
  /\ entry = [k \in Keys |-> Nothing]
  /\ seq = 0
  /\ wire = {}
  /\ reply = [c \in Clients |-> NoAnswer]
  /\ call = [c \in Clients |-> Idle]
  /\ list = [c \in Clients |-> Closed]
  /\ result = [c \in Clients |-> NoOutcome]
  /\ during = [c \in Clients |-> {}]
  /\ before = [c \in Clients |-> {}]

Live(e) == e.op = "PUT"

-----------------------------------------------------------------------------
(* The server *)

ReplyTo(r, a) == IF r.waiting THEN [reply EXCEPT ![r.from] = a] ELSE reply

\* What a call on key k has seen the key go through.
Witnessed(k, e) ==
  during' = [c \in Clients |-> IF call[c] # Idle /\ call[c].key = k
                               THEN during[c] \cup {e} ELSE during[c]]

ServeRead(r) ==
  /\ r.op = "READ"
  /\ reply' = ReplyTo(r, [kind |-> "entry", op |-> entry[r.key].op,
                          rev |-> entry[r.key].rev])
  /\ UNCHANGED <<serverVars, during>>

ServeWrite(r) ==
  LET e == [op |-> r.op, rev |-> seq + 1, by |-> r.from]
  IN  /\ r.op \in Writes
      /\ entry[r.key].rev \in r.expect
      /\ seq < MaxRev
      /\ seq' = seq + 1
      /\ entry' = [entry EXCEPT ![r.key] = e]
      /\ reply' = ReplyTo(r, [kind |-> "ok", rev |-> e.rev])
      /\ Witnessed(r.key, e)

ServeRefusal(r) ==
  /\ r.op \in Writes
  /\ entry[r.key].rev \notin r.expect
  /\ reply' = ReplyTo(r, [kind |-> "conflict", rev |-> 0])
  /\ UNCHANGED <<serverVars, during>>

Serve(r) ==
  /\ wire' = wire \ {r}
  /\ ServeRead(r) \/ ServeWrite(r) \/ ServeRefusal(r)
  /\ UNCHANGED <<call, list, result, before>>

\* The message of a key grows too old.
Expire(k) ==
  /\ Ttl
  /\ entry[k] # Nothing
  /\ entry' = [entry EXCEPT ![k] = Nothing]
  /\ Witnessed(k, Nothing)
  /\ UNCHANGED <<seq, wire, reply, call, list, result, before>>

-----------------------------------------------------------------------------
(* The requests of an operation *)

Ask(c, w, cl, op, expect) ==
  /\ call' = [call EXCEPT ![c] = cl]
  /\ wire' = w \cup {[from |-> c, waiting |-> TRUE, how |-> cl.op,
                      seen |-> cl.seen, key |-> cl.key, op |-> op, expect |-> expect]}
  /\ reply' = [reply EXCEPT ![c] = NoAnswer]

\* What the first request of an operation writes, if it writes.
FirstOp(o) == CASE o \in {"put", "create", "update"} -> "PUT"
                [] o = "get"                        -> "READ"
                [] o = "delete"                     -> "DEL"
                [] o = "purge"                      -> "PURGE"

\* Variant: update is a plain put.
ExpectedAlways(c, o) == IF o = "create" THEN {0} ELSE Revision

\* The revisions the first request accepts the key at.
Expected(c, o) == CASE o = "create" -> {0}
                    [] o = "update" -> {result[c].rev}
                    [] OTHER        -> Revision

\* A client updates only with a revision it got from a get or from a write.
Knows(c, k) ==
  /\ result[c].op \in {"get", "put", "create", "update"}
  /\ result[c].kind = "ok"
  /\ result[c].key = k

Begins(c, k) ==
  /\ call[c] = Idle
  /\ result' = [result EXCEPT ![c] = NoOutcome]
  /\ during' = [during EXCEPT ![c] = {entry[k]}]
  /\ before' = [before EXCEPT ![c] = {entry[j].rev : j \in {j \in Keys : Live(entry[j])}}]

NewCall(c, o, k, s) ==
  [op |-> o, key |-> k, step |-> s, err |-> "none",
   seen |-> IF o = "update" THEN result[c].rev ELSE 0]

Begin(c, o, k) ==
  /\ o \in Calls[c] \ {"clear"}
  /\ o = "update" => Knows(c, k)
  /\ Begins(c, k)
  /\ Ask(c, wire, NewCall(c, o, k, "first"), FirstOp(o), Expected(c, o))
  /\ UNCHANGED <<serverVars, list>>

\* Variant: whatever is found is replaced.
VacantAlways(c, a) == call[c].step = "look" /\ a.kind = "entry" /\ a.rev > 0

\* create's first write was refused or went unanswered, and it looks; what
\* it finds is the marker of a deletion, and it tries once more.
Refused(c, a) == call[c].op = "create" /\ call[c].step = "first" /\ a.kind # "ok"
Vacant(c, a)  == /\ call[c].step = "look"
                 /\ a.kind = "entry"
                 /\ a.op \in {"DEL", "PURGE"}

\* Variants: get does not look at the operation; create takes the value it
\* finds for its own when its first write went unanswered; an answer is handed
\* on as it comes.
EndedUnfiltered(c, a) ==
  [kind |-> IF call[c].step = "look" THEN call[c].err
            ELSE IF a.kind = "entry" THEN (IF a.rev > 0 THEN "ok" ELSE "absent")
            ELSE a.kind,
   rev  |-> a.rev]

EndedOptimistic(c, a) ==
  [kind |-> IF a.kind # "entry" THEN a.kind
            ELSE IF a.op = "PUT" /\ call[c].err # "conflict" THEN "ok"
            ELSE IF call[c].step = "look" THEN call[c].err ELSE "absent",
   rev  |-> a.rev]

EndedRaw(c, a) == [kind |-> a.kind, rev |-> a.rev]

\* How a call ends on an answer that leads to no further request.
Ended(c, a) ==
  IF a.kind # "entry" THEN [kind |-> a.kind, rev |-> a.rev]
  ELSE IF call[c].step = "look" THEN [kind |-> call[c].err, rev |-> 0]
  ELSE IF a.op = "PUT" THEN [kind |-> "ok", rev |-> a.rev]
  ELSE [kind |-> "absent", rev |-> 0]

Return(c, w, x) ==
  /\ call' = [call EXCEPT ![c] = Idle]
  /\ list' = [list EXCEPT ![c] = Closed]
  /\ wire' = w
  /\ reply' = [reply EXCEPT ![c] = NoAnswer]
  /\ result' = [result EXCEPT ![c] = [op |-> call[c].op, key |-> call[c].key,
                                      kind |-> x.kind, rev |-> x.rev]]
  /\ during' = [during EXCEPT ![c] = {}]
  /\ before' = [before EXCEPT ![c] = {}]

\* The client continues with an answer, its requests being those in w.
React(c, a, w) ==
  \/ /\ Refused(c, a)
     /\ Ask(c, w, [call[c] EXCEPT !.step = "look", !.err = a.kind], "READ", Revision)
     /\ UNCHANGED <<list, result, histVars>>
  \/ /\ Vacant(c, a)
     /\ Ask(c, w, [call[c] EXCEPT !.step = "retake"], "PUT", {a.rev})
     /\ UNCHANGED <<list, result, histVars>>
  \/ /\ call[c].step = "purge" /\ a.kind = "ok"
     /\ call' = [call EXCEPT ![c].step = "list"]
     /\ reply' = [reply EXCEPT ![c] = NoAnswer]
     /\ wire' = w
     /\ UNCHANGED <<list, result, histVars>>
  \/ /\ ~Refused(c, a) /\ ~Vacant(c, a)
     /\ call[c].step = "purge" => a.kind # "ok"
     /\ Return(c, w, Ended(c, a))

Receive(c) ==
  /\ reply[c] # NoAnswer
  /\ React(c, reply[c], wire)
  /\ UNCHANGED serverVars

\* No answer in time: the request or the answer is lost, or the write is only
\* late and will be served after all.
Mine(c) == {r \in wire : r.from = c /\ r.waiting}
Late    == {r \in wire : ~r.waiting}

TimesOut(c) ==
  /\ call[c] # Idle /\ call[c].step # "list"
  /\ \/ React(c, TimedOut, wire \ Mine(c))
     \/ /\ \E r \in Mine(c) : r.op \in Writes
        /\ Cardinality(Late) < MaxLate
        /\ React(c, TimedOut, (wire \ Mine(c))
                                \cup {[r EXCEPT !.waiting = FALSE] : r \in Mine(c)})
  /\ UNCHANGED serverVars

-----------------------------------------------------------------------------
(* clear *)

\* The keys whose message a consumer at the given revision has yet to see.
After(n) == {k \in Keys : entry[k].rev > n}

BeginClear(c) ==
  /\ "clear" \in Calls[c]
  /\ \E k \in Keys :
       /\ Begins(c, k)
       /\ call' = [call EXCEPT ![c] = NewCall(c, "clear", k, "list")]
  /\ list' = [list EXCEPT ![c] = [cursor |-> 0, queue |-> << >>,
                                  ended |-> After(0) = {}, cut |-> FALSE]]
  /\ UNCHANGED <<serverVars, wire, reply>>

\* Variant: the list ends with the last key but one.
EndsEarly(n) == Cardinality(After(n)) <= 1

EndsAt(n) == After(n) = {}

\* The list's consumer delivers the next message; markers are passed over.
Listed(c) ==
  /\ ~list[c].ended
  /\ \E k \in After(list[c].cursor) :
       /\ \A j \in After(list[c].cursor) : entry[k].rev <= entry[j].rev
       /\ list' = [list EXCEPT ![c] =
                     [cursor |-> entry[k].rev,
                      queue  |-> IF Live(entry[k]) THEN Append(@.queue, k)
                                 ELSE @.queue,
                      ended  |-> EndsAt(entry[k].rev),
                      cut    |-> FALSE]]
  /\ UNCHANGED <<serverVars, wire, reply, call, result, histVars>>

\* A heartbeat, or the closing of the list's consumer, ends the list, whatever
\* is still to deliver.
ListEnds(c) ==
  /\ ~list[c].ended
  /\ list' = [list EXCEPT ![c].ended = TRUE,
                          ![c].cut = After(list[c].cursor) # {}]
  /\ UNCHANGED <<serverVars, wire, reply, call, result, histVars>>

PurgeNext(c) ==
  /\ call[c] # Idle /\ call[c].step = "list"
  /\ list[c].queue # << >>
  /\ Ask(c, wire, [call[c] EXCEPT !.step = "purge", !.key = Head(list[c].queue)],
         "PURGE", Revision)
  /\ list' = [list EXCEPT ![c].queue = Tail(@)]
  /\ UNCHANGED <<serverVars, result, histVars>>

EndClear(c) ==
  /\ call[c] # Idle /\ call[c].step = "list"
  /\ list[c].queue = << >> /\ list[c].ended
  /\ Return(c, wire, [kind |-> "ok", rev |-> 0])
  /\ UNCHANGED serverVars

-----------------------------------------------------------------------------
ClientStep(c) == \/ \E o \in Ops, k \in Keys : Begin(c, o, k)
                 \/ Receive(c) \/ TimesOut(c)
                 \/ BeginClear(c) \/ Listed(c) \/ ListEnds(c)
                 \/ PurgeNext(c) \/ EndClear(c)

BucketNext == \/ \E r \in wire : Serve(r)
              \/ \E k \in Keys : Expire(k)
              \/ \E c \in Clients : ClientStep(c)

BucketSpec == Init /\ [][BucketNext]_vars

-----------------------------------------------------------------------------
(* What must hold *)

Listing == [cursor : Revision, queue : Seq(Keys), ended : BOOLEAN, cut : BOOLEAN]

BucketTypeOK ==
  /\ entry \in [Keys -> Entry]
  /\ seq \in Revision
  /\ wire \subseteq Request
  /\ reply \in [Clients -> Answer \cup {NoAnswer}]
  /\ call \in [Clients -> Call \cup {Idle}]
  /\ list \in [Clients -> Listing]
  /\ result \in [Clients -> Outcome \cup {NoOutcome}]
  /\ during \in [Clients -> SUBSET Entry]
  /\ before \in [Clients -> SUBSET Revision]

\* The write of an operation that takes effect on k in this step.
Applied(k, o) ==
  {r \in wire \ wire' : r.key = k /\ r.how = o /\ entry'[k] # entry[k]
                        /\ entry'[k] # Nothing}

\* create never replaces a value, whoever wrote it and whenever: not when it
\* retries over a deletion, and not with a first write that arrives late
\* (makeBucket.create, Bucket.create).
CreateNeverOverwrites ==
  [][\A k \in Keys : Applied(k, "create") # {} => ~Live(entry[k])]_vars

\* A conditional write lands on the very value whose revision its caller gave,
\* however late: two clients that read, compute and update never lose one
\* another's value, and never bring a deleted one back (makeBucket.update).
UpdatesOnTop ==
  [][\A k \in Keys : \A r \in Applied(k, "update") :
        entry[k].rev = r.seen /\ Live(entry[k])]_vars

Ends(c, o, kind) == /\ call[c] # Idle /\ call[c].op = o /\ call'[c] = Idle
                    /\ result'[c].kind = kind

\* What get returns was the key's value at some moment of the call, and it
\* finds none only if there was a moment without one (makeBucket.get).
ReadsAreCurrent ==
  [][\A c \in Clients :
       /\ Ends(c, "get", "ok") =>
            \E e \in during[c] : Live(e) /\ e.rev = result'[c].rev
       /\ Ends(c, "get", "absent") => \E e \in during[c] : ~Live(e)]_vars

\* A write that reports success made a revision of its key during the call,
\* and the one it reports: no other client's write is taken for it
\* (makeBucket.put, create, update, delete, purge).
SuccessIsMine ==
  [][\A c \in Clients, o \in Ops \ {"get", "clear"} :
       Ends(c, o, "ok") =>
         \E e \in during[c] : /\ e # Nothing
                              /\ e.rev = result'[c].rev /\ e.by = c]_vars

\* What was there when clear began and is there when it succeeds.
Spared(c) == {k \in Keys : Live(entry[k]) /\ entry[k].rev \in before[c]}

\* A clear that succeeds spares a value that was there when it began only if
\* its list was cut short before it came to that value: what the list has
\* delivered is purged to the last key, and a list that comes to its own end
\* has delivered everything (makeKeyValueStore.clear, Bucket.keys).
ClearTakesListed ==
  [][\A c \in Clients : Ends(c, "clear", "ok") =>
       \A k \in Spared(c) : list[c].cut /\ entry[k].rev > list[c].cursor]_vars
=============================================================================
