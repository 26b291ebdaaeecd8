---------------------------- MODULE ObjectStore ----------------------------
(***************************************************************************)
(* One name in a bucket of NatsObjectStore, used by several clients.  An   *)
(* object is two things in one stream: its chunks, under an id that is     *)
(* fresh for every put, and a record under the name that carries the id    *)
(* and the digest.  put looks up the record it will replace, publishes the *)
(* chunks, publishes the record over the old one, and purges the chunks of *)
(* the object it looked up; a put that fails purges its own chunks.  get   *)
(* reads the record and then the chunks, through a consumer that tells     *)
(* with each message how many are pending, and checks the digest when none *)
(* is.  delete marks the record and purges the chunks.                     *)
(*                                                                         *)
(* The stream is external.  A request may fail in three ways: it is        *)
(* rejected or lost, only its answer is lost, or it waits in the buffer of *)
(* a client that has lost its connection and is served later, with all     *)
(* that this client asked for in the meantime behind it.                   *)
(***************************************************************************)
EXTENDS Naturals, Sequences, FiniteSets, FiniteSetsExt, Functions

CONSTANTS Clients,     \* fibers, each with a connection of its own
          Does,        \* Does[c]: the operations a client calls
          MaxCalls,    \* bound: calls in a behaviour
          NumChunks,   \* chunks of an object
          MaxLost,     \* bound: requests that are not answered
          MaxExpired   \* bound: chunks that expire; 0 without BucketOptions.ttl

Ops == {"put", "get", "delete"}

ASSUME ClientsAssumption == Clients # {}
ASSUME DoesAssumption == Does \in [Clients -> SUBSET Ops]
ASSUME MaxCallsAssumption == MaxCalls \in Nat \ {0}
ASSUME NumChunksAssumption == NumChunks \in Nat \ {0}
ASSUME MaxLostAssumption == MaxLost \in Nat
ASSUME MaxExpiredAssumption == MaxExpired \in Nat

Calls  == 1 .. MaxCalls       \* the number of a put is the id of its object
Id     == 0 .. MaxCalls       \* 0 is no object
Chunks == 1 .. NumChunks

Record   == [id : Id, deleted : BOOLEAN]
NoRecord == [id |-> 0, deleted |-> FALSE]

\* A request that changes the stream, made by call j.  after is the object whose
\* chunks the sender of a record purges when it has the answer.
Request == [kind : {"chunk"}, j : Calls, id : Calls, n : Chunks]
             \cup [kind : {"record"}, j : Calls, id : Calls, deleted : BOOLEAN,
                   after : Id]
             \cup [kind : {"purge"}, j : Calls, id : Calls]

Steps == {"idle", "look", "upload", "publish", "purge", "rollback", "read", "ended"}

VARIABLES
  record,   \* stream: the record of the name
  chunks,   \* stream: chunks[i], the chunks of an object
  expired,  \* stream: expired[i], how many chunks of an object have expired
  late,     \* late[c]: requests in the buffer of a client, oldest first
  lost,     \* requests that were not answered
  op,       \* op[j]: what a call does
  by,       \* by[j]: who made it
  step,     \* step[j]: what it does next
  old,      \* old[j]: the object it has looked up
  sent,     \* sent[j]: chunks a put has published
  got,      \* got[j]: chunks a get has received, in their order
  result,   \* result[j]: what its caller was told; "cut" if it did not wait
  stray,    \* history: objects whose chunks nobody is going to purge
  served    \* history: calls whose record was written, or whose look-up answered

streamVars == <<record, chunks, expired>>
netVars    == <<late, lost>>
callVars   == <<op, by, step, old, sent, got, result>>
vars == <<streamVars, netVars, callVars, stray, served>>

Init ==
  /\ record = NoRecord
  /\ chunks = [i \in Calls |-> {}]
  /\ expired = [i \in Calls |-> 0]
  /\ late = [c \in Clients |-> << >>]
  /\ lost = 0
  /\ op = [j \in Calls |-> "none"]
  /\ by = [j \in Calls |-> CHOOSE c \in Clients : TRUE]
  /\ step = [j \in Calls |-> "idle"]
  /\ old = [j \in Calls |-> 0]
  /\ sent = [j \in Calls |-> 0]
  /\ got = [j \in Calls |-> << >>]
  /\ result = [j \in Calls |-> "none"]
  /\ stray = {}
  /\ served = {}

-----------------------------------------------------------------------------
(* The stream *)

\* A record replaces the one before it, whatever the sender has looked up.
Serve(r) ==
  CASE r.kind = "chunk" ->
         /\ chunks' = [chunks EXCEPT ![r.id] = @ \cup {r.n}]
         /\ UNCHANGED <<record, stray, served>>
    [] r.kind = "record" ->
         /\ record' = [id |-> r.id, deleted |-> r.deleted]
         /\ stray' = IF record.deleted THEN stray
                     ELSE stray \cup ({record.id} \ {0, r.after})
         /\ served' = served \cup {r.j}
         /\ UNCHANGED chunks
    [] r.kind = "purge" ->
         /\ chunks' = [chunks EXCEPT ![r.id] = {}]
         /\ UNCHANGED <<record, stray, served>>

\* The oldest message goes first, so an object loses its chunks from the front
\* and its record last.
Expire(i) ==
  /\ chunks[i] # {}
  /\ SumFunction(expired) < MaxExpired
  /\ chunks' = [chunks EXCEPT ![i] = @ \ {Min(@)}]
  /\ expired' = [expired EXCEPT ![i] = Min(chunks[i])]
  /\ UNCHANGED <<record, netVars, callVars, stray, served>>

ExpireRecord ==
  /\ record.id # 0
  /\ expired[record.id] = NumChunks
  /\ record' = NoRecord
  /\ UNCHANGED <<chunks, expired, netVars, callVars, stray, served>>

\* A client has its connection again.
ServeLate(c) ==
  /\ late[c] # << >>
  /\ Serve(Head(late[c]))
  /\ late' = [late EXCEPT ![c] = Tail(@)]
  /\ UNCHANGED <<expired, lost, callVars>>

-----------------------------------------------------------------------------
(* A request of a call, and what may become of it *)

Answered(j, r) ==
  /\ late[by[j]] = << >>
  /\ Serve(r)
  /\ UNCHANGED netVars

\* Without an answer nobody purges what a record has replaced, and what was to
\* be purged may stay.
Abandon(r) ==
  /\ stray' = IF r.kind = "purge" THEN stray \cup {r.id} ELSE stray
  /\ UNCHANGED <<record, chunks, served>>

Unanswered(j, r) ==
  LET q == IF r.kind = "record" THEN [r EXCEPT !.after = 0] ELSE r
      c == by[j]
  IN  /\ lost < MaxLost
      /\ lost' = lost + 1
      /\ \/ late[c] = << >> /\ Serve(q) /\ UNCHANGED late
         \/ Abandon(q) /\ UNCHANGED late
         \/ Abandon(q) /\ late' = [late EXCEPT ![c] = Append(@, q)]

StepTo(j, s) == step' = [step EXCEPT ![j] = s] /\ UNCHANGED result

End(j, how) ==
  /\ step' = [step EXCEPT ![j] = "ended"]
  /\ result' = IF result[j] = "none" THEN [result EXCEPT ![j] = how] ELSE result

-----------------------------------------------------------------------------
(* The calls *)

\* A fiber makes one call at a time.
Begin(c, j, o) ==
  /\ step[j] = "idle"
  /\ \A k \in Calls : k < j => step[k] # "idle"
  /\ \A k \in Calls : by[k] = c /\ step[k] # "idle" => result[k] # "none"
  /\ op' = [op EXCEPT ![j] = o]
  /\ by' = [by EXCEPT ![j] = c]
  /\ StepTo(j, "look")
  /\ UNCHANGED <<streamVars, netVars, old, sent, got, stray, served>>

\* The fiber of a call is interrupted.  A get is cancelled; the promise of a
\* write is abandoned, and the SDK goes on.
Interrupt(j) ==
  /\ result[j] = "none"
  /\ step[j] # "idle"
  /\ result' = [result EXCEPT ![j] = "cut"]
  /\ step' = [step EXCEPT ![j] = IF op[j] = "get" THEN "ended" ELSE @]
  /\ UNCHANGED <<streamVars, netVars, op, by, old, sent, got, stray, served>>

Live == record.id # 0 /\ ~record.deleted

LookUp(j) ==
  /\ step[j] = "look"
  /\ late[by[j]] = << >>
  /\ old' = [old EXCEPT ![j] = record.id]
  /\ CASE op[j] = "put" -> StepTo(j, "upload") /\ UNCHANGED served
       [] op[j] = "delete" /\ record.id # 0 ->
            StepTo(j, "publish") /\ UNCHANGED served
       [] op[j] = "delete" /\ record.id = 0 ->
            End(j, "ok") /\ served' = served \cup {j}
       [] op[j] = "get" /\ Live -> StepTo(j, "read") /\ served' = served \cup {j}
       [] op[j] = "get" /\ ~Live -> End(j, "absent") /\ served' = served \cup {j}
  /\ UNCHANGED <<streamVars, netVars, op, by, sent, got, stray>>

LookUpFails(j) ==
  /\ step[j] = "look"
  /\ lost < MaxLost
  /\ lost' = lost + 1
  /\ End(j, "failed")
  /\ UNCHANGED <<streamVars, late, op, by, old, sent, got, stray, served>>

\* Variant: one chunk too many.
UploadOneMore(j) ==
  LET r == [kind |-> "chunk", j |-> j, id |-> j, n |-> sent[j] + 1]
  IN  /\ step[j] = "upload"
      /\ sent[j] <= NumChunks
      /\ sent' = [sent EXCEPT ![j] = @ + 1]
      /\ \/ Answered(j, r) /\ UNCHANGED <<step, result>>
         \/ Unanswered(j, r) /\ StepTo(j, "rollback")
      /\ UNCHANGED <<expired, op, by, old, got>>

\* Variant: the promise is resolved when all chunks are there.
UploadResolves(j) ==
  LET r == [kind |-> "chunk", j |-> j, id |-> j, n |-> sent[j] + 1]
  IN  /\ step[j] = "upload"
      /\ sent[j] < NumChunks
      /\ sent' = [sent EXCEPT ![j] = @ + 1]
      /\ \/ /\ Answered(j, r)
            /\ result' = IF sent'[j] = NumChunks /\ result[j] = "none"
                         THEN [result EXCEPT ![j] = "ok"] ELSE result
            /\ UNCHANGED step
         \/ Unanswered(j, r) /\ StepTo(j, "rollback")
      /\ UNCHANGED <<expired, op, by, old, got>>

Upload(j) ==
  LET r == [kind |-> "chunk", j |-> j, id |-> j, n |-> sent[j] + 1]
  IN  /\ step[j] = "upload"
      /\ sent[j] < NumChunks
      /\ sent' = [sent EXCEPT ![j] = @ + 1]
      /\ \/ Answered(j, r) /\ UNCHANGED <<step, result>>
         \/ Unanswered(j, r) /\ StepTo(j, "rollback")
      /\ UNCHANGED <<expired, op, by, old, got>>

\* The stream that is put fails before its end.
InputFails(j) ==
  /\ step[j] = "upload"
  /\ sent[j] < NumChunks
  /\ StepTo(j, "rollback")
  /\ UNCHANGED <<streamVars, netVars, op, by, old, sent, got, stray, served>>

PutRecord(j) == [kind |-> "record", j |-> j, id |-> j, deleted |-> FALSE,
                 after |-> old[j]]

\* Variant: a record that is not answered is taken for published.
PublishAssumed(j) ==
  /\ step[j] = "upload"
  /\ sent[j] = NumChunks
  /\ \/ /\ Answered(j, PutRecord(j))
        /\ IF old[j] = 0 THEN End(j, "ok") ELSE StepTo(j, "purge")
     \/ Unanswered(j, PutRecord(j)) /\ End(j, "ok")
  /\ UNCHANGED <<expired, op, by, old, sent, got>>

Publish(j) ==
  /\ step[j] = "upload"
  /\ sent[j] = NumChunks
  /\ \/ /\ Answered(j, PutRecord(j))
        /\ IF old[j] = 0 THEN End(j, "ok") ELSE StepTo(j, "purge")
     \/ Unanswered(j, PutRecord(j)) /\ StepTo(j, "rollback")
  /\ UNCHANGED <<expired, op, by, old, sent, got>>

PublishDeletion(j) ==
  LET r == [kind |-> "record", j |-> j, id |-> old[j], deleted |-> TRUE,
            after |-> old[j]]
  IN  /\ step[j] = "publish"
      /\ \/ Answered(j, r) /\ StepTo(j, "purge")
         \/ Unanswered(j, r) /\ End(j, "failed")
      /\ UNCHANGED <<expired, op, by, old, sent, got>>

\* A put is a success even if the purge is not.
PurgeOld(j) ==
  LET r == [kind |-> "purge", j |-> j, id |-> old[j]]
  IN  /\ step[j] = "purge"
      /\ \/ Answered(j, r) /\ End(j, "ok")
         \/ Unanswered(j, r) /\ End(j, IF op[j] = "put" THEN "ok" ELSE "failed")
      /\ UNCHANGED <<expired, op, by, old, sent, got>>

\* Variant: the chunks of a put that failed are left.
RollbackNothing(j) ==
  /\ step[j] = "rollback"
  /\ End(j, "failed")
  /\ UNCHANGED <<streamVars, netVars, op, by, old, sent, got, stray, served>>

\* Variant: the chunks of the object that was to be replaced are purged.
RollbackOld(j) ==
  LET r == [kind |-> "purge", j |-> j, id |-> old[j]]
  IN  /\ step[j] = "rollback"
      /\ IF old[j] = 0 THEN UNCHANGED <<streamVars, netVars, stray, served>>
         ELSE Answered(j, r) \/ Unanswered(j, r)
      /\ End(j, "failed")
      /\ UNCHANGED <<expired, op, by, old, sent, got>>

Rollback(j) ==
  LET r == [kind |-> "purge", j |-> j, id |-> j]
  IN  /\ step[j] = "rollback"
      /\ Answered(j, r) \/ Unanswered(j, r)
      /\ End(j, "failed")
      /\ UNCHANGED <<expired, op, by, old, sent, got>>

Unread(j) == {n \in chunks[old[j]] : \A i \in DOMAIN got[j] : got[j][i] < n}
Whole == [n \in Chunks |-> n]

\* Variant: the digest is not compared.
ReceiveUnchecked(j) ==
  /\ step[j] = "read"
  /\ Unread(j) # {}
  /\ got' = [got EXCEPT ![j] = Append(@, Min(Unread(j)))]
  /\ IF Cardinality(Unread(j)) > 1 THEN UNCHANGED <<step, result>> ELSE End(j, "ok")
  /\ UNCHANGED <<streamVars, netVars, op, by, old, sent, stray, served>>

\* A chunk comes with the number of those still pending: none means that it is
\* time to compare the digest.
Receive(j) ==
  /\ step[j] = "read"
  /\ Unread(j) # {}
  /\ got' = [got EXCEPT ![j] = Append(@, Min(Unread(j)))]
  /\ CASE Cardinality(Unread(j)) > 1 -> UNCHANGED <<step, result>>
       [] Cardinality(Unread(j)) = 1 /\ got'[j] = Whole -> End(j, "ok")
       [] Cardinality(Unread(j)) = 1 /\ got'[j] # Whole -> End(j, "failed")
  /\ UNCHANGED <<streamVars, netVars, op, by, old, sent, stray, served>>

\* The consumer of the chunks cannot be set up, or its iterator fails.  If the
\* iterator merely closes, nothing is received any more and the get goes on.
ReadFails(j) ==
  /\ step[j] = "read"
  /\ End(j, "failed")
  /\ UNCHANGED <<streamVars, netVars, op, by, old, sent, got, stray, served>>

-----------------------------------------------------------------------------
Proceed ==
  \/ \E j \in Calls :
       \/ LookUp(j) \/ LookUpFails(j) \/ Upload(j) \/ Publish(j)
       \/ PublishDeletion(j) \/ PurgeOld(j) \/ Rollback(j) \/ Receive(j)
  \/ \E c \in Clients : ServeLate(c)

Next ==
  \/ Proceed
  \/ \E c \in Clients, j \in Calls : \E o \in Does[c] : Begin(c, j, o)
  \/ \E j \in Calls : Interrupt(j) \/ InputFails(j) \/ ReadFails(j) \/ Expire(j)
  \/ ExpireRecord

Spec == Init /\ [][Next]_vars

\* Every request is answered, refused or given up on, and a lost connection
\* comes back.  Nothing makes a chunk come that is not there.  No step repeats.
FairSpec == Spec /\ WF_vars(Proceed)

-----------------------------------------------------------------------------
(* What must hold *)

ObjectTypeOK ==
  /\ record \in Record
  /\ chunks \in [Calls -> SUBSET Chunks]
  /\ expired \in [Calls -> 0 .. NumChunks]
  /\ late \in [Clients -> Seq(Request)]
  /\ lost \in 0 .. MaxLost
  /\ op \in [Calls -> Ops \cup {"none"}]
  /\ by \in [Calls -> Clients]
  /\ step \in [Calls -> Steps]
  /\ old \in [Calls -> Id]
  /\ sent \in [Calls -> 0 .. NumChunks]
  /\ got \in [Calls -> Seq(Chunks)]
  /\ result \in [Calls -> {"none", "ok", "absent", "failed", "cut"}]
  /\ stray \subseteq Calls
  /\ served \subseteq Calls

\* A get that completes has delivered all of one object, although its chunks
\* were replaced, deleted or expired under it (get, checkDigest).
GetIsWhole ==
  \A j \in Calls : op[j] = "get" /\ result[j] = "ok" => got[j] = Whole

\* The object that can be looked up has its data, but for what has expired,
\* unless its own put was reported as a failure, or to nobody (_put).
LiveIsWhole ==
  Live => LET i == record.id
          IN  \/ (expired[i] + 1) .. NumChunks \subseteq chunks[i]
              \/ result[i] \in {"failed", "cut"}

\* Data that no record names is only left where two writers have looked up the
\* same object or where a request was not answered (_put, delete).
NoOtherLeak ==
  \A i \in Calls : chunks[i] # {} =>
    \/ Live /\ record.id = i
    \/ op[i] = "put" /\ step[i] \in {"upload", "rollback"}
    \/ \E j \in Calls : step[j] = "purge" /\ old[j] = i
    \/ i \in stray

\* Of two puts of one fiber the first never replaces the second, unless the
\* fiber was interrupted in it or told that it had failed (put).
PutsInOrder ==
  [][\A i, j \in Calls :
       /\ record.id = j /\ record'.id = i /\ i < j /\ by[i] = by[j]
       /\ op[i] = "put" /\ ~record'.deleted
       => result[i] \in {"failed", "cut"}]_vars

\* The design: the stream of a get reports the chunks that are missing.
MissingReported == \A j \in Calls : step[j] = "read" ~> step[j] = "ended"

\* However requests, answers and calls interleave, every call takes effect at
\* one moment (put, get, delete).
Atomic == INSTANCE AtomicObject WITH
  object <- IF Live THEN record.id ELSE 0,
  effect <- [j \in Calls |-> j \in served],
  saw    <- [j \in Calls |-> IF op[j] = "get" /\ result[j] # "absent"
                             THEN old[j] ELSE 0]

ImplementsAtomic == Atomic!Spec
=============================================================================
