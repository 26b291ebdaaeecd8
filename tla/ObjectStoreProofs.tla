------------------------- MODULE ObjectStoreProofs -------------------------
(***************************************************************************)
(* Proofs about ObjectStore, for any clients, any number of calls and of   *)
(* chunks, and all bounds.                                                 *)
(***************************************************************************)
EXTENDS ObjectStore, SequenceTheorems, FiniteSetTheorems, WellFoundedInduction,
        TLAPS

Failed(i)   == result[i] \in {"failed", "cut"}
Complete(i) == (expired[i] + 1) .. NumChunks \subseteq chunks[i]

\* The put of an object has been served, and its record is not the live one.
Retired(i) == i \in served /\ ~ (record.id = i /\ ~record.deleted)

\* What a call has done when it is at a step.
CallOK(j) ==
  /\ step[j] = "idle" => /\ op[j] = "none" /\ result[j] = "none"
                         /\ old[j] = 0
  /\ step[j] \in {"idle", "look"} => sent[j] = 0
  /\ step[j] # "idle" => op[j] # "none"
  /\ op[j] = "get" => /\ step[j] \in {"look", "read", "ended"}
                      /\ step[j] # "ended" => result[j] = "none"
  /\ step[j] \in {"upload", "rollback"} => op[j] = "put"
  /\ step[j] = "publish" => op[j] = "delete" /\ old[j] # 0
  /\ step[j] = "purge" => op[j] \in {"put", "delete"} /\ old[j] # 0
  /\ step[j] = "read" => op[j] = "get" /\ old[j] # 0
  /\ step[j] \in {"idle", "look", "upload", "publish"} => j \notin served
  /\ step[j] \in {"purge", "read"} => j \in served
  /\ step[j] # "ended" => result[j] \in {"none", "cut"}
  /\ step[j] = "ended" => result[j] # "none"
  /\ result[j] = "ok" => /\ j \in served
                         /\ op[j] = "get" => got[j] = Whole /\ old[j] # 0
  /\ result[j] = "absent" => op[j] = "get" /\ j \in served

\* What is known of a request that waits in the buffer of client c.
LateOK(c, r) ==
  /\ by[r.j] = c /\ step[r.j] \in {"rollback", "ended"}
  /\ r.kind = "chunk" =>
       /\ r.id = r.j /\ op[r.j] = "put" /\ r.n = sent[r.j]
       /\ expired[r.j] < r.n /\ \A n \in chunks[r.j] : n < r.n
       /\ step[r.j] = "rollback" \/ r.j \in stray
  /\ r.kind = "record" =>
       /\ r.j \notin served /\ r.after = 0
       /\ r.deleted => op[r.j] = "delete" /\ r.id = old[r.j]
       /\ ~r.deleted => /\ op[r.j] = "put" /\ r.id = r.j
                        /\ Complete(r.j) \/ Failed(r.j)
  /\ r.kind = "purge" =>
       /\ step[r.j] = "ended"
       /\ Retired(r.id) \/ (r.id = r.j /\ Failed(r.j))

\* A call has one request of a kind in the buffer at most.
Buffered ==
  \A c \in Clients :
    /\ \A r \in Range(late[c]) : LateOK(c, r)
    /\ \A x, y \in 1 .. Len(late[c]) :
         late[c][x].kind = late[c][y].kind /\ late[c][x].j = late[c][y].j => x = y

RecordOK ==
  /\ record.id # 0 => record.id \in served /\ op[record.id] = "put"
  /\ \A j \in Calls : old[j] # 0 => old[j] \in served /\ op[old[j]] = "put"
  /\ \A j \in Calls : step[j] = "purge" => Retired(old[j])
  /\ Live => Complete(record.id) \/ Failed(record.id)

ChunksOK(i) ==
  /\ \A n \in chunks[i] : expired[i] < n /\ n <= sent[i]
  /\ expired[i] <= sent[i]
  /\ step[i] = "upload" => \A n \in (expired[i] + 1) .. sent[i] : n \in chunks[i]

\* A fiber makes one call after the other.
OneByOne ==
  \A i, j \in Calls : i < j /\ step[j] # "idle" =>
    step[i] # "idle" /\ (by[i] = by[j] => result[i] # "none")

ObjectInv ==
  /\ ObjectTypeOK
  /\ \A j \in Calls : CallOK(j) /\ ChunksOK(j)
  /\ Buffered
  /\ RecordOK
  /\ OneByOne
  /\ NoOtherLeak

-----------------------------------------------------------------------------
(* The least number of a set, and what waits in a buffer *)

LEMMA MinExists ==
  ASSUME NEW S, S \subseteq Nat, S # {}
  PROVE  Min(S) \in S /\ \A y \in S : Min(S) <= y
<1>1. PICK x \in S : \A y \in S : ~ (<<y, x>> \in OpToRel(<, Nat))
  BY NatLessThanWellFounded, WFMin
<1>2. \A y \in S : x <= y
  <2>1. ASSUME NEW y \in S PROVE x <= y
    <3>1. x \in Nat /\ y \in Nat
      BY <2>1
    <3>2. ~ (y < x)
      BY <1>1, <2>1, <3>1 DEF OpToRel
    <3> QED BY <3>1, <3>2
  <2> QED BY <2>1
<1>3. \E z \in S : \A y \in S : z =< y
  BY <1>2
<1> QED BY <1>3 DEF Min

LEMMA AppendRange ==
  ASSUME NEW S, NEW s \in Seq(S), NEW x \in S
  PROVE  Range(Append(s, x)) = Range(s) \cup {x}
<1>1. Append(s, x) \in Seq(S) /\ Len(s) \in Nat
  BY AppendProperties, LenProperties
<1>2. /\ Len(Append(s, x)) = Len(s) + 1 /\ Append(s, x)[Len(s) + 1] = x
      /\ \A i \in 1 .. Len(s) : Append(s, x)[i] = s[i]
  BY AppendProperties
<1>3. /\ Range(s) = {s[i] : i \in 1 .. Len(s)}
      /\ Range(Append(s, x)) = {Append(s, x)[i] : i \in 1 .. Len(s) + 1}
  BY <1>1, <1>2, RangeEquality
<1>4. ASSUME NEW y \in Range(Append(s, x)) PROVE y \in Range(s) \cup {x}
  <2>1. PICK i \in 1 .. Len(s) + 1 : y = Append(s, x)[i]
    BY <1>3, <1>4
  <2>2. CASE i = Len(s) + 1
    BY <1>2, <2>1, <2>2
  <2>3. CASE i # Len(s) + 1
    <3>1. i \in 1 .. Len(s)
      BY <1>1, <2>3
    <3> QED BY <1>2, <1>3, <2>1, <3>1
  <2> QED BY <2>2, <2>3
<1>5. ASSUME NEW y \in Range(s) PROVE y \in Range(Append(s, x))
  <2>1. PICK i \in 1 .. Len(s) : y = s[i]
    BY <1>3, <1>5
  <2>2. i \in 1 .. Len(s) + 1 /\ y = Append(s, x)[i]
    BY <1>1, <1>2, <2>1
  <2> QED BY <1>3, <2>2
<1>6. x \in Range(Append(s, x))
  <2>1. Len(s) + 1 \in 1 .. Len(s) + 1
    BY <1>1
  <2> QED BY <1>2, <1>3, <2>1
<1> QED BY <1>4, <1>5, <1>6

LEMMA TailRange ==
  ASSUME NEW S, NEW s \in Seq(S), s # << >>
  PROVE  /\ Head(s) \in S /\ Head(s) \in Range(s) /\ Head(s) = s[1]
         /\ Tail(s) \in Seq(S)
         /\ 1 \in 1 .. Len(s)
         /\ \A r \in Range(Tail(s)) : \E i \in 2 .. Len(s) : r = s[i]
         /\ \A i \in 2 .. Len(s) : s[i] \in Range(s)
         /\ Len(Tail(s)) = Len(s) - 1
         /\ \A i \in 1 .. Len(s) - 1 : i + 1 \in 1 .. Len(s) /\ Tail(s)[i] = s[i + 1]
<1>1. /\ Head(s) \in S /\ Tail(s) \in Seq(S) /\ Len(Tail(s)) = Len(s) - 1
      /\ \A i \in 1 .. Len(Tail(s)) : Tail(s)[i] = s[i + 1]
  BY HeadTailProperties
<1>2. Len(s) \in Nat \ {0}
  BY EmptySeq
<1>3. Head(s) = s[1]
  BY <1>2
<1>4. /\ Range(s) = {s[i] : i \in 1 .. Len(s)}
      /\ Range(Tail(s)) = {Tail(s)[i] : i \in 1 .. Len(Tail(s))}
  BY <1>1, RangeEquality
<1>5. 1 \in 1 .. Len(s)
  BY <1>2
<1>6. ASSUME NEW r \in Range(Tail(s)) PROVE \E i \in 2 .. Len(s) : r = s[i]
  <2>1. PICK i \in 1 .. Len(Tail(s)) : r = Tail(s)[i]
    BY <1>4, <1>6
  <2>2. i + 1 \in 2 .. Len(s)
    BY <1>1, <1>2, <2>1
  <2> QED BY <1>1, <2>1, <2>2
<1>7. \A i \in 2 .. Len(s) : s[i] \in Range(s)
  BY <1>2, <1>4
<1>8. \A i \in 1 .. Len(s) - 1 : i + 1 \in 1 .. Len(s) /\ Tail(s)[i] = s[i + 1]
  BY <1>1, <1>2
<1> QED BY <1>1, <1>3, <1>4, <1>5, <1>6, <1>7, <1>8

LEMMA RequestFields ==
  ASSUME NEW r \in Request
  PROVE  /\ r.j \in Calls /\ r.id \in Calls
         /\ r.kind \in {"chunk", "record", "purge"}
         /\ r.kind = "chunk" => r.n \in Chunks
         /\ r.kind = "record" => r.deleted \in BOOLEAN /\ r.after \in Id
BY DEF Request, Id, Calls

LEMMA WaitingIsRequest ==
  ASSUME ObjectTypeOK, NEW c \in Clients, NEW r \in Range(late[c])
  PROVE  r \in Request
BY RangeOfSeq DEF ObjectTypeOK

\* What keeps a request in a buffer as it should be.
LEMMA LateKept ==
  ASSUME NEW c \in Clients, NEW r \in Request, LateOK(c, r),
         /\ by'[r.j] = by[r.j] /\ op'[r.j] = op[r.j]
         /\ old'[r.j] = old[r.j] /\ sent'[r.j] = sent[r.j],
         \/ step'[r.j] = step[r.j]
         \/ step'[r.j] = "ended" /\ (r.kind = "chunk" => r.j \in stray'),
         stray \subseteq stray',
         r.kind = "chunk" =>
           expired'[r.j] < r.n /\ \A n \in chunks'[r.j] : n < r.n,
         r.kind = "record" =>
           r.j \notin served' /\ (Complete(r.j) => Complete(r.j)' \/ Failed(r.j)'),
         Failed(r.j) => Failed(r.j)',
         r.kind = "purge" => (Retired(r.id) => Retired(r.id)')
  PROVE  LateOK(c, r)'
<1> USE DEF LateOK
<1>0. r.j \in Calls
  BY RequestFields
<1>1. by'[r.j] = c /\ step'[r.j] \in {"rollback", "ended"}
  OBVIOUS
<1>2. CASE r.kind = "chunk"
  BY <1>1, <1>2
<1>3. CASE r.kind = "record"
  BY <1>1, <1>3
<1>4. CASE r.kind = "purge"
  BY <1>1, <1>4
<1> QED BY <1>2, <1>3, <1>4, RequestFields

-----------------------------------------------------------------------------
(* Types *)

LEMMA InitTypes == Init => ObjectTypeOK
<1> SUFFICES ASSUME Init PROVE ObjectTypeOK
  OBVIOUS
<1>1. (CHOOSE c \in Clients : TRUE) \in Clients
  BY ClientsAssumption
<1>2. << >> \in Seq(Request) /\ << >> \in Seq(Chunks)
  BY EmptySeq
<1>3. 0 \in Id /\ 0 \in 0 .. NumChunks /\ 0 \in 0 .. MaxLost
  BY MaxCallsAssumption, NumChunksAssumption, MaxLostAssumption DEF Id
<1>4. record \in Record
  BY <1>3 DEF Init, Record, NoRecord
<1>5. late \in [Clients -> Seq(Request)] /\ got \in [Calls -> Seq(Chunks)]
  BY <1>2 DEF Init
<1>6. by \in [Calls -> Clients]
  BY <1>1 DEF Init
<1> QED BY <1>3, <1>4, <1>5, <1>6 DEF Init, ObjectTypeOK, Steps

LEMMA ServeType ==
  ASSUME ObjectTypeOK, NEW r \in Request, Serve(r)
  PROVE  /\ record' \in Record
         /\ chunks' \in [Calls -> SUBSET Chunks]
         /\ stray' \subseteq Calls
         /\ served' \subseteq Calls
<1>0. /\ r.j \in Calls /\ r.id \in Calls /\ r.kind \in {"chunk", "record", "purge"}
      /\ r.kind = "chunk" => r.n \in Chunks
      /\ r.kind = "record" => r.deleted \in BOOLEAN
  BY RequestFields
<1> USE DEF ObjectTypeOK
<1>1. CASE r.kind = "chunk"
  <2>1. /\ chunks' = [chunks EXCEPT ![r.id] = @ \cup {r.n}]
        /\ UNCHANGED <<record, stray, served>>
    BY <1>1 DEF Serve
  <2>2. chunks[r.id] \cup {r.n} \in SUBSET Chunks
    BY <1>0, <1>1
  <2> QED BY <2>1, <2>2
<1>2. CASE r.kind = "record"
  <2>1. record' = [id |-> r.id, deleted |-> r.deleted]
    BY <1>2 DEF Serve
  <2>2. record' \in Record
    BY <1>0, <1>2, <2>1 DEF Record, Id, Calls
  <2>3. record.id \in Id
    BY DEF Record
  <2>4. stray' \subseteq Calls
    BY <1>2, <2>3 DEF Serve, Id, Calls
  <2> QED BY <1>0, <1>2, <2>2, <2>4 DEF Serve
<1>3. CASE r.kind = "purge"
  BY <1>0, <1>3 DEF Serve
<1> QED BY <1>0, <1>1, <1>2, <1>3

LEMMA AbandonType ==
  ASSUME ObjectTypeOK, NEW r \in Request, Abandon(r)
  PROVE  stray' \subseteq Calls
BY RequestFields DEF ObjectTypeOK, Abandon

\* A request, whatever becomes of it.
LEMMA AskType ==
  ASSUME ObjectTypeOK, NEW j \in Calls, NEW r \in Request,
         Answered(j, r) \/ Unanswered(j, r)
  PROVE  /\ record' \in Record
         /\ chunks' \in [Calls -> SUBSET Chunks]
         /\ stray' \subseteq Calls
         /\ served' \subseteq Calls
         /\ late' \in [Clients -> Seq(Request)]
         /\ lost' \in 0 .. MaxLost
<1>1. CASE Answered(j, r)
  BY <1>1, ServeType DEF Answered, netVars, ObjectTypeOK
<1>2. CASE Unanswered(j, r)
  <2> DEFINE q == IF r.kind = "record" THEN [r EXCEPT !.after = 0] ELSE r
  <2>1. q \in Request
    <3>1. 0 \in Id
      BY MaxCallsAssumption DEF Id
    <3>2. CASE r.kind = "record"
      <4>1. r \in [kind : {"record"}, j : Calls, id : Calls, deleted : BOOLEAN, after : Id]
        BY <3>2 DEF Request
      <4>2. q \in [kind : {"record"}, j : Calls, id : Calls, deleted : BOOLEAN, after : Id]
        BY <3>1, <3>2, <4>1
      <4> QED BY <4>2 DEF Request
    <3>3. CASE r.kind # "record"
      BY <3>3
    <3> QED BY <3>2, <3>3
  <2>2. /\ lost < MaxLost /\ lost' = lost + 1
        /\ \/ Serve(q) /\ late' = late
           \/ Abandon(q) /\ late' = late
           \/ Abandon(q) /\ late' = [late EXCEPT ![by[j]] = Append(@, q)]
    BY <1>2 DEF Unanswered
  <2> HIDE DEF q
  <2>3. lost' \in 0 .. MaxLost
    BY <2>2, MaxLostAssumption DEF ObjectTypeOK
  <2>4. CASE Serve(q) /\ late' = late
    BY <2>1, <2>3, <2>4, ServeType DEF ObjectTypeOK
  <2>5. CASE Abandon(q)
    <3>1. /\ record' = record /\ chunks' = chunks /\ served' = served
          /\ stray' \subseteq Calls
      BY <2>1, <2>5, AbandonType DEF Abandon
    <3>2. Append(late[by[j]], q) \in Seq(Request)
      BY <2>1, AppendProperties DEF ObjectTypeOK
    <3>3. late' \in [Clients -> Seq(Request)]
      BY <2>2, <2>5, <3>2 DEF ObjectTypeOK
    <3> QED BY <2>3, <3>1, <3>3 DEF ObjectTypeOK
  <2> QED BY <2>2, <2>4, <2>5
<1> QED BY <1>1, <1>2

LEMMA EndType ==
  ASSUME ObjectTypeOK, NEW j \in Calls, NEW h \in {"ok", "absent", "failed"},
         End(j, h)
  PROVE  /\ step' \in [Calls -> Steps]
         /\ result' \in [Calls -> {"none", "ok", "absent", "failed", "cut"}]
BY DEF ObjectTypeOK, End, Steps

LEMMA StepType ==
  ASSUME ObjectTypeOK, NEW j \in Calls, NEW s \in Steps, StepTo(j, s)
  PROVE  /\ step' \in [Calls -> Steps]
         /\ result' \in [Calls -> {"none", "ok", "absent", "failed", "cut"}]
BY DEF ObjectTypeOK, StepTo, Steps

LEMMA UploadType ==
  ASSUME ObjectTypeOK, NEW j \in Calls, Upload(j)
  PROVE  ObjectTypeOK'
<1> DEFINE r == [kind |-> "chunk", j |-> j, id |-> j, n |-> sent[j] + 1]
<1>1. /\ sent[j] < NumChunks
      /\ sent' = [sent EXCEPT ![j] = @ + 1]
      /\ \/ Answered(j, r) /\ UNCHANGED <<step, result>>
         \/ Unanswered(j, r) /\ StepTo(j, "rollback")
      /\ UNCHANGED <<expired, op, by, old, got>>
  BY DEF Upload
<1>2. sent[j] + 1 \in 0 .. NumChunks /\ sent[j] + 1 \in Chunks
  BY <1>1, NumChunksAssumption DEF ObjectTypeOK, Chunks
<1>3. r \in [kind : {"chunk"}, j : Calls, id : Calls, n : Chunks]
  BY <1>2
<1>4. r \in Request
  BY <1>3 DEF Request
<1> HIDE DEF r
<1>5. sent' \in [Calls -> 0 .. NumChunks]
  BY <1>1, <1>2 DEF ObjectTypeOK
<1>6. /\ step' \in [Calls -> Steps]
      /\ result' \in [Calls -> {"none", "ok", "absent", "failed", "cut"}]
  BY <1>1, StepType DEF ObjectTypeOK, Steps
<1>7. /\ record' \in Record
      /\ chunks' \in [Calls -> SUBSET Chunks]
      /\ stray' \subseteq Calls /\ served' \subseteq Calls
      /\ late' \in [Clients -> Seq(Request)] /\ lost' \in 0 .. MaxLost
  BY <1>1, <1>4, AskType
<1> QED BY <1>1, <1>5, <1>6, <1>7 DEF ObjectTypeOK

\* The record that a put or a delete publishes, and what it purges.
LEMMA SentRequests ==
  ASSUME ObjectTypeOK, NEW j \in Calls
  PROVE  /\ PutRecord(j) \in Request
         /\ [kind |-> "purge", j |-> j, id |-> j] \in Request
         /\ old[j] # 0 =>
              /\ [kind |-> "record", j |-> j, id |-> old[j], deleted |-> TRUE,
                  after |-> old[j]] \in Request
              /\ [kind |-> "purge", j |-> j, id |-> old[j]] \in Request
<1>1. old[j] \in Id /\ (old[j] # 0 => old[j] \in Calls)
  BY DEF ObjectTypeOK, Id, Calls
<1>2. PutRecord(j) \in [kind : {"record"}, j : Calls, id : Calls,
                        deleted : BOOLEAN, after : Id]
  BY <1>1 DEF PutRecord
<1>3. [kind |-> "purge", j |-> j, id |-> j] \in [kind : {"purge"}, j : Calls, id : Calls]
  OBVIOUS
<1>4. old[j] # 0 => [kind |-> "record", j |-> j, id |-> old[j], deleted |-> TRUE,
                     after |-> old[j]]
                    \in [kind : {"record"}, j : Calls, id : Calls,
                         deleted : BOOLEAN, after : Id]
  BY <1>1
<1>5. old[j] # 0 => [kind |-> "purge", j |-> j, id |-> old[j]]
                    \in [kind : {"purge"}, j : Calls, id : Calls]
  BY <1>1
<1> QED BY <1>2, <1>3, <1>4, <1>5 DEF Request

LEMMA PublishType ==
  ASSUME ObjectTypeOK, NEW j \in Calls, Publish(j)
  PROVE  ObjectTypeOK'
<1>1. Answered(j, PutRecord(j)) \/ Unanswered(j, PutRecord(j))
  BY DEF Publish
<1>2. /\ step' \in [Calls -> Steps]
      /\ result' \in [Calls -> {"none", "ok", "absent", "failed", "cut"}]
  BY EndType, StepType DEF Publish, Steps
<1> QED BY <1>1, <1>2, SentRequests, AskType DEF Publish, ObjectTypeOK

LEMMA PublishDeletionType ==
  ASSUME ObjectTypeOK, NEW j \in Calls, old[j] # 0, PublishDeletion(j)
  PROVE  ObjectTypeOK'
<1> DEFINE r == [kind |-> "record", j |-> j, id |-> old[j], deleted |-> TRUE,
                 after |-> old[j]]
<1>1. /\ \/ Answered(j, r) /\ StepTo(j, "purge")
         \/ Unanswered(j, r) /\ End(j, "failed")
      /\ UNCHANGED <<expired, op, by, old, sent, got>>
  BY DEF PublishDeletion
<1>2. r \in Request
  BY SentRequests
<1> HIDE DEF r
<1>3. /\ step' \in [Calls -> Steps]
      /\ result' \in [Calls -> {"none", "ok", "absent", "failed", "cut"}]
  BY <1>1, EndType, StepType DEF Steps
<1> QED BY <1>1, <1>2, <1>3, AskType DEF ObjectTypeOK

LEMMA PurgeOldType ==
  ASSUME ObjectTypeOK, NEW j \in Calls, old[j] # 0, PurgeOld(j)
  PROVE  ObjectTypeOK'
<1> DEFINE r == [kind |-> "purge", j |-> j, id |-> old[j]]
<1>1. /\ \/ Answered(j, r) /\ End(j, "ok")
         \/ Unanswered(j, r) /\ End(j, IF op[j] = "put" THEN "ok" ELSE "failed")
      /\ UNCHANGED <<expired, op, by, old, sent, got>>
  BY DEF PurgeOld
<1>2. r \in Request
  BY SentRequests
<1> HIDE DEF r
<1>3. End(j, "ok") \/ End(j, "failed")
  BY <1>1
<1>4. /\ step' \in [Calls -> Steps]
      /\ result' \in [Calls -> {"none", "ok", "absent", "failed", "cut"}]
  BY <1>3, EndType
<1> QED BY <1>1, <1>2, <1>4, AskType DEF ObjectTypeOK

LEMMA RollbackType ==
  ASSUME ObjectTypeOK, NEW j \in Calls, Rollback(j)
  PROVE  ObjectTypeOK'
<1> DEFINE r == [kind |-> "purge", j |-> j, id |-> j]
<1>1. /\ Answered(j, r) \/ Unanswered(j, r)
      /\ End(j, "failed")
      /\ UNCHANGED <<expired, op, by, old, sent, got>>
  BY DEF Rollback
<1>2. r \in Request
  BY SentRequests
<1> HIDE DEF r
<1>3. /\ step' \in [Calls -> Steps]
      /\ result' \in [Calls -> {"none", "ok", "absent", "failed", "cut"}]
  BY <1>1, EndType
<1> QED BY <1>1, <1>2, <1>3, AskType DEF ObjectTypeOK

LEMMA ReceiveType ==
  ASSUME ObjectTypeOK, NEW j \in Calls, old[j] # 0, Receive(j)
  PROVE  /\ ObjectTypeOK'
         /\ Min(Unread(j)) \in Chunks
         /\ \/ UNCHANGED <<step, result>>
            \/ End(j, "ok") /\ got'[j] = Whole
            \/ End(j, "failed")
<1>1. old[j] \in Calls
  BY DEF ObjectTypeOK, Id, Calls
<1>2. Unread(j) \subseteq Chunks /\ Chunks \subseteq Nat /\ Unread(j) # {}
  BY <1>1 DEF ObjectTypeOK, Unread, Chunks, Receive
<1>3. Min(Unread(j)) \in Chunks
  BY <1>2, MinExists
<1>9. Cardinality(Unread(j)) > 1 \/ Cardinality(Unread(j)) = 1
  <2>1. IsFiniteSet(Unread(j))
    BY <1>2, NumChunksAssumption, FS_Interval, FS_Subset DEF Chunks
  <2> QED BY <1>2, <2>1, FS_CardinalityType, FS_EmptySet
<1>4. /\ got' = [got EXCEPT ![j] = Append(@, Min(Unread(j)))]
      /\ \/ UNCHANGED <<step, result>>
         \/ End(j, "ok") /\ got'[j] = Whole
         \/ End(j, "failed")
  BY <1>9 DEF Receive
<1>5. Append(got[j], Min(Unread(j))) \in Seq(Chunks)
  BY <1>3, AppendProperties DEF ObjectTypeOK
<1>6. got' \in [Calls -> Seq(Chunks)]
  BY <1>4, <1>5 DEF ObjectTypeOK
<1>7. /\ step' \in [Calls -> Steps]
      /\ result' \in [Calls -> {"none", "ok", "absent", "failed", "cut"}]
  BY <1>4, EndType DEF ObjectTypeOK
<1>8. UNCHANGED <<streamVars, netVars, op, by, old, sent, stray, served>>
  BY DEF Receive
<1> QED BY <1>3, <1>4, <1>6, <1>7, <1>8 DEF ObjectTypeOK, streamVars, netVars

\* How a look-up goes on.
LEMMA LookUpCases ==
  ASSUME ObjectTypeOK, NEW j \in Calls, op[j] # "none", LookUp(j)
  PROVE  \/ op[j] = "put" /\ StepTo(j, "upload") /\ served' = served
         \/ op[j] = "delete" /\ record.id # 0 /\ StepTo(j, "publish") /\ served' = served
         \/ op[j] = "delete" /\ record.id = 0 /\ End(j, "ok") /\ served' = served \cup {j}
         \/ op[j] = "get" /\ Live /\ StepTo(j, "read") /\ served' = served \cup {j}
         \/ op[j] = "get" /\ ~Live /\ End(j, "absent") /\ served' = served \cup {j}
<1>1. op[j] \in {"put", "get", "delete"}
  BY DEF ObjectTypeOK, Ops
<1> QED BY <1>1 DEF LookUp

LEMMA LookUpType ==
  ASSUME ObjectTypeOK, NEW j \in Calls, op[j] # "none", LookUp(j)
  PROVE  ObjectTypeOK'
<1>1. \/ StepTo(j, "upload") \/ StepTo(j, "publish") \/ StepTo(j, "read")
      \/ End(j, "ok") \/ End(j, "absent")
  BY LookUpCases
<1>2. /\ step' \in [Calls -> Steps]
      /\ result' \in [Calls -> {"none", "ok", "absent", "failed", "cut"}]
  BY <1>1, EndType, StepType DEF Steps
<1>3. served' \subseteq Calls
  BY LookUpCases DEF ObjectTypeOK
<1>4. old' \in [Calls -> Id]
  BY DEF LookUp, ObjectTypeOK, Record
<1> QED BY <1>2, <1>3, <1>4 DEF LookUp, ObjectTypeOK, streamVars, netVars

LEMMA ExpireType ==
  ASSUME ObjectTypeOK, NEW i \in Calls, Expire(i)
  PROVE  /\ ObjectTypeOK'
         /\ Min(chunks[i]) \in chunks[i]
         /\ \A n \in chunks[i] : Min(chunks[i]) <= n
<1>1. chunks[i] \subseteq Chunks /\ Chunks \subseteq Nat /\ chunks[i] # {}
  BY DEF ObjectTypeOK, Chunks, Expire
<1>2. /\ Min(chunks[i]) \in chunks[i]
      /\ \A n \in chunks[i] : Min(chunks[i]) <= n
  BY <1>1, MinExists
<1>3. Min(chunks[i]) \in 0 .. NumChunks
  BY <1>1, <1>2, NumChunksAssumption DEF Chunks
<1>4. /\ chunks' = [chunks EXCEPT ![i] = @ \ {Min(@)}]
      /\ expired' = [expired EXCEPT ![i] = Min(chunks[i])]
      /\ UNCHANGED <<record, netVars, callVars, stray, served>>
  BY DEF Expire
<1>5. /\ chunks' \in [Calls -> SUBSET Chunks]
      /\ expired' \in [Calls -> 0 .. NumChunks]
  BY <1>1, <1>3, <1>4 DEF ObjectTypeOK
<1> QED BY <1>2, <1>4, <1>5 DEF ObjectTypeOK, netVars, callVars

LEMMA ServeLateType ==
  ASSUME ObjectTypeOK, NEW c \in Clients, ServeLate(c)
  PROVE  ObjectTypeOK'
<1>1. /\ late[c] \in Seq(Request) /\ late[c] # << >>
  BY DEF ObjectTypeOK, ServeLate
<1>2. Head(late[c]) \in Request /\ Tail(late[c]) \in Seq(Request)
  BY <1>1, TailRange
<1>3. late' \in [Clients -> Seq(Request)]
  BY <1>2 DEF ObjectTypeOK, ServeLate
<1>4. Serve(Head(late[c])) /\ UNCHANGED <<expired, lost, callVars>>
  BY DEF ServeLate
<1> QED BY <1>2, <1>3, <1>4, ServeType DEF ObjectTypeOK, callVars

LEMMA NextType ==
  ASSUME ObjectTypeOK, \A j \in Calls : CallOK(j), [Next]_vars
  PROVE  ObjectTypeOK'
<1> USE DEF ObjectTypeOK
<1>1. ASSUME NEW c \in Clients, NEW j \in Calls, NEW o \in Does[c], Begin(c, j, o)
      PROVE  ObjectTypeOK'
  <2>1. o \in Ops
    BY DoesAssumption
  <2>2. /\ step' \in [Calls -> Steps]
        /\ result' \in [Calls -> {"none", "ok", "absent", "failed", "cut"}]
    BY <1>1, StepType DEF Begin, Steps
  <2> QED BY <1>1, <2>1, <2>2 DEF Begin, streamVars, netVars
<1>2. ASSUME NEW j \in Calls, Interrupt(j) PROVE ObjectTypeOK'
  BY <1>2 DEF Interrupt, Steps, streamVars, netVars
<1>3. ASSUME NEW j \in Calls, LookUpFails(j) PROVE ObjectTypeOK'
  <2>1. lost' \in 0 .. MaxLost
    BY <1>3, MaxLostAssumption DEF LookUpFails
  <2>2. /\ step' \in [Calls -> Steps]
        /\ result' \in [Calls -> {"none", "ok", "absent", "failed", "cut"}]
    BY <1>3, EndType DEF LookUpFails
  <2> QED BY <1>3, <2>1, <2>2 DEF LookUpFails, streamVars
<1>4. ASSUME NEW j \in Calls, InputFails(j) PROVE ObjectTypeOK'
  <2>1. /\ step' \in [Calls -> Steps]
        /\ result' \in [Calls -> {"none", "ok", "absent", "failed", "cut"}]
    BY <1>4, StepType DEF InputFails, Steps
  <2> QED BY <1>4, <2>1 DEF InputFails, streamVars, netVars
<1>9. ASSUME NEW j \in Calls, ReadFails(j) PROVE ObjectTypeOK'
  <2>1. /\ step' \in [Calls -> Steps]
        /\ result' \in [Calls -> {"none", "ok", "absent", "failed", "cut"}]
    BY <1>9, EndType DEF ReadFails
  <2> QED BY <1>9, <2>1 DEF ReadFails, streamVars, netVars
<1>5. ASSUME NEW j \in Calls, PublishDeletion(j) \/ PurgeOld(j) \/ Receive(j)
      PROVE  ObjectTypeOK'
  <2>1. old[j] # 0
    BY <1>5 DEF CallOK, PublishDeletion, PurgeOld, Receive
  <2> QED BY <1>5, <2>1, PublishDeletionType, PurgeOldType, ReceiveType
<1>8. ASSUME NEW j \in Calls, LookUp(j) PROVE ObjectTypeOK'
  BY <1>8, LookUpType DEF CallOK, LookUp
<1>6. ASSUME ExpireRecord PROVE ObjectTypeOK'
  <2>1. NoRecord \in Record
    BY MaxCallsAssumption DEF NoRecord, Record, Id
  <2> QED BY <1>6, <2>1 DEF ExpireRecord, netVars, callVars
<1>7. CASE UNCHANGED vars
  BY <1>7 DEF vars, streamVars, netVars, callVars
<1> QED BY <1>1, <1>2, <1>3, <1>4, <1>5, <1>6, <1>7, <1>8, <1>9, UploadType,
           PublishType, RollbackType, ExpireType, ServeLateType
        DEF Next, Proceed

-----------------------------------------------------------------------------
(* What leaves the parts of the invariant alone *)

LEMMA CallKept ==
  ASSUME NEW k \in Calls, CallOK(k),
         step'[k] = step[k], op'[k] = op[k], result'[k] = result[k],
         old'[k] = old[k], sent'[k] = sent[k], got'[k] = got[k],
         k \in served => k \in served',
         k \in served' => k \in served \/ step[k] \in {"rollback", "ended"}
  PROVE  CallOK(k)'
BY DEF CallOK

LEMMA BufferSame ==
  ASSUME ObjectTypeOK, Buffered, late' = late,
         \A c \in Clients : \A r \in Range(late[c]) : LateOK(c, r)'
  PROVE  Buffered'
BY DEF Buffered

LEMMA BufferGrows ==
  ASSUME ObjectTypeOK, Buffered, NEW c \in Clients, NEW q \in Request,
         late' = [late EXCEPT ![c] = Append(@, q)],
         \A d \in Clients : \A r \in Range(late[d]) : LateOK(d, r)',
         LateOK(c, q)',
         \A r \in Range(late[c]) : r.kind # q.kind \/ r.j # q.j
  PROVE  Buffered'
<1>1. late[c] \in Seq(Request)
  BY DEF ObjectTypeOK
<1>2. late'[c] = Append(late[c], q) /\ \A d \in Clients \ {c} : late'[d] = late[d]
  BY DEF ObjectTypeOK
<1>3. Range(late'[c]) = Range(late[c]) \cup {q}
  BY <1>1, <1>2, AppendRange
<1>4. /\ Len(late[c]) \in Nat /\ Len(late'[c]) = Len(late[c]) + 1
      /\ \A i \in 1 .. Len(late[c]) : late'[c][i] = late[c][i]
      /\ late'[c][Len(late[c]) + 1] = q
      /\ Range(late[c]) = {late[c][i] : i \in 1 .. Len(late[c])}
  BY <1>1, <1>2, AppendProperties, LenProperties, RangeEquality
<1>5. ASSUME NEW d \in Clients, NEW r \in Range(late'[d]) PROVE LateOK(d, r)'
  <2>1. CASE d = c
    BY <1>3, <1>5, <2>1
  <2>2. CASE d # c
    BY <1>2, <1>5, <2>2
  <2> QED BY <2>1, <2>2
<1>6. ASSUME NEW d \in Clients, NEW x \in 1 .. Len(late'[d]), NEW y \in 1 .. Len(late'[d]),
             late'[d][x].kind = late'[d][y].kind, late'[d][x].j = late'[d][y].j
      PROVE  x = y
  <2>1. CASE d # c
    BY <1>2, <1>6, <2>1 DEF Buffered
  <2>2. CASE d = c
    <3>1. \A i \in 1 .. Len(late[c]) : late[c][i].kind # q.kind \/ late[c][i].j # q.j
      BY <1>4
    <3>2. CASE x = Len(late[c]) + 1 /\ y # Len(late[c]) + 1
      <4>1. y \in 1 .. Len(late[c])
        BY <1>4, <1>6, <2>2, <3>2
      <4> QED BY <1>4, <1>6, <2>2, <3>1, <3>2, <4>1
    <3>3. CASE x # Len(late[c]) + 1 /\ y = Len(late[c]) + 1
      <4>1. x \in 1 .. Len(late[c])
        BY <1>4, <1>6, <2>2, <3>3
      <4> QED BY <1>4, <1>6, <2>2, <3>1, <3>3, <4>1
    <3>4. CASE x # Len(late[c]) + 1 /\ y # Len(late[c]) + 1
      <4>1. x \in 1 .. Len(late[c]) /\ y \in 1 .. Len(late[c])
        BY <1>4, <1>6, <2>2, <3>4
      <4>2. late'[c][x] = late[c][x] /\ late'[c][y] = late[c][y]
        BY <1>4, <4>1
      <4> QED BY <1>6, <2>2, <4>1, <4>2 DEF Buffered
    <3> QED BY <3>2, <3>3, <3>4
  <2> QED BY <2>1, <2>2
<1> QED BY <1>5, <1>6 DEF Buffered

LEMMA BufferShrinks ==
  ASSUME ObjectTypeOK, Buffered, NEW c \in Clients, late[c] # << >>,
         late' = [late EXCEPT ![c] = Tail(@)],
         \A d \in Clients : \A r \in Range(late[d]) :
           r.kind # Head(late[c]).kind \/ r.j # Head(late[c]).j => LateOK(d, r)'
  PROVE  Buffered'
<1> DEFINE h == Head(late[c])
<1>1. late[c] \in Seq(Request)
  BY DEF ObjectTypeOK
<1>2. /\ late'[c] = Tail(late[c]) /\ \A d \in Clients \ {c} : late'[d] = late[d]
  BY DEF ObjectTypeOK
<1>7. /\ h = late[c][1] /\ h \in Range(late[c]) /\ 1 \in 1 .. Len(late[c])
      /\ \A r \in Range(Tail(late[c])) : \E i \in 2 .. Len(late[c]) : r = late[c][i]
      /\ \A i \in 2 .. Len(late[c]) : late[c][i] \in Range(late[c])
      /\ Len(Tail(late[c])) = Len(late[c]) - 1
      /\ \A i \in 1 .. Len(late[c]) - 1 : /\ i + 1 \in 1 .. Len(late[c])
                                          /\ Tail(late[c])[i] = late[c][i + 1]
  BY <1>1, TailRange
<1>3. /\ h = late[c][1] /\ 1 \in 1 .. Len(late[c])
      /\ \A r \in Range(late'[c]) : \E i \in 2 .. Len(late[c]) : r = late[c][i]
      /\ \A i \in 2 .. Len(late[c]) : late[c][i] \in Range(late[c])
      /\ Len(late'[c]) = Len(late[c]) - 1
      /\ \A i \in 1 .. Len(late[c]) - 1 : /\ i + 1 \in 1 .. Len(late[c])
                                          /\ late'[c][i] = late[c][i + 1]
  BY <1>2, <1>7
<1> HIDE DEF h
<1>4. Len(late[c]) \in Nat
  BY <1>1, LenProperties
<1>5. ASSUME NEW d \in Clients, NEW r \in Range(late'[d]) PROVE LateOK(d, r)'
  <2>1. CASE d = c
    <3>1. PICK i \in 2 .. Len(late[c]) : r = late[c][i]
      BY <1>3, <1>5, <2>1
    <3>2. i \in 1 .. Len(late[c]) /\ i # 1
      BY <1>4, <3>1
    <3>3. r.kind # h.kind \/ r.j # h.j
      BY <1>3, <3>1, <3>2 DEF Buffered
    <3> QED BY <1>3, <2>1, <3>1, <3>3 DEF h
  <2>2. CASE d # c
    <3>1. r \in Range(late[d]) /\ LateOK(d, r)
      BY <1>2, <1>5, <2>2 DEF Buffered
    <3>2. r \in Request
      BY <3>1, WaitingIsRequest
    <3>3. by[r.j] = d
      BY <3>1 DEF LateOK
    <3>4. by[h.j] = c
      BY <1>7 DEF Buffered, LateOK
    <3>5. r.j # h.j
      BY <2>2, <3>3, <3>4
    <3> QED BY <3>1, <3>5 DEF h
  <2> QED BY <2>1, <2>2
<1>6. ASSUME NEW d \in Clients, NEW x \in 1 .. Len(late'[d]), NEW y \in 1 .. Len(late'[d]),
             late'[d][x].kind = late'[d][y].kind, late'[d][x].j = late'[d][y].j
      PROVE  x = y
  <2>1. CASE d # c
    BY <1>2, <1>6, <2>1 DEF Buffered
  <2>2. CASE d = c
    <3>1. /\ x + 1 \in 1 .. Len(late[c]) /\ late'[c][x] = late[c][x + 1]
          /\ y + 1 \in 1 .. Len(late[c]) /\ late'[c][y] = late[c][y + 1]
      BY <1>3, <1>6, <2>2
    <3>2. x + 1 = y + 1
      BY <1>6, <2>2, <3>1 DEF Buffered
    <3> QED BY <1>3, <1>4, <2>2, <3>2
  <2> QED BY <2>1, <2>2
<1> QED BY <1>5, <1>6 DEF Buffered

LEMMA OneByOneKept ==
  ASSUME OneByOne, by' = by,
         \A k \in Calls : step'[k] = "idle" <=> step[k] = "idle",
         \A k \in Calls : result'[k] = "none" => result[k] = "none"
  PROVE  OneByOne'
BY DEF OneByOne

LEMMA ChunksKept ==
  ASSUME NEW i \in Calls, ChunksOK(i),
         chunks'[i] \subseteq chunks[i], expired'[i] = expired[i], sent'[i] = sent[i],
         step'[i] = "upload" => step[i] = "upload" /\ chunks'[i] = chunks[i]
  PROVE  ChunksOK(i)'
BY DEF ChunksOK

LEMMA EndEffect ==
  ASSUME ObjectTypeOK, NEW j \in Calls, NEW h, End(j, h)
  PROVE  /\ step'[j] = "ended" /\ \A k \in Calls \ {j} : step'[k] = step[k]
         /\ result'[j] = IF result[j] = "none" THEN h ELSE result[j]
         /\ \A k \in Calls \ {j} : result'[k] = result[k]
BY DEF ObjectTypeOK, End

LEMMA StepEffect ==
  ASSUME ObjectTypeOK, NEW j \in Calls, NEW s, StepTo(j, s)
  PROVE  /\ step'[j] = s /\ \A k \in Calls \ {j} : step'[k] = step[k]
         /\ result' = result
BY DEF ObjectTypeOK, StepTo

-----------------------------------------------------------------------------
(* What a request comes to *)

LEMMA UploadEffect ==
  ASSUME ObjectTypeOK, NEW j \in Calls, Upload(j)
  PROVE  LET r == [kind |-> "chunk", j |-> j, id |-> j, n |-> sent[j] + 1]
         IN  /\ step[j] = "upload" /\ sent[j] < NumChunks
             /\ sent' = [sent EXCEPT ![j] = @ + 1]
             /\ UNCHANGED <<record, expired, op, by, old, got, result, stray, served>>
             /\ step' = step \/ step' = [step EXCEPT ![j] = "rollback"]
             /\ \/ chunks' = [chunks EXCEPT ![j] = @ \cup {sent[j] + 1}]
                \/ chunks' = chunks /\ step' = [step EXCEPT ![j] = "rollback"]
             /\ \/ late' = late
                \/ /\ late' = [late EXCEPT ![by[j]] = Append(@, r)]
                   /\ chunks' = chunks /\ step' = [step EXCEPT ![j] = "rollback"]
<1> DEFINE r == [kind |-> "chunk", j |-> j, id |-> j, n |-> sent[j] + 1]
<1>1. /\ step[j] = "upload" /\ sent[j] < NumChunks
      /\ sent' = [sent EXCEPT ![j] = @ + 1]
      /\ \/ Answered(j, r) /\ UNCHANGED <<step, result>>
         \/ Unanswered(j, r) /\ StepTo(j, "rollback")
      /\ UNCHANGED <<expired, op, by, old, got>>
  BY DEF Upload
<1>2. r.kind = "chunk" /\ r.id = j /\ r.n = sent[j] + 1
  OBVIOUS
<1> HIDE DEF r
<1>3. Serve(r) => /\ chunks' = [chunks EXCEPT ![j] = @ \cup {sent[j] + 1}]
                  /\ UNCHANGED <<record, stray, served>>
  BY <1>2 DEF Serve
<1>4. Abandon(r) => UNCHANGED <<record, chunks, stray, served>>
  BY <1>2 DEF Abandon
<1>5. CASE Answered(j, r)
  BY <1>1, <1>3, <1>5 DEF Answered, netVars, StepTo, r
<1>6. CASE Unanswered(j, r) /\ StepTo(j, "rollback")
  <2>1. \/ Serve(r) /\ late' = late
        \/ Abandon(r) /\ late' = late
        \/ Abandon(r) /\ late' = [late EXCEPT ![by[j]] = Append(@, r)]
    BY <1>2, <1>6 DEF Unanswered
  <2> QED BY <1>1, <1>3, <1>4, <1>6, <2>1 DEF StepTo, r
<1> QED BY <1>1, <1>5, <1>6

\* The record r is in the place of the one before it, which is left to nobody
\* but, perhaps, to the object a.
Replaced(r, a) ==
  /\ record' = [id |-> r.id, deleted |-> r.deleted]
  /\ served' = served \cup {r.j}
  /\ stray \subseteq stray' /\ chunks' = chunks
  /\ Live => record.id = a \/ record.id \in stray'

LEMMA RecordServed ==
  ASSUME ObjectTypeOK, NEW r \in Request, r.kind = "record", Serve(r)
  PROVE  Replaced(r, r.after)
BY DEF Serve, Replaced, Live

LEMMA RecordAsked ==
  ASSUME ObjectTypeOK, NEW j \in Calls, NEW r \in Request, r.kind = "record", r.j = j,
         NEW q, q = [r EXCEPT !.after = 0]
  PROVE  /\ q \in Request /\ q.kind = "record" /\ q.j = j /\ q.id = r.id
         /\ q.deleted = r.deleted /\ q.after = 0
         /\ Answered(j, r) => late' = late /\ Replaced(r, r.after)
         /\ Unanswered(j, r) =>
              \/ late' = late /\ Replaced(r, 0)
              \/ /\ UNCHANGED <<record, served, stray, chunks>>
                 /\ late' = late \/ late' = [late EXCEPT ![by[j]] = Append(@, q)]
<1>1. 0 \in Id
  BY MaxCallsAssumption DEF Id
<1>2. r \in [kind : {"record"}, j : Calls, id : Calls, deleted : BOOLEAN, after : Id]
  BY DEF Request
<1>3. /\ q \in [kind : {"record"}, j : Calls, id : Calls, deleted : BOOLEAN, after : Id]
      /\ q.kind = "record" /\ q.j = j /\ q.id = r.id /\ q.deleted = r.deleted
      /\ q.after = 0
  BY <1>1, <1>2
<1>4. q \in Request
  BY <1>3 DEF Request
<1>5. Answered(j, r) => late' = late /\ Replaced(r, r.after)
  BY RecordServed DEF Answered, netVars
<1>6. ASSUME Unanswered(j, r)
      PROVE  \/ late' = late /\ Replaced(r, 0)
             \/ /\ UNCHANGED <<record, served, stray, chunks>>
                /\ late' = late \/ late' = [late EXCEPT ![by[j]] = Append(@, q)]
  <2>1. \/ Serve(q) /\ late' = late
        \/ Abandon(q) /\ late' = late
        \/ Abandon(q) /\ late' = [late EXCEPT ![by[j]] = Append(@, q)]
    BY <1>6 DEF Unanswered
  <2>2. CASE Serve(q) /\ late' = late
    <3>1. Replaced(q, q.after)
      BY <1>3, <1>4, <2>2, RecordServed
    <3> QED BY <1>3, <2>2, <3>1 DEF Replaced
  <2>3. CASE Abandon(q)
    BY <1>3, <2>1, <2>3 DEF Abandon
  <2> QED BY <2>1, <2>2, <2>3
<1> QED BY <1>3, <1>4, <1>5, <1>6

LEMMA PurgeAsked ==
  ASSUME ObjectTypeOK, NEW j \in Calls, NEW r \in Request, r.kind = "purge",
         Answered(j, r) \/ Unanswered(j, r)
  PROVE  /\ UNCHANGED <<record, served>>
         /\ \/ /\ late[by[j]] = << >> /\ late' = late /\ stray' = stray
               /\ chunks' = [chunks EXCEPT ![r.id] = {}]
            \/ /\ chunks' = chunks /\ stray' = stray \cup {r.id}
               /\ late' = late \/ late' = [late EXCEPT ![by[j]] = Append(@, r)]
<1>1. Serve(r) => /\ chunks' = [chunks EXCEPT ![r.id] = {}]
                  /\ UNCHANGED <<record, stray, served>>
  BY DEF Serve
<1>2. Abandon(r) => /\ stray' = stray \cup {r.id}
                    /\ UNCHANGED <<record, chunks, served>>
  BY DEF Abandon
<1>3. CASE Answered(j, r)
  BY <1>1, <1>3 DEF Answered, netVars
<1>4. CASE Unanswered(j, r)
  <2>1. \/ late[by[j]] = << >> /\ Serve(r) /\ late' = late
        \/ Abandon(r) /\ late' = late
        \/ Abandon(r) /\ late' = [late EXCEPT ![by[j]] = Append(@, r)]
    BY <1>4 DEF Unanswered
  <2> QED BY <1>1, <1>2, <2>1
<1> QED BY <1>3, <1>4

-----------------------------------------------------------------------------
(* Every step keeps the invariant *)

LEMMA UploadInv ==
  ASSUME ObjectInv, NEW j \in Calls, Upload(j)
  PROVE  ObjectInv'
<1> DEFINE r == [kind |-> "chunk", j |-> j, id |-> j, n |-> sent[j] + 1]
<1>0. /\ ObjectTypeOK /\ ObjectTypeOK' /\ Buffered /\ RecordOK /\ OneByOne /\ NoOtherLeak
      /\ \A k \in Calls : CallOK(k) /\ ChunksOK(k)
  BY UploadType DEF ObjectInv
<1>1. /\ step[j] = "upload" /\ sent[j] < NumChunks
      /\ sent' = [sent EXCEPT ![j] = @ + 1]
      /\ UNCHANGED <<record, expired, op, by, old, got, result, stray, served>>
      /\ step' = step \/ step' = [step EXCEPT ![j] = "rollback"]
      /\ \/ chunks' = [chunks EXCEPT ![j] = @ \cup {sent[j] + 1}]
         \/ chunks' = chunks /\ step' = [step EXCEPT ![j] = "rollback"]
      /\ \/ late' = late
         \/ /\ late' = [late EXCEPT ![by[j]] = Append(@, r)]
            /\ chunks' = chunks /\ step' = [step EXCEPT ![j] = "rollback"]
  BY <1>0, UploadEffect
<1>2. /\ j \in served <=> j \in served'
      /\ j \notin served /\ op[j] = "put" /\ result[j] \in {"none", "cut"}
  BY <1>0, <1>1 DEF CallOK
<1>3. \A k \in Calls \ {j} : step'[k] = step[k] /\ sent'[k] = sent[k] /\ chunks'[k] = chunks[k]
  BY <1>0, <1>1 DEF ObjectTypeOK
<1>4. /\ step'[j] \in {"upload", "rollback"} /\ sent'[j] = sent[j] + 1
      /\ \/ chunks'[j] = chunks[j] \cup {sent[j] + 1}
         \/ chunks'[j] = chunks[j] /\ step'[j] = "rollback"
  BY <1>0, <1>1 DEF ObjectTypeOK
<1>5. ASSUME NEW k \in Calls PROVE CallOK(k)'
  <2>1. CASE k # j
    BY <1>0, <1>1, <1>3, <2>1, CallKept
  <2>2. CASE k = j
    BY <1>0, <1>1, <1>2, <1>4, <2>2 DEF CallOK
  <2> QED BY <2>1, <2>2
<1>6. ASSUME NEW k \in Calls PROVE ChunksOK(k)'
  <2>1. CASE k # j
    BY <1>0, <1>1, <1>3, <2>1, ChunksKept
  <2>2. CASE k = j
    <3>1. /\ sent[j] \in Nat /\ expired[j] \in Nat /\ chunks[j] \subseteq Nat
          /\ expired'[j] = expired[j]
      BY <1>0, <1>1 DEF ObjectTypeOK, Chunks
    <3>2. /\ \A n \in chunks[j] : expired[j] < n /\ n <= sent[j]
          /\ expired[j] <= sent[j]
          /\ \A n \in (expired[j] + 1) .. sent[j] : n \in chunks[j]
      BY <1>0, <1>1 DEF ChunksOK
    <3>3. \A n \in chunks'[j] : expired'[j] < n /\ n <= sent'[j]
      BY <1>4, <3>1, <3>2
    <3>4. step'[j] = "upload" => \A n \in (expired'[j] + 1) .. sent'[j] : n \in chunks'[j]
      BY <1>4, <3>1, <3>2
    <3> QED BY <1>4, <2>2, <3>1, <3>2, <3>3, <3>4 DEF ChunksOK
  <2> QED BY <2>1, <2>2
<1>7. Buffered'
  <2>1. ASSUME NEW c \in Clients, NEW q \in Range(late[c])
        PROVE  q.j # j /\ LateOK(c, q)'
    <3>1. q \in Request /\ LateOK(c, q)
      BY <1>0, <2>1, WaitingIsRequest DEF Buffered
    <3>2. q.j \in Calls /\ q.j # j
      BY <1>1, <3>1, RequestFields DEF LateOK
    <3>3. /\ Complete(q.j) => Complete(q.j)'
          /\ Failed(q.j) => Failed(q.j)'
          /\ Retired(q.id) => Retired(q.id)'
      BY <1>1, <1>3, <3>2 DEF Complete, Failed, Retired
    <3>4. q.kind = "chunk" => expired'[q.j] < q.n /\ \A n \in chunks'[q.j] : n < q.n
      BY <1>1, <1>3, <3>1, <3>2 DEF LateOK
    <3>5. q.kind = "record" => q.j \notin served'
      BY <1>1, <3>1 DEF LateOK
    <3> QED BY <1>1, <1>3, <3>1, <3>2, <3>3, <3>4, <3>5, LateKept
  <2>2. CASE late' = late
    BY <1>0, <2>1, <2>2, BufferSame
  <2>3. CASE /\ late' = [late EXCEPT ![by[j]] = Append(@, r)]
             /\ chunks' = chunks /\ step' = [step EXCEPT ![j] = "rollback"]
    <3>1. sent[j] + 1 \in Chunks /\ by[j] \in Clients
      BY <1>0, <1>1, NumChunksAssumption DEF ObjectTypeOK, Chunks
    <3>2. r \in [kind : {"chunk"}, j : Calls, id : Calls, n : Chunks]
      BY <3>1
    <3>3. r \in Request
      BY <3>2 DEF Request
    <3>4. \A n \in chunks[j] : n < sent[j] + 1
      BY <1>0 DEF ObjectTypeOK, ChunksOK, Chunks
    <3>5. expired[j] < sent[j] + 1
      BY <1>0 DEF ObjectTypeOK, ChunksOK
    <3>6. PICK q : q = r
      OBVIOUS
    <3>7. PICK b : b = by[j]
      OBVIOUS
    <3>8. /\ q \in Request /\ b \in Clients
          /\ q.kind = "chunk" /\ q.j = j /\ q.id = j /\ q.n = sent[j] + 1
      BY <3>1, <3>3, <3>6, <3>7
    <3>9. late' = [late EXCEPT ![b] = Append(@, q)]
      BY <2>3, <3>6, <3>7
    <3> HIDE DEF r
    <3>10. LateOK(b, q)'
      <4>1. by'[j] = b /\ step'[j] = "rollback" /\ op'[j] = "put"
        BY <1>0, <1>1, <1>2, <2>3, <3>7 DEF ObjectTypeOK
      <4>2. q.n = sent'[j] /\ expired'[j] < q.n /\ \A n \in chunks'[j] : n < q.n
        BY <1>1, <1>4, <2>3, <3>4, <3>5, <3>8
      <4> QED BY <3>8, <4>1, <4>2 DEF LateOK
    <3>11. \A p \in Range(late[b]) : p.kind # q.kind \/ p.j # q.j
      BY <2>1, <3>8
    <3>12. \A c \in Clients : \A p \in Range(late[c]) : LateOK(c, p)'
      BY <2>1
    <3> QED BY <1>0, <3>8, <3>9, <3>10, <3>11, <3>12, BufferGrows
  <2> QED BY <1>1, <2>2, <2>3
<1>8. RecordOK'
  <2>1. Live' => Complete(record.id)' \/ Failed(record.id)'
    <3>1. SUFFICES ASSUME Live PROVE Complete(record.id)' \/ Failed(record.id)'
      BY <1>1 DEF Live
    <3>2. record.id \in Calls
      BY <1>0, <3>1 DEF Live, ObjectTypeOK, Record, Id, Calls
    <3>3. chunks[record.id] \subseteq chunks'[record.id]
      BY <1>3, <1>4, <3>2
    <3> QED BY <1>0, <1>1, <3>1, <3>2, <3>3 DEF RecordOK, Complete, Failed
  <2>2. \A k \in Calls : step'[k] = "purge" => step[k] = "purge"
    BY <1>3, <1>4
  <2> QED BY <1>0, <1>1, <2>1, <2>2 DEF RecordOK, Retired
<1>9. OneByOne'
  <2>1. \A k \in Calls : step'[k] = "idle" <=> step[k] = "idle"
    BY <1>1, <1>3, <1>4
  <2> QED BY <1>0, <1>1, <2>1, OneByOneKept
<1>10. NoOtherLeak'
  <2>1. SUFFICES ASSUME NEW i \in Calls, chunks'[i] # {}
                 PROVE  \/ Live /\ record.id = i
                        \/ op[i] = "put" /\ step'[i] \in {"upload", "rollback"}
                        \/ \E k \in Calls : step'[k] = "purge" /\ old[k] = i
                        \/ i \in stray
    BY <1>1 DEF NoOtherLeak, Live
  <2>2. CASE i = j
    BY <1>2, <1>4, <2>2
  <2>3. CASE i # j
    <3>1. \/ Live /\ record.id = i
          \/ op[i] = "put" /\ step[i] \in {"upload", "rollback"}
          \/ \E k \in Calls : step[k] = "purge" /\ old[k] = i
          \/ i \in stray
      BY <1>0, <1>3, <2>1, <2>3 DEF NoOtherLeak
    <3>2. \A k \in Calls : step[k] = "purge" => step'[k] = "purge"
      BY <1>1, <1>3
    <3> QED BY <1>3, <2>3, <3>1, <3>2
  <2> QED BY <2>2, <2>3
<1> QED BY <1>0, <1>5, <1>6, <1>7, <1>8, <1>9, <1>10 DEF ObjectInv

\* A record that may be written.
Writable(r) ==
  /\ r.kind = "record" /\ r.j \in Calls /\ r.id \in Calls /\ r.deleted \in BOOLEAN
  /\ r.j \notin served
  /\ ~r.deleted => r.id = r.j /\ op[r.j] = "put" /\ (Complete(r.j) \/ Failed(r.j))
  /\ r.deleted => r.id \in served /\ op[r.id] = "put"

\* What was in the record, if anything, is retired when another is written.
LEMMA ReplacedKeeps ==
  ASSUME ObjectInv, NEW r, NEW a, Writable(r), Replaced(r, a),
         expired' = expired, op' = op, \A k \in Calls : Failed(k) => Failed(k)'
  PROVE  /\ \A k \in Calls : k \in served' <=> k \in served \/ k = r.j
         /\ \A i \in served : Retired(i)'
         /\ record'.id \in served' /\ op'[record'.id] = "put"
         /\ Live' => record'.id = r.j /\ (Complete(record.id)' \/ Failed(record.id)')
         /\ ~r.deleted => Live' /\ record'.id = r.j
<1>1. /\ record'.id = r.id /\ record'.deleted = r.deleted /\ served' = served \cup {r.j}
      /\ chunks' = chunks
  BY DEF Replaced
<1>2. \A i \in served : Retired(i)'
  BY <1>1 DEF Retired, Writable
<1>3. record'.id \in served' /\ op'[record'.id] = "put"
  BY <1>1 DEF Writable
<1>4. Live' => record'.id = r.j /\ ~r.deleted
  BY <1>1 DEF Live, Writable
<1>5. (Complete(r.j) => Complete(r.j)') /\ (Failed(r.j) => Failed(r.j)')
  BY <1>1 DEF Complete, Writable
<1>6. Live' => Complete(record.id)' \/ Failed(record.id)'
  BY <1>4, <1>5 DEF Writable, Complete, Failed
<1>7. ~r.deleted => Live' /\ record'.id = r.j
  BY <1>1 DEF Live, Writable, Calls
<1> QED BY <1>1, <1>2, <1>3, <1>4, <1>6, <1>7

\* The requests in the buffers stay as they are when a record is written that is
\* not one of them, or is not written.
LEMMA RecordBuffers ==
  ASSUME ObjectInv, NEW j \in Calls, step[j] \in {"upload", "publish"},
         UNCHANGED <<expired, op, by, old, sent, chunks>>, stray \subseteq stray',
         \A k \in Calls \ {j} : step'[k] = step[k],
         \A k \in Calls : Failed(k) => Failed(k)',
         \A k \in Calls : k \in served' => k \in served \/ k = j,
         \A i \in served : Retired(i) => Retired(i)'
  PROVE  \A c \in Clients : \A q \in Range(late[c]) : q.j # j /\ LateOK(c, q)'
<1> SUFFICES ASSUME NEW c \in Clients, NEW q \in Range(late[c])
             PROVE  q.j # j /\ LateOK(c, q)'
  OBVIOUS
<1>1. q \in Request /\ LateOK(c, q)
  BY WaitingIsRequest DEF Buffered, ObjectInv
<1>2. q.j \in Calls /\ q.j # j
  BY <1>1, RequestFields DEF LateOK
<1>3. Complete(q.j) => Complete(q.j)'
  BY DEF Complete
<1>4. q.kind = "chunk" => expired'[q.j] < q.n /\ \A n \in chunks'[q.j] : n < q.n
  BY <1>1 DEF LateOK
<1>5. q.kind = "record" => q.j \notin served'
  BY <1>1, <1>2 DEF LateOK
<1>6. q.kind = "purge" => (Retired(q.id) => Retired(q.id)')
  BY DEF Retired
<1> QED BY <1>1, <1>2, <1>3, <1>4, <1>5, <1>6, LateKept

LEMMA PublishInv ==
  ASSUME ObjectInv, NEW j \in Calls, Publish(j)
  PROVE  ObjectInv'
<1>0. /\ ObjectTypeOK /\ ObjectTypeOK' /\ Buffered /\ RecordOK /\ OneByOne /\ NoOtherLeak
      /\ \A k \in Calls : CallOK(k) /\ ChunksOK(k)
  BY PublishType DEF ObjectInv
<1>1. PICK r : r = PutRecord(j)
  OBVIOUS
<1>2. PICK q : q = [r EXCEPT !.after = 0]
  OBVIOUS
<1>3. PICK b \in Clients : b = by[j]
  BY <1>0 DEF ObjectTypeOK
<1>4. /\ r \in Request /\ r.kind = "record" /\ r.j = j /\ r.id = j
      /\ r.deleted = FALSE /\ r.after = old[j]
  BY <1>0, <1>1, SentRequests DEF PutRecord
<1>5. /\ step[j] = "upload" /\ sent[j] = NumChunks
      /\ UNCHANGED <<expired, op, by, old, sent, got>>
      /\ \/ /\ Answered(j, r)
            /\ IF old[j] = 0 THEN End(j, "ok") ELSE StepTo(j, "purge")
         \/ Unanswered(j, r) /\ StepTo(j, "rollback")
  BY <1>1 DEF Publish
<1>6. /\ q \in Request /\ q.kind = "record" /\ q.j = j /\ q.id = j
      /\ q.deleted = FALSE /\ q.after = 0
  BY <1>0, <1>2, <1>4, RecordAsked
<1>7. \/ late' = late /\ Replaced(r, old[j]) /\ old[j] = 0 /\ End(j, "ok")
      \/ late' = late /\ Replaced(r, old[j]) /\ old[j] # 0 /\ StepTo(j, "purge")
      \/ late' = late /\ Replaced(r, 0) /\ StepTo(j, "rollback")
      \/ /\ UNCHANGED <<record, served, stray, chunks>> /\ StepTo(j, "rollback")
         /\ late' = late \/ late' = [late EXCEPT ![b] = Append(@, q)]
  BY <1>0, <1>2, <1>3, <1>4, <1>5, RecordAsked
<1>8. /\ j \notin served /\ op[j] = "put" /\ result[j] \in {"none", "cut"}
      /\ Complete(j)
  BY <1>0, <1>5 DEF CallOK, ChunksOK, Complete
<1>9. Writable(r)
  BY <1>4, <1>8 DEF Writable
<1>10. /\ chunks' = chunks /\ stray \subseteq stray'
       /\ \/ step'[j] = "ended" /\ result'[j] \in {"ok", "cut"} /\ Replaced(r, 0)
          \/ /\ step'[j] = "purge" /\ result' = result /\ old[j] # 0
             /\ Replaced(r, old[j])
          \/ /\ step'[j] = "rollback" /\ result' = result
             /\ Replaced(r, 0) \/ UNCHANGED <<record, served, stray>>
       /\ result[j] # "none" => result'[j] = result[j]
       /\ \A k \in Calls \ {j} : step'[k] = step[k] /\ result'[k] = result[k]
  BY <1>0, <1>7, <1>8, EndEffect, StepEffect DEF Replaced
<1>11. \A k \in Calls : Failed(k) => Failed(k)'
  BY <1>8, <1>10 DEF Failed
<1>12. ASSUME NEW a, Replaced(r, a)
       PROVE  /\ \A k \in Calls : k \in served' <=> k \in served \/ k = j
              /\ \A i \in served : Retired(i)'
              /\ record'.id \in served' /\ op'[record'.id] = "put"
              /\ Live' /\ record'.id = j
              /\ Complete(record.id)' \/ Failed(record.id)'
  BY <1>4, <1>5, <1>9, <1>11, <1>12, ReplacedKeeps
<1>13. /\ \A k \in Calls : k \in served' => k \in served \/ k = j
       /\ \A k \in Calls : k \in served => k \in served'
       /\ \A i \in served : Retired(i) => Retired(i)'
  <2>1. CASE UNCHANGED <<record, served, stray>>
    BY <2>1 DEF Retired
  <2> QED BY <1>10, <1>12, <2>1
<1>14. ASSUME NEW k \in Calls PROVE CallOK(k)'
  <2>1. CASE k # j
    BY <1>0, <1>5, <1>10, <1>13, <2>1, CallKept
  <2>2. CASE k = j
    <3>1. step'[j] \in {"ended", "purge"} => j \in served'
      BY <1>10, <1>12
    <3> QED BY <1>0, <1>5, <1>8, <1>10, <2>2, <3>1 DEF CallOK
  <2> QED BY <2>1, <2>2
<1>15. ASSUME NEW k \in Calls PROVE ChunksOK(k)'
  <2>1. step'[k] = "upload" => step[k] = "upload"
    BY <1>5, <1>10
  <2> QED BY <1>0, <1>5, <1>10, <2>1, ChunksKept
<1>16. Buffered'
  <2>1. \A c \in Clients : \A p \in Range(late[c]) : p.j # j /\ LateOK(c, p)'
    BY <1>5, <1>10, <1>11, <1>13, RecordBuffers
  <2>2. CASE late' = late
    BY <1>0, <2>1, <2>2, BufferSame
  <2>3. CASE /\ UNCHANGED <<record, served, stray, chunks>> /\ StepTo(j, "rollback")
             /\ late' = [late EXCEPT ![b] = Append(@, q)]
    <3>1. step'[j] = "rollback" /\ by'[j] = b /\ Complete(j)' /\ j \notin served'
      BY <1>0, <1>3, <1>5, <1>8, <2>3, StepEffect DEF Complete
    <3>2. LateOK(b, q)'
      BY <1>5, <1>6, <1>8, <3>1 DEF LateOK
    <3> QED BY <1>0, <1>6, <2>1, <2>3, <3>2, BufferGrows
  <2> QED BY <1>7, <2>2, <2>3
<1>17. RecordOK'
  <2>1. record'.id # 0 => record'.id \in served' /\ op'[record'.id] = "put"
    BY <1>0, <1>5, <1>10, <1>12 DEF RecordOK
  <2>2. ASSUME NEW k \in Calls
        PROVE  old'[k] # 0 => old'[k] \in served' /\ op'[old'[k]] = "put"
    BY <1>0, <1>5, <1>10, <1>13 DEF RecordOK, ObjectTypeOK
  <2>3. ASSUME NEW k \in Calls, step'[k] = "purge" PROVE Retired(old[k])'
    <3>1. CASE k = j
      <4>1. old[j] \in served
        BY <1>0, <1>10, <2>3, <3>1 DEF RecordOK
      <4> QED BY <1>5, <1>10, <1>12, <2>3, <3>1, <4>1 DEF Retired
    <3>2. CASE k # j
      <4>1. Retired(old[k]) /\ old[k] \in served /\ old'[k] = old[k]
        BY <1>0, <1>5, <1>10, <2>3, <3>2 DEF RecordOK, Retired
      <4> QED BY <1>13, <4>1 DEF Retired
    <3> QED BY <3>1, <3>2
  <2>4. Live' => Complete(record.id)' \/ Failed(record.id)'
    <3>1. CASE UNCHANGED <<record, served, stray>>
      BY <1>0, <1>5, <1>10, <1>11, <3>1 DEF RecordOK, Live, Complete, ObjectTypeOK, Record, Id, Calls
    <3> QED BY <1>10, <1>12, <3>1
  <2> QED BY <2>1, <2>2, <2>3, <2>4 DEF RecordOK
<1>18. OneByOne'
  <2>1. \A k \in Calls : step'[k] = "idle" <=> step[k] = "idle"
    BY <1>5, <1>10
  <2>2. \A k \in Calls : result'[k] = "none" => result[k] = "none"
    BY <1>10
  <2> QED BY <1>0, <1>5, <2>1, <2>2, OneByOneKept
<1>19. NoOtherLeak'
  <2>1. SUFFICES ASSUME NEW i \in Calls, chunks[i] # {}
                 PROVE  \/ Live' /\ record'.id = i
                        \/ op'[i] = "put" /\ step'[i] \in {"upload", "rollback"}
                        \/ \E k \in Calls : step'[k] = "purge" /\ old'[k] = i
                        \/ i \in stray'
    BY <1>10 DEF NoOtherLeak
  <2>2. CASE i = j
    BY <1>5, <1>8, <1>10, <1>12, <2>2
  <2>3. CASE i # j
    <3>1. \/ Live /\ record.id = i
          \/ op[i] = "put" /\ step[i] \in {"upload", "rollback"}
          \/ \E k \in Calls : step[k] = "purge" /\ old[k] = i
          \/ i \in stray
      BY <1>0, <2>1 DEF NoOtherLeak
    <3>2. CASE Live /\ record.id = i
      <4>1. i # 0
        BY DEF Calls
      <4>2. CASE Replaced(r, 0)
        BY <3>2, <4>1, <4>2 DEF Replaced, Live
      <4>3. CASE Replaced(r, old[j]) /\ step'[j] = "purge"
        BY <1>5, <3>2, <4>3 DEF Replaced, Live
      <4>4. CASE UNCHANGED <<record, served, stray>>
        BY <3>2, <4>4 DEF Live
      <4> QED BY <1>10, <4>2, <4>3, <4>4
    <3>3. \A k \in Calls : step[k] = "purge" => step'[k] = "purge"
      BY <1>5, <1>10
    <3> QED BY <1>5, <1>10, <2>3, <3>1, <3>2, <3>3
  <2> QED BY <2>2, <2>3
<1> QED BY <1>0, <1>14, <1>15, <1>16, <1>17, <1>18, <1>19 DEF ObjectInv

LEMMA PublishDeletionInv ==
  ASSUME ObjectInv, NEW j \in Calls, PublishDeletion(j)
  PROVE  ObjectInv'
<1>0. /\ ObjectTypeOK /\ Buffered /\ RecordOK /\ OneByOne /\ NoOtherLeak
      /\ \A k \in Calls : CallOK(k) /\ ChunksOK(k)
  BY DEF ObjectInv
<1>1. PICK r : r = [kind |-> "record", j |-> j, id |-> old[j], deleted |-> TRUE,
                    after |-> old[j]]
  OBVIOUS
<1>2. PICK q : q = [r EXCEPT !.after = 0]
  OBVIOUS
<1>3. PICK b \in Clients : b = by[j]
  BY <1>0 DEF ObjectTypeOK
<1>4. /\ step[j] = "publish"
      /\ UNCHANGED <<expired, op, by, old, sent, got>>
      /\ \/ Answered(j, r) /\ StepTo(j, "purge")
         \/ Unanswered(j, r) /\ End(j, "failed")
  BY <1>1 DEF PublishDeletion
<1>5. /\ j \notin served /\ op[j] = "delete" /\ old[j] # 0
      /\ result[j] \in {"none", "cut"}
      /\ old[j] \in served /\ op[old[j]] = "put" /\ old[j] \in Calls
  BY <1>0, <1>4 DEF CallOK, RecordOK, ObjectTypeOK, Id, Calls
<1>6. /\ r \in Request /\ r.kind = "record" /\ r.j = j /\ r.id = old[j]
      /\ r.deleted = TRUE /\ r.after = old[j]
  BY <1>0, <1>1, <1>5, SentRequests
<1>7. /\ q \in Request /\ q.kind = "record" /\ q.j = j /\ q.id = old[j]
      /\ q.deleted = TRUE /\ q.after = 0
  BY <1>0, <1>2, <1>6, RecordAsked
<1>8. \/ late' = late /\ Replaced(r, old[j]) /\ StepTo(j, "purge")
      \/ late' = late /\ Replaced(r, 0) /\ End(j, "failed")
      \/ /\ UNCHANGED <<record, served, stray, chunks>> /\ End(j, "failed")
         /\ late' = late \/ late' = [late EXCEPT ![b] = Append(@, q)]
  BY <1>0, <1>2, <1>3, <1>4, <1>6, RecordAsked
<1>9. Writable(r)
  BY <1>5, <1>6 DEF Writable
<1>10. /\ chunks' = chunks /\ stray \subseteq stray'
       /\ \/ /\ step'[j] = "purge" /\ result'[j] = result[j]
             /\ Replaced(r, old[j])
          \/ /\ step'[j] = "ended" /\ result'[j] \in {"failed", "cut"}
             /\ Replaced(r, 0) \/ UNCHANGED <<record, served, stray>>
       /\ result[j] # "none" => result'[j] = result[j]
       /\ \A k \in Calls \ {j} : step'[k] = step[k] /\ result'[k] = result[k]
  BY <1>0, <1>5, <1>8, EndEffect, StepEffect DEF Replaced
<1>11. \A k \in Calls : Failed(k) => Failed(k)'
  BY <1>10 DEF Failed
<1>12. ASSUME NEW a, Replaced(r, a)
       PROVE  /\ \A k \in Calls : k \in served' <=> k \in served \/ k = j
              /\ \A i \in served : Retired(i)'
              /\ record'.id \in served' /\ op'[record'.id] = "put"
              /\ ~Live'
  <2>1. record'.deleted = TRUE
    BY <1>6, <1>12 DEF Replaced
  <2> QED BY <1>4, <1>6, <1>9, <1>11, <1>12, <2>1, ReplacedKeeps DEF Live
<1>13. /\ \A k \in Calls : k \in served' => k \in served \/ k = j
       /\ \A k \in Calls : k \in served => k \in served'
       /\ \A i \in served : Retired(i) => Retired(i)'
  <2>1. CASE UNCHANGED <<record, served, stray>>
    BY <2>1 DEF Retired
  <2> QED BY <1>10, <1>12, <2>1
<1>14. ASSUME NEW k \in Calls PROVE CallOK(k)'
  <2>1. CASE k # j
    BY <1>0, <1>4, <1>10, <1>13, <2>1, CallKept
  <2>2. CASE k = j
    <3>1. step'[j] = "purge" => j \in served'
      BY <1>10, <1>12
    <3> QED BY <1>0, <1>4, <1>5, <1>10, <2>2, <3>1 DEF CallOK
  <2> QED BY <2>1, <2>2
<1>15. ASSUME NEW k \in Calls PROVE ChunksOK(k)'
  <2>1. step'[k] = "upload" => step[k] = "upload"
    BY <1>10
  <2> QED BY <1>0, <1>4, <1>10, <2>1, ChunksKept
<1>16. Buffered'
  <2>1. \A c \in Clients : \A p \in Range(late[c]) : p.j # j /\ LateOK(c, p)'
    BY <1>4, <1>10, <1>11, <1>13, RecordBuffers
  <2>2. CASE late' = late
    BY <1>0, <2>1, <2>2, BufferSame
  <2>3. CASE /\ UNCHANGED <<record, served, stray, chunks>> /\ End(j, "failed")
             /\ late' = [late EXCEPT ![b] = Append(@, q)]
    <3>1. step'[j] = "ended" /\ by'[j] = b /\ j \notin served'
      BY <1>0, <1>3, <1>4, <1>5, <2>3, EndEffect
    <3>2. LateOK(b, q)'
      BY <1>4, <1>5, <1>7, <3>1 DEF LateOK
    <3> QED BY <1>0, <1>7, <2>1, <2>3, <3>2, BufferGrows
  <2> QED BY <1>8, <2>2, <2>3
<1>17. RecordOK'
  <2>1. record'.id # 0 => record'.id \in served' /\ op'[record'.id] = "put"
    BY <1>0, <1>4, <1>10, <1>12 DEF RecordOK
  <2>2. ASSUME NEW k \in Calls
        PROVE  old'[k] # 0 => old'[k] \in served' /\ op'[old'[k]] = "put"
    BY <1>0, <1>4, <1>13 DEF RecordOK, ObjectTypeOK, Id, Calls
  <2>3. ASSUME NEW k \in Calls, step'[k] = "purge" PROVE Retired(old[k])'
    <3>1. CASE k = j
      BY <1>4, <1>5, <1>10, <1>12, <2>3, <3>1 DEF Retired
    <3>2. CASE k # j
      <4>1. Retired(old[k]) /\ old[k] \in served /\ old'[k] = old[k]
        BY <1>0, <1>4, <1>10, <2>3, <3>2 DEF RecordOK, Retired
      <4> QED BY <1>13, <4>1 DEF Retired
    <3> QED BY <3>1, <3>2
  <2>4. Live' => Complete(record.id)' \/ Failed(record.id)'
    <3>1. CASE UNCHANGED <<record, served, stray>>
      BY <1>0, <1>4, <1>10, <1>11, <3>1 DEF RecordOK, Live, Complete, ObjectTypeOK, Record, Id, Calls
    <3> QED BY <1>10, <1>12, <3>1
  <2> QED BY <2>1, <2>2, <2>3, <2>4 DEF RecordOK
<1>18. OneByOne'
  <2>1. \A k \in Calls : step'[k] = "idle" <=> step[k] = "idle"
    BY <1>4, <1>10
  <2>2. \A k \in Calls : result'[k] = "none" => result[k] = "none"
    BY <1>10
  <2> QED BY <1>0, <1>4, <2>1, <2>2, OneByOneKept
<1>19. NoOtherLeak'
  <2>1. SUFFICES ASSUME NEW i \in Calls, chunks[i] # {}
                 PROVE  \/ Live' /\ record'.id = i
                        \/ op'[i] = "put" /\ step'[i] \in {"upload", "rollback"}
                        \/ \E k \in Calls : step'[k] = "purge" /\ old'[k] = i
                        \/ i \in stray'
    BY <1>10 DEF NoOtherLeak
  <2>2. \/ Live /\ record.id = i
        \/ op[i] = "put" /\ step[i] \in {"upload", "rollback"}
        \/ \E k \in Calls : step[k] = "purge" /\ old[k] = i
        \/ i \in stray
    BY <1>0, <2>1 DEF NoOtherLeak
  <2>3. CASE Live /\ record.id = i
    <3>1. i # 0
      BY DEF Calls
    <3>2. CASE Replaced(r, 0)
      BY <2>3, <3>1, <3>2 DEF Replaced, Live
    <3>3. CASE Replaced(r, old[j]) /\ step'[j] = "purge"
      BY <1>4, <2>3, <3>3 DEF Replaced, Live
    <3>4. CASE UNCHANGED <<record, served, stray>>
      BY <2>3, <3>4 DEF Live
    <3> QED BY <1>10, <3>2, <3>3, <3>4
  <2>4. \A k \in Calls : step[k] \in {"upload", "rollback", "purge"} => step'[k] = step[k]
    BY <1>4, <1>10
  <2> QED BY <1>4, <1>10, <2>2, <2>3, <2>4
<1> QED BY <1>0, <1>14, <1>15, <1>16, <1>17, <1>18, <1>19, PublishDeletionType, <1>5
        DEF ObjectInv

\* The chunks of object i are purged, or are left, or will be purged late.
LEMMA PurgeInv ==
  ASSUME ObjectInv, ObjectTypeOK', NEW j \in Calls, NEW i \in Calls,
         step[j] \in {"purge", "rollback"},
         Retired(i) \/ (i = j /\ step[j] = "rollback"),
         step[j] = "purge" => i = old[j],
         step[j] = "rollback" => i = j,
         NEW h \in {"ok", "failed"}, End(j, h),
         h = "ok" => step[j] = "purge",
         UNCHANGED <<expired, op, by, old, sent, got, record, served>>,
         NEW b \in Clients, b = by[j],
         NEW r \in Request, r = [kind |-> "purge", j |-> j, id |-> i],
         \/ /\ late[b] = << >> /\ late' = late /\ stray' = stray
            /\ chunks' = [chunks EXCEPT ![i] = {}]
         \/ /\ chunks' = chunks /\ stray' = stray \cup {i}
            /\ late' = late \/ late' = [late EXCEPT ![b] = Append(@, r)]
  PROVE  ObjectInv'
<1>0. /\ ObjectTypeOK /\ Buffered /\ RecordOK /\ OneByOne /\ NoOtherLeak
      /\ \A k \in Calls : CallOK(k) /\ ChunksOK(k)
  BY DEF ObjectInv
<1>1. /\ step'[j] = "ended" /\ \A k \in Calls \ {j} : step'[k] = step[k]
      /\ result'[j] = IF result[j] = "none" THEN h ELSE result[j]
      /\ \A k \in Calls \ {j} : result'[k] = result[k]
  BY <1>0, EndEffect
<1>2. /\ result[j] \in {"none", "cut"} /\ op[j] \in {"put", "delete"}
      /\ step[j] = "purge" => j \in served
      /\ result'[j] \in {"ok", "failed", "cut"}
      /\ step[j] = "rollback" => result'[j] \in {"failed", "cut"} /\ op[j] = "put"
  BY <1>0, <1>1 DEF CallOK
<1>3. /\ stray \subseteq stray'
      /\ \A k \in Calls : chunks'[k] \subseteq chunks[k]
      /\ \A k \in Calls \ {i} : chunks'[k] = chunks[k]
      /\ chunks'[i] = {} \/ (i \in stray' /\ chunks'[i] = chunks[i])
  BY <1>0 DEF ObjectTypeOK
<1>4. step[i] # "upload"
  BY <1>0 DEF Retired, CallOK
<1>5. \A k \in Calls : Failed(k) => Failed(k)'
  BY <1>1, <1>2 DEF Failed
<1>6. \A k : Retired(k)' <=> Retired(k)
  BY DEF Retired
<1>7. ASSUME NEW k \in Calls PROVE CallOK(k)'
  <2>1. CASE k # j
    BY <1>0, <1>1, <2>1, CallKept
  <2>2. CASE k = j
    BY <1>0, <1>1, <1>2, <2>2 DEF CallOK
  <2> QED BY <2>1, <2>2
<1>8. ASSUME NEW k \in Calls PROVE ChunksOK(k)'
  <2>1. step'[k] = "upload" => step[k] = "upload" /\ chunks'[k] = chunks[k]
    BY <1>1, <1>3, <1>4
  <2> QED BY <1>0, <1>3, <2>1, ChunksKept
<1>9. ASSUME NEW k \in Calls, Complete(k)
      PROVE  Complete(k)' \/ k = i
  BY <1>3, <1>9 DEF Complete
<1>10. Buffered'
  <2>1. ASSUME NEW c \in Clients, NEW p \in Range(late[c])
        PROVE  /\ LateOK(c, p)'
               /\ p.kind # "purge" \/ p.j # j
    <3>1. p \in Request /\ LateOK(c, p) /\ p.j \in Calls
      BY <1>0, <2>1, WaitingIsRequest, RequestFields DEF Buffered
    <3>2. p.kind # "purge" \/ p.j # j
      BY <3>1 DEF LateOK
    <3>3. p.kind = "chunk" => expired'[p.j] < p.n /\ \A n \in chunks'[p.j] : n < p.n
      BY <1>3, <3>1 DEF LateOK
    <3>4. p.kind = "record" =>
            p.j \notin served' /\ (Complete(p.j) => Complete(p.j)' \/ Failed(p.j)')
      <4>1. ASSUME p.kind = "record" PROVE p.j = i => Failed(p.j)'
        <5>1. p.j \notin served
          BY <3>1, <4>1 DEF LateOK
        <5> QED BY <1>2, <5>1 DEF Retired, Failed
      <4> QED BY <1>9, <3>1, <4>1 DEF LateOK
    <3>5. p.kind = "chunk" => p.j # j \/ p.j \in stray'
      <4>1. SUFFICES ASSUME p.kind = "chunk", p.j = j PROVE j \in stray'
        OBVIOUS
      <4>2. /\ by[j] = c /\ step[j] = "rollback"
        BY <3>1, <4>1 DEF LateOK
      <4>3. late[c] # << >>
        <5>1. late[c] \in Seq(Request)
          BY <1>0 DEF ObjectTypeOK
        <5>2. Range(late[c]) = {late[c][x] : x \in 1 .. Len(late[c])}
          BY <5>1, RangeEquality
        <5>3. PICK x \in 1 .. Len(late[c]) : p = late[c][x]
          BY <2>1, <5>2
        <5>4. ASSUME late[c] = << >> PROVE FALSE
          <6>1. Len(late[c]) = 0
            BY <5>4, EmptySeq
          <6> QED BY <5>3, <6>1
        <5> QED BY <5>4
      <4> QED BY <4>2, <4>3
    <3>6. \/ step'[p.j] = step[p.j]
          \/ step'[p.j] = "ended" /\ (p.kind = "chunk" => p.j \in stray')
      BY <1>1, <3>1, <3>5
    <3>7. LateOK(c, p)'
      BY <1>3, <1>5, <1>6, <3>1, <3>3, <3>4, <3>6, LateKept
    <3> QED BY <3>2, <3>7
  <2>2. CASE late' = late
    BY <1>0, <2>1, <2>2, BufferSame
  <2>3. CASE late' = [late EXCEPT ![b] = Append(@, r)]
    <3>1. r.kind = "purge" /\ r.j = j /\ r.id = i
      OBVIOUS
    <3>2. LateOK(b, r)'
      BY <1>1, <1>2, <1>6, <3>1 DEF LateOK, Failed
    <3>3. \A p \in Range(late[b]) : p.kind # r.kind \/ p.j # r.j
      BY <2>1, <3>1
    <3>4. \A c \in Clients : \A p \in Range(late[c]) : LateOK(c, p)'
      BY <2>1
    <3> HIDE DEF Range
    <3> QED BY <1>0, <2>3, <3>2, <3>3, <3>4, BufferGrows
  <2> QED BY <2>2, <2>3
<1>11. RecordOK'
  <2>1. \A k \in Calls : step'[k] = "purge" => step[k] = "purge"
    BY <1>1
  <2>2. Live' => Complete(record.id)' \/ Failed(record.id)'
    <3>1. SUFFICES ASSUME Live PROVE Complete(record.id)' \/ Failed(record.id)'
      BY DEF Live
    <3>2. record.id \in Calls
      BY <1>0, <3>1 DEF Live, ObjectTypeOK, Record, Id, Calls
    <3>3. Complete(record.id) \/ Failed(record.id)
      BY <1>0, <3>1 DEF RecordOK
    <3>4. CASE Failed(record.id)
      BY <1>5, <3>2, <3>4 DEF Failed
    <3>5. CASE Complete(record.id) /\ record.id # i
      BY <1>3, <3>2, <3>5 DEF Complete
    <3>6. CASE record.id = i
      <4>1. step[j] = "rollback" /\ i = j
        BY <3>1, <3>6 DEF Retired, Live
      <4> QED BY <1>2, <3>6, <4>1 DEF Failed
    <3> QED BY <3>3, <3>4, <3>5, <3>6
  <2> QED BY <1>0, <1>6, <2>1, <2>2 DEF RecordOK, Retired
<1>12. OneByOne'
  <2>1. \A k \in Calls : step'[k] = "idle" <=> step[k] = "idle"
    BY <1>1
  <2>2. \A k \in Calls : result'[k] = "none" => result[k] = "none"
    BY <1>1
  <2> QED BY <1>0, <2>1, <2>2, OneByOneKept
<1>13. NoOtherLeak'
  <2>1. SUFFICES ASSUME NEW k \in Calls, chunks'[k] # {}
                 PROVE  \/ Live /\ record.id = k
                        \/ op[k] = "put" /\ step'[k] \in {"upload", "rollback"}
                        \/ \E l \in Calls : step'[l] = "purge" /\ old[l] = k
                        \/ k \in stray'
    BY DEF NoOtherLeak, Live
  <2>2. CASE k = i
    BY <1>3, <2>1, <2>2
  <2>3. CASE k # i
    <3>1. \/ Live /\ record.id = k
          \/ op[k] = "put" /\ step[k] \in {"upload", "rollback"}
          \/ \E l \in Calls : step[l] = "purge" /\ old[l] = k
          \/ k \in stray
      BY <1>0, <1>3, <2>1, <2>3 DEF NoOtherLeak
    <3>2. step[k] \in {"upload", "rollback"} => step'[k] = step[k]
      BY <1>1, <2>3
    <3>3. \A l \in Calls : step[l] = "purge" /\ old[l] = k => step'[l] = "purge"
      BY <1>1, <2>3
    <3> QED BY <1>3, <3>1, <3>2, <3>3
  <2> QED BY <2>2, <2>3
<1> QED BY <1>7, <1>8, <1>10, <1>11, <1>12, <1>13 DEF ObjectInv

LEMMA PurgeOldInv ==
  ASSUME ObjectInv, NEW j \in Calls, PurgeOld(j)
  PROVE  ObjectInv'
<1>0. ObjectTypeOK /\ RecordOK /\ CallOK(j)
  BY DEF ObjectInv
<1>1. PICK i : i = old[j]
  OBVIOUS
<1>2. PICK r : r = [kind |-> "purge", j |-> j, id |-> i]
  OBVIOUS
<1>3. PICK b \in Clients : b = by[j]
  BY <1>0 DEF ObjectTypeOK
<1>4. /\ step[j] = "purge"
      /\ Answered(j, r) \/ Unanswered(j, r)
      /\ End(j, "ok") \/ End(j, "failed")
      /\ UNCHANGED <<expired, op, by, old, sent, got>>
  BY <1>1, <1>2 DEF PurgeOld
<1>5. i # 0 /\ i \in Calls /\ Retired(i) /\ ObjectTypeOK'
  BY <1>0, <1>1, <1>4, PurgeOldType DEF CallOK, RecordOK, ObjectTypeOK, Id, Calls
<1>6. r \in Request /\ r.kind = "purge" /\ r.id = i
  BY <1>0, <1>1, <1>2, <1>5, SentRequests
<1>7. /\ UNCHANGED <<record, served>>
      /\ \/ /\ late[b] = << >> /\ late' = late /\ stray' = stray
            /\ chunks' = [chunks EXCEPT ![i] = {}]
         \/ /\ chunks' = chunks /\ stray' = stray \cup {i}
            /\ late' = late \/ late' = [late EXCEPT ![b] = Append(@, r)]
  BY <1>0, <1>3, <1>4, <1>6, PurgeAsked
<1> QED BY <1>1, <1>2, <1>3, <1>4, <1>5, <1>6, <1>7, PurgeInv

LEMMA RollbackInv ==
  ASSUME ObjectInv, NEW j \in Calls, Rollback(j)
  PROVE  ObjectInv'
<1>0. ObjectTypeOK
  BY DEF ObjectInv
<1>1. PICK r : r = [kind |-> "purge", j |-> j, id |-> j]
  OBVIOUS
<1>2. PICK b \in Clients : b = by[j]
  BY <1>0 DEF ObjectTypeOK
<1>3. /\ step[j] = "rollback"
      /\ Answered(j, r) \/ Unanswered(j, r)
      /\ End(j, "failed")
      /\ UNCHANGED <<expired, op, by, old, sent, got>>
  BY <1>1 DEF Rollback
<1>4. r \in Request /\ r.kind = "purge" /\ r.id = j /\ ObjectTypeOK'
  BY <1>0, <1>1, SentRequests, RollbackType
<1>5. /\ UNCHANGED <<record, served>>
      /\ \/ /\ late[b] = << >> /\ late' = late /\ stray' = stray
            /\ chunks' = [chunks EXCEPT ![j] = {}]
         \/ /\ chunks' = chunks /\ stray' = stray \cup {j}
            /\ late' = late \/ late' = [late EXCEPT ![b] = Append(@, r)]
  BY <1>0, <1>2, <1>3, <1>4, PurgeAsked
<1> QED BY <1>1, <1>2, <1>3, <1>4, <1>5, PurgeInv

LEMMA ServeLateInv ==
  ASSUME ObjectInv, NEW c \in Clients, ServeLate(c)
  PROVE  ObjectInv'
<1>0. /\ ObjectTypeOK /\ ObjectTypeOK' /\ Buffered /\ RecordOK /\ OneByOne /\ NoOtherLeak
      /\ \A k \in Calls : CallOK(k) /\ ChunksOK(k)
  BY ServeLateType DEF ObjectInv
<1>1. PICK h : h = Head(late[c])
  OBVIOUS
<1>2. /\ late[c] # << >> /\ Serve(h)
      /\ late' = [late EXCEPT ![c] = Tail(@)]
      /\ UNCHANGED <<expired, op, by, step, old, sent, got, result>>
  BY <1>1 DEF ServeLate, callVars
<1>3. /\ h \in Request /\ LateOK(c, h) /\ h.j \in Calls /\ h.id \in Calls
      /\ h.kind \in {"chunk", "record", "purge"}
  <2>1. h \in Range(late[c]) /\ h \in Request
    BY <1>0, <1>1, <1>2, TailRange DEF ObjectTypeOK
  <2> QED BY <1>0, <2>1, RequestFields DEF Buffered
<1>4. OneByOne'
  BY <1>0, <1>2, OneByOneKept
<1>5. \A k \in Calls : (Failed(k)' <=> Failed(k))
  BY <1>2 DEF Failed
<1>6. ASSUME \A d \in Clients : \A p \in Range(late[d]) :
               p.kind # h.kind \/ p.j # h.j => LateOK(d, p)'
      PROVE  Buffered'
  BY <1>0, <1>1, <1>2, <1>6, BufferShrinks
<1>7. ASSUME NEW d \in Clients, NEW p \in Range(late[d])
      PROVE  p \in Request /\ p.j \in Calls /\ LateOK(d, p)
  BY <1>0, <1>7, WaitingIsRequest, RequestFields DEF Buffered
<1>8. CASE h.kind = "chunk"
  <2>1. /\ chunks' = [chunks EXCEPT ![h.id] = @ \cup {h.n}]
        /\ UNCHANGED <<record, stray, served>>
    BY <1>2, <1>8 DEF Serve
  <2>2. /\ h.id = h.j /\ op[h.j] = "put" /\ h.n = sent[h.j] /\ expired[h.j] < h.n
        /\ step[h.j] \in {"rollback", "ended"}
        /\ step[h.j] = "rollback" \/ h.j \in stray
    BY <1>3, <1>8 DEF LateOK
  <2>3. /\ chunks'[h.j] = chunks[h.j] \cup {h.n}
        /\ \A k \in Calls \ {h.j} : chunks'[k] = chunks[k]
    BY <1>0, <1>3, <2>1, <2>2 DEF ObjectTypeOK
  <2>4. \A k \in Calls : Complete(k) => Complete(k)'
    BY <1>2, <2>3 DEF Complete
  <2>5. ASSUME NEW k \in Calls PROVE CallOK(k)'
    BY <1>0, <1>2, <2>1, CallKept
  <2>6. ASSUME NEW k \in Calls PROVE ChunksOK(k)'
    <3>1. CASE k # h.j
      BY <1>0, <1>2, <2>3, <3>1, ChunksKept
    <3>2. CASE k = h.j
      <4>1. sent[k] \in Nat /\ step[k] # "upload"
        BY <1>0, <2>2, <3>2 DEF ObjectTypeOK
      <4> QED BY <1>0, <1>2, <2>2, <2>3, <3>2, <4>1 DEF ChunksOK
    <3> QED BY <3>1, <3>2
  <2>7. Buffered'
    <3>1. ASSUME NEW d \in Clients, NEW p \in Range(late[d]), p.kind # h.kind \/ p.j # h.j
          PROVE  LateOK(d, p)'
      <4>1. p \in Request /\ p.j \in Calls /\ LateOK(d, p)
        BY <1>7, <3>1
      <4>2. p.kind = "chunk" => expired'[p.j] < p.n /\ \A n \in chunks'[p.j] : n < p.n
        BY <1>2, <1>8, <2>3, <3>1, <4>1 DEF LateOK
      <4>3. p.kind = "record" => p.j \notin served'
        BY <2>1, <4>1 DEF LateOK
      <4>4. Retired(p.id) => Retired(p.id)'
        BY <2>1 DEF Retired
      <4> QED BY <1>2, <1>5, <2>1, <2>4, <4>1, <4>2, <4>3, <4>4, LateKept
    <3> QED BY <1>6, <3>1
  <2>8. RecordOK'
    <3>1. Live' => Complete(record.id)' \/ Failed(record.id)'
      BY <1>0, <1>2, <1>5, <2>1, <2>4
         DEF RecordOK, Live, ObjectTypeOK, Record, Id, Calls, Complete, Failed
    <3> QED BY <1>0, <1>2, <2>1, <3>1 DEF RecordOK, Retired
  <2>9. NoOtherLeak'
    BY <1>0, <1>2, <2>1, <2>2, <2>3 DEF NoOtherLeak, Live
  <2> QED BY <1>0, <1>4, <2>5, <2>6, <2>7, <2>8, <2>9 DEF ObjectInv
<1>9. CASE h.kind = "record"
  <2>1. /\ h.after = 0 /\ h.j \notin served /\ step[h.j] \in {"rollback", "ended"}
        /\ h.deleted => op[h.j] = "delete" /\ h.id = old[h.j]
        /\ ~h.deleted => /\ op[h.j] = "put" /\ h.id = h.j
                         /\ Complete(h.j) \/ Failed(h.j)
    BY <1>3, <1>9 DEF LateOK
  <2>2. Replaced(h, 0)
    BY <1>0, <1>2, <1>3, <1>9, <2>1, RecordServed
  <2>3. Writable(h)
    <3>1. h.deleted => h.id \in served /\ op[h.id] = "put"
      <4>1. h.id # 0
        BY <1>3 DEF Calls
      <4> QED BY <1>0, <1>3, <2>1, <4>1 DEF RecordOK
    <3> QED BY <1>3, <1>9, <2>1, <3>1, RequestFields DEF Writable
  <2>4. /\ \A k \in Calls : k \in served' <=> k \in served \/ k = h.j
        /\ \A i \in served : Retired(i)'
        /\ record'.id \in served' /\ op'[record'.id] = "put"
        /\ Live' => record'.id = h.j /\ (Complete(record.id)' \/ Failed(record.id)')
        /\ ~h.deleted => Live' /\ record'.id = h.j
    BY <1>2, <1>5, <2>2, <2>3, ReplacedKeeps
  <2>5. chunks' = chunks /\ stray \subseteq stray'
    BY <2>2 DEF Replaced
  <2>6. ASSUME NEW k \in Calls PROVE CallOK(k)'
    BY <1>0, <1>2, <2>1, <2>4, CallKept
  <2>7. ASSUME NEW k \in Calls PROVE ChunksOK(k)'
    BY <1>0, <1>2, <2>5, ChunksKept
  <2>8. Buffered'
    <3>1. ASSUME NEW d \in Clients, NEW p \in Range(late[d]), p.kind # h.kind \/ p.j # h.j
          PROVE  LateOK(d, p)'
      <4>1. p \in Request /\ p.j \in Calls /\ LateOK(d, p)
        BY <1>7, <3>1
      <4>2. p.kind = "chunk" => expired'[p.j] < p.n /\ \A n \in chunks'[p.j] : n < p.n
        BY <1>2, <2>5, <4>1 DEF LateOK
      <4>3. p.kind = "record" => p.j \notin served'
        BY <1>9, <2>4, <3>1, <4>1 DEF LateOK
      <4>4. Retired(p.id) => Retired(p.id)'
        BY <2>4 DEF Retired
      <4>5. Complete(p.j) => Complete(p.j)'
        BY <1>2, <2>5 DEF Complete
      <4> QED BY <1>2, <1>5, <2>5, <4>1, <4>2, <4>3, <4>4, <4>5, LateKept
    <3> QED BY <1>6, <3>1
  <2>9. RecordOK'
    <3>1. ASSUME NEW k \in Calls
          PROVE  old'[k] # 0 => old'[k] \in served' /\ op'[old'[k]] = "put"
      BY <1>0, <1>2, <2>4 DEF RecordOK, ObjectTypeOK, Id, Calls
    <3>2. ASSUME NEW k \in Calls, step'[k] = "purge" PROVE Retired(old[k])'
      <4>1. old[k] \in served /\ old'[k] = old[k]
        BY <1>0, <1>2, <3>2 DEF RecordOK, Retired
      <4> QED BY <2>4, <4>1 DEF Retired
    <3> QED BY <2>4, <3>1, <3>2 DEF RecordOK
  <2>10. NoOtherLeak'
    <3>1. SUFFICES ASSUME NEW i \in Calls, chunks[i] # {}
                   PROVE  \/ Live' /\ record'.id = i
                          \/ op[i] = "put" /\ step[i] \in {"upload", "rollback"}
                          \/ \E k \in Calls : step[k] = "purge" /\ old[k] = i
                          \/ i \in stray'
      BY <1>2, <2>5 DEF NoOtherLeak
    <3>2. Live /\ record.id = i => i \in stray'
      BY <2>2 DEF Replaced, Calls
    <3> QED BY <1>0, <2>5, <3>1, <3>2 DEF NoOtherLeak
  <2> QED BY <1>0, <1>4, <2>6, <2>7, <2>8, <2>9, <2>10 DEF ObjectInv
<1>10. CASE h.kind = "purge"
  <2>1. /\ chunks' = [chunks EXCEPT ![h.id] = {}]
        /\ UNCHANGED <<record, stray, served>>
    BY <1>2, <1>10 DEF Serve
  <2>2. /\ step[h.j] = "ended"
        /\ Retired(h.id) \/ (h.id = h.j /\ Failed(h.j))
    BY <1>3, <1>10 DEF LateOK
  <2>3. /\ chunks'[h.id] = {}
        /\ \A k \in Calls \ {h.id} : chunks'[k] = chunks[k]
        /\ \A k \in Calls : chunks'[k] \subseteq chunks[k]
    BY <1>0, <1>3, <2>1 DEF ObjectTypeOK
  <2>4. step[h.id] # "upload"
    BY <1>0, <1>3, <2>2 DEF Retired, CallOK
  <2>5. \A k \in Calls : Complete(k) => Complete(k)' \/ k = h.id
    BY <1>2, <2>3 DEF Complete
  <2>6. ASSUME NEW k \in Calls PROVE CallOK(k)'
    BY <1>0, <1>2, <2>1, CallKept
  <2>7. ASSUME NEW k \in Calls PROVE ChunksOK(k)'
    <3>1. step'[k] = "upload" => step[k] = "upload" /\ chunks'[k] = chunks[k]
      BY <1>2, <2>3, <2>4
    <3> QED BY <1>0, <1>2, <2>3, <3>1, ChunksKept
  <2>8. Buffered'
    <3>1. ASSUME NEW d \in Clients, NEW p \in Range(late[d]), p.kind # h.kind \/ p.j # h.j
          PROVE  LateOK(d, p)'
      <4>1. p \in Request /\ p.j \in Calls /\ LateOK(d, p)
        BY <1>7, <3>1
      <4>2. p.kind = "chunk" => expired'[p.j] < p.n /\ \A n \in chunks'[p.j] : n < p.n
        BY <1>2, <2>3, <4>1 DEF LateOK
      <4>3. p.kind = "record" =>
              p.j \notin served' /\ (Complete(p.j) => Complete(p.j)' \/ Failed(p.j)')
        <5>1. ASSUME p.kind = "record" PROVE p.j = h.id => Failed(p.j)'
          <6>1. p.j \notin served
            BY <4>1, <5>1 DEF LateOK
          <6> QED BY <1>5, <2>2, <4>1, <6>1 DEF Retired
        <5> QED BY <2>1, <2>5, <4>1, <5>1 DEF LateOK
      <4>4. Retired(p.id) => Retired(p.id)'
        BY <2>1 DEF Retired
      <4> QED BY <1>2, <1>5, <2>1, <4>1, <4>2, <4>3, <4>4, LateKept
    <3> QED BY <1>6, <3>1
  <2>9. RecordOK'
    <3>1. Live' => Complete(record.id)' \/ Failed(record.id)'
      <4>1. SUFFICES ASSUME Live PROVE Complete(record.id)' \/ Failed(record.id)'
        BY <2>1 DEF Live
      <4>2. record.id \in Calls
        BY <1>0, <4>1 DEF Live, ObjectTypeOK, Record, Id, Calls
      <4>3. Complete(record.id) \/ Failed(record.id)
        BY <1>0, <4>1 DEF RecordOK
      <4>4. CASE record.id = h.id
        BY <1>2, <2>1, <2>2, <4>1, <4>4 DEF Retired, Live, Failed
      <4>5. CASE record.id # h.id
        BY <1>2, <2>1, <2>3, <4>2, <4>3, <4>5 DEF Complete, Failed
      <4> QED BY <4>4, <4>5
    <3> QED BY <1>0, <1>2, <2>1, <3>1 DEF RecordOK, Retired
  <2>10. NoOtherLeak'
    BY <1>0, <1>2, <2>1, <2>3 DEF NoOtherLeak, Live
  <2> QED BY <1>0, <1>4, <2>6, <2>7, <2>8, <2>9, <2>10 DEF ObjectInv
<1> QED BY <1>3, <1>8, <1>9, <1>10

\* A call goes on without a request that changes the stream.
LEMMA MoveInv ==
  ASSUME ObjectInv, ObjectTypeOK', NEW j \in Calls,
         step[j] \in {"look", "upload", "read"} \/ (step'[j] = step[j] /\ served' = served),
         step[j] # "idle",
         UNCHANGED <<record, chunks, expired, late, op, by, sent, stray>>,
         \A k \in Calls \ {j} : /\ step'[k] = step[k] /\ result'[k] = result[k]
                                /\ old'[k] = old[k] /\ got'[k] = got[k],
         CallOK(j)',
         step'[j] # "idle", step'[j] = "purge" => step[j] = "purge",
         step[j] = "upload" => step'[j] \in {"upload", "rollback"},
         step'[j] = "upload" => step[j] = "upload" \/ sent[j] = 0,
         result[j] # "none" => result'[j] = result[j],
         old'[j] = old[j] \/ (step[j] = "look" /\ old'[j] = record.id),
         served' = served \/ served' = served \cup {j}
  PROVE  ObjectInv'
<1>0. /\ ObjectTypeOK /\ Buffered /\ RecordOK /\ OneByOne /\ NoOtherLeak
      /\ \A k \in Calls : CallOK(k) /\ ChunksOK(k)
  BY DEF ObjectInv
<1>1. \A k \in Calls : Failed(k) => Failed(k)'
  BY DEF Failed
<1>2. \A k \in Calls : Complete(k) <=> Complete(k)'
  BY DEF Complete
<1>3. \A k : Retired(k) => Retired(k)'
  BY DEF Retired
<1>4. ASSUME NEW k \in Calls PROVE CallOK(k)'
  BY <1>0, CallKept
<1>5. ASSUME NEW k \in Calls PROVE ChunksOK(k)'
  <2>1. CASE step'[k] = "upload" /\ step[k] # "upload"
    <3>1. k = j /\ sent'[k] = 0 /\ expired'[k] \in Nat
      BY <1>0, <2>1 DEF ObjectTypeOK
    <3>2. \A n \in (expired'[k] + 1) .. sent'[k] : n \in chunks'[k]
      BY <3>1
    <3> QED BY <1>0, <3>2 DEF ChunksOK
  <2>2. CASE ~ (step'[k] = "upload" /\ step[k] # "upload")
    BY <1>0, <2>2 DEF ChunksOK
  <2> QED BY <2>1, <2>2
<1>6. Buffered'
  <2>1. ASSUME NEW c \in Clients, NEW p \in Range(late[c]) PROVE LateOK(c, p)'
    <3>1. p \in Request /\ LateOK(c, p) /\ p.j \in Calls
      BY <1>0, <2>1, WaitingIsRequest, RequestFields DEF Buffered
    <3>2. CASE p.j # j
      <4>1. /\ step'[p.j] = step[p.j] /\ old'[p.j] = old[p.j]
            /\ p.kind = "record" => p.j \notin served'
        BY <3>1, <3>2 DEF LateOK
      <4>2. p.kind = "chunk" => expired'[p.j] < p.n /\ \A n \in chunks'[p.j] : n < p.n
        BY <3>1 DEF LateOK
      <4> QED BY <1>1, <1>2, <1>3, <3>1, <4>1, <4>2, LateKept
    <3>3. CASE p.j = j
      <4>1. step[j] \in {"rollback", "ended"}
        BY <3>1, <3>3 DEF LateOK
      <4>2. /\ step'[p.j] = step[p.j] /\ old'[p.j] = old[p.j]
            /\ p.kind = "record" => p.j \notin served'
        BY <3>1, <3>3, <4>1 DEF LateOK
      <4>3. p.kind = "chunk" => expired'[p.j] < p.n /\ \A n \in chunks'[p.j] : n < p.n
        BY <3>1 DEF LateOK
      <4> QED BY <1>1, <1>2, <1>3, <3>1, <4>2, <4>3, LateKept
    <3> QED BY <3>2, <3>3
  <2> QED BY <1>0, <2>1, BufferSame
<1>7. RecordOK'
  <2>1. record'.id # 0 => record'.id \in served' /\ op'[record'.id] = "put"
    BY <1>0 DEF RecordOK
  <2>2. ASSUME NEW k \in Calls
        PROVE  old'[k] # 0 => old'[k] \in served' /\ op'[old'[k]] = "put"
    BY <1>0 DEF RecordOK
  <2>3. ASSUME NEW k \in Calls, step'[k] = "purge" PROVE Retired(old[k])'
    <3>1. Retired(old[k]) /\ old'[k] = old[k]
      BY <1>0, <2>3 DEF RecordOK
    <3> QED BY <3>1 DEF Retired
  <2>4. Live' => Complete(record.id)' \/ Failed(record.id)'
    BY <1>0, <1>1, <1>2 DEF RecordOK, Live, ObjectTypeOK, Record, Id, Calls, Complete, Failed
  <2> QED BY <2>1, <2>2, <2>3, <2>4 DEF RecordOK
<1>8. OneByOne'
  BY <1>0, OneByOneKept
<1>9. NoOtherLeak'
  <2>1. SUFFICES ASSUME NEW i \in Calls, chunks[i] # {}
                 PROVE  \/ Live /\ record.id = i
                        \/ op[i] = "put" /\ step'[i] \in {"upload", "rollback"}
                        \/ \E k \in Calls : step'[k] = "purge" /\ old'[k] = i
                        \/ i \in stray
    BY DEF NoOtherLeak, Live
  <2>2. \/ Live /\ record.id = i
        \/ op[i] = "put" /\ step[i] \in {"upload", "rollback"}
        \/ \E k \in Calls : step[k] = "purge" /\ old[k] = i
        \/ i \in stray
    BY <1>0, <2>1 DEF NoOtherLeak
  <2>3. step[i] \in {"upload", "rollback"} => step'[i] \in {"upload", "rollback"}
    OBVIOUS
  <2>4. \A k \in Calls : step[k] = "purge" => step'[k] = "purge" /\ old'[k] = old[k]
    OBVIOUS
  <2> QED BY <2>2, <2>3, <2>4
<1> QED BY <1>4, <1>5, <1>6, <1>7, <1>8, <1>9 DEF ObjectInv

LEMMA LookUpInv ==
  ASSUME ObjectInv, NEW j \in Calls, LookUp(j)
  PROVE  ObjectInv'
<1>0. /\ ObjectTypeOK /\ CallOK(j) /\ RecordOK
  BY DEF ObjectInv
<1>1. /\ step[j] = "look" /\ old' = [old EXCEPT ![j] = record.id]
      /\ UNCHANGED <<record, chunks, expired, late, op, by, sent, got, stray>>
  BY DEF LookUp, streamVars, netVars
<1>2. /\ op[j] # "none" /\ j \notin served /\ sent[j] = 0
      /\ result[j] \in {"none", "cut"} /\ (op[j] = "get" => result[j] = "none")
  BY <1>0, <1>1 DEF CallOK
<1>3. old'[j] = record.id /\ \A k \in Calls \ {j} : old'[k] = old[k]
  BY <1>0, <1>1 DEF ObjectTypeOK
<1>4. \/ op[j] = "put" /\ StepTo(j, "upload") /\ served' = served
      \/ op[j] = "delete" /\ record.id # 0 /\ StepTo(j, "publish") /\ served' = served
      \/ op[j] = "delete" /\ record.id = 0 /\ End(j, "ok") /\ served' = served \cup {j}
      \/ op[j] = "get" /\ Live /\ StepTo(j, "read") /\ served' = served \cup {j}
      \/ op[j] = "get" /\ ~Live /\ End(j, "absent") /\ served' = served \cup {j}
  BY <1>0, <1>2, LookUpCases
<1>5. /\ \/ /\ op[j] = "put" /\ step'[j] = "upload" /\ served' = served
            /\ result'[j] = result[j]
         \/ /\ op[j] = "delete" /\ record.id # 0 /\ step'[j] = "publish"
            /\ served' = served /\ result'[j] = result[j]
         \/ /\ op[j] = "delete" /\ step'[j] = "ended" /\ result'[j] \in {"ok", "cut"}
            /\ served' = served \cup {j}
         \/ /\ op[j] = "get" /\ record.id # 0 /\ step'[j] = "read"
            /\ served' = served \cup {j} /\ result'[j] = result[j]
         \/ /\ op[j] = "get" /\ step'[j] = "ended" /\ result'[j] = "absent"
            /\ served' = served \cup {j}
      /\ result[j] # "none" => result'[j] = result[j]
      /\ \A k \in Calls \ {j} : step'[k] = step[k] /\ result'[k] = result[k]
  BY <1>0, <1>2, <1>4, EndEffect, StepEffect DEF Live
<1>6. CallOK(j)'
  BY <1>1, <1>2, <1>3, <1>5 DEF CallOK
<1>7. ObjectTypeOK'
  BY <1>0, <1>2, LookUpType
<1> QED BY <1>1, <1>2, <1>3, <1>5, <1>6, <1>7, MoveInv

LEMMA LookUpFailsInv ==
  ASSUME ObjectInv, ObjectTypeOK', NEW j \in Calls, LookUpFails(j)
  PROVE  ObjectInv'
<1>0. /\ ObjectTypeOK /\ CallOK(j)
  BY DEF ObjectInv
<1>1. /\ step[j] = "look" /\ End(j, "failed")
      /\ UNCHANGED <<record, chunks, expired, late, op, by, old, sent, got, stray, served>>
  BY DEF LookUpFails, streamVars
<1>2. /\ op[j] # "none" /\ result[j] \in {"none", "cut"}
  BY <1>0, <1>1 DEF CallOK
<1>3. /\ step'[j] = "ended" /\ result'[j] \in {"failed", "cut"}
      /\ result[j] # "none" => result'[j] = result[j]
      /\ \A k \in Calls \ {j} : step'[k] = step[k] /\ result'[k] = result[k]
  BY <1>0, <1>1, <1>2, EndEffect
<1>4. CallOK(j)'
  BY <1>1, <1>2, <1>3 DEF CallOK
<1> QED BY <1>1, <1>3, <1>4, MoveInv

LEMMA InputFailsInv ==
  ASSUME ObjectInv, ObjectTypeOK', NEW j \in Calls, InputFails(j)
  PROVE  ObjectInv'
<1>0. /\ ObjectTypeOK /\ CallOK(j)
  BY DEF ObjectInv
<1>1. /\ step[j] = "upload" /\ StepTo(j, "rollback")
      /\ UNCHANGED <<record, chunks, expired, late, op, by, old, sent, got, stray, served>>
  BY DEF InputFails, streamVars, netVars
<1>2. /\ step'[j] = "rollback" /\ result' = result
      /\ \A k \in Calls \ {j} : step'[k] = step[k]
  BY <1>0, <1>1, StepEffect
<1>3. CallOK(j)'
  BY <1>0, <1>1, <1>2 DEF CallOK
<1> QED BY <1>1, <1>2, <1>3, MoveInv

LEMMA ReadFailsInv ==
  ASSUME ObjectInv, ObjectTypeOK', NEW j \in Calls, ReadFails(j)
  PROVE  ObjectInv'
<1>0. /\ ObjectTypeOK /\ CallOK(j)
  BY DEF ObjectInv
<1>1. /\ step[j] = "read" /\ End(j, "failed")
      /\ UNCHANGED <<record, chunks, expired, late, op, by, old, sent, got, stray, served>>
  BY DEF ReadFails, streamVars, netVars
<1>2. /\ op[j] = "get" /\ result[j] \in {"none", "cut"}
  BY <1>0, <1>1 DEF CallOK
<1>3. /\ step'[j] = "ended" /\ result'[j] \in {"failed", "cut"}
      /\ result[j] # "none" => result'[j] = result[j]
      /\ \A k \in Calls \ {j} : step'[k] = step[k] /\ result'[k] = result[k]
  BY <1>0, <1>1, <1>2, EndEffect
<1>4. CallOK(j)'
  BY <1>0, <1>1, <1>2, <1>3 DEF CallOK
<1> QED BY <1>1, <1>3, <1>4, MoveInv

LEMMA ReceiveInv ==
  ASSUME ObjectInv, NEW j \in Calls, Receive(j)
  PROVE  ObjectInv'
<1>0. /\ ObjectTypeOK /\ CallOK(j)
  BY DEF ObjectInv
<1>1. /\ step[j] = "read"
      /\ got' = [got EXCEPT ![j] = Append(@, Min(Unread(j)))]
      /\ UNCHANGED <<record, chunks, expired, late, op, by, old, sent, stray, served>>
  BY DEF Receive, streamVars, netVars
<1>2. op[j] = "get" /\ old[j] # 0 /\ j \in served /\ result[j] = "none"
  BY <1>0, <1>1 DEF CallOK
<1>3. /\ ObjectTypeOK'
      /\ \/ UNCHANGED <<step, result>>
         \/ End(j, "ok") /\ got'[j] = Whole
         \/ End(j, "failed")
  BY <1>0, <1>2, ReceiveType
<1>4. /\ \/ step'[j] = "read" /\ result'[j] = "none"
         \/ step'[j] = "ended" /\ result'[j] = "ok" /\ got'[j] = Whole
         \/ step'[j] = "ended" /\ result'[j] = "failed"
      /\ \A k \in Calls \ {j} : step'[k] = step[k] /\ result'[k] = result[k]
  BY <1>0, <1>1, <1>2, <1>3, EndEffect
<1>5. \A k \in Calls \ {j} : got'[k] = got[k]
  BY <1>0, <1>1 DEF ObjectTypeOK
<1>6. CallOK(j)'
  <2>1. Whole' = Whole
    BY DEF Whole
  <2> QED BY <1>1, <1>2, <1>4, <2>1 DEF CallOK
<1> QED BY <1>1, <1>2, <1>3, <1>4, <1>5, <1>6, MoveInv

LEMMA InterruptInv ==
  ASSUME ObjectInv, ObjectTypeOK', NEW j \in Calls, Interrupt(j)
  PROVE  ObjectInv'
<1>0. /\ ObjectTypeOK /\ CallOK(j)
  BY DEF ObjectInv
<1>1. /\ result[j] = "none" /\ step[j] # "idle"
      /\ result' = [result EXCEPT ![j] = "cut"]
      /\ step' = [step EXCEPT ![j] = IF op[j] = "get" THEN "ended" ELSE @]
      /\ UNCHANGED <<record, chunks, expired, late, op, by, old, sent, got, stray, served>>
  BY DEF Interrupt, streamVars, netVars
<1>2. /\ result'[j] = "cut"
      /\ \/ op[j] = "get" /\ step'[j] = "ended" /\ step[j] \in {"look", "read"}
         \/ op[j] # "get" /\ step'[j] = step[j]
      /\ \A k \in Calls \ {j} : step'[k] = step[k] /\ result'[k] = result[k]
  BY <1>0, <1>1 DEF ObjectTypeOK, CallOK
<1>3. CallOK(j)'
  BY <1>0, <1>1, <1>2 DEF CallOK
<1>4. \/ step[j] \in {"look", "upload", "read"}
      \/ step'[j] = step[j] /\ served' = served
  BY <1>1, <1>2
<1>5. step[j] = "upload" => step'[j] = "upload"
  BY <1>2
<1> QED BY <1>1, <1>2, <1>3, <1>4, <1>5, MoveInv

LEMMA BeginInv ==
  ASSUME ObjectInv, ObjectTypeOK', NEW c \in Clients, NEW j \in Calls, NEW o \in Does[c],
         Begin(c, j, o)
  PROVE  ObjectInv'
<1>0. /\ ObjectTypeOK /\ Buffered /\ RecordOK /\ OneByOne /\ NoOtherLeak
      /\ \A k \in Calls : CallOK(k) /\ ChunksOK(k)
  BY DEF ObjectInv
<1>1. /\ step[j] = "idle" /\ o \in {"put", "get", "delete"}
      /\ \A k \in Calls : k < j => step[k] # "idle"
      /\ \A k \in Calls : by[k] = c /\ step[k] # "idle" => result[k] # "none"
      /\ op' = [op EXCEPT ![j] = o]
      /\ by' = [by EXCEPT ![j] = c]
      /\ StepTo(j, "look")
      /\ UNCHANGED <<record, chunks, expired, late, old, sent, got, stray, served>>
  BY DoesAssumption DEF Begin, streamVars, netVars, Ops
<1>2. /\ step'[j] = "look" /\ op'[j] = o /\ by'[j] = c /\ result' = result
      /\ \A k \in Calls \ {j} : step'[k] = step[k] /\ op'[k] = op[k] /\ by'[k] = by[k]
  BY <1>0, <1>1, StepEffect DEF ObjectTypeOK
<1>3. j \notin served /\ result[j] = "none" /\ op[j] = "none" /\ sent[j] = 0 /\ old[j] = 0
  BY <1>0, <1>1 DEF CallOK
<1>4. ASSUME NEW k \in Calls PROVE CallOK(k)'
  <2>1. CASE k # j
    BY <1>0, <1>1, <1>2, <2>1, CallKept
  <2>2. CASE k = j
    BY <1>1, <1>2, <1>3, <2>2 DEF CallOK
  <2> QED BY <2>1, <2>2
<1>5. ASSUME NEW k \in Calls PROVE ChunksOK(k)'
  BY <1>0, <1>1, <1>2, ChunksKept
<1>6. Buffered'
  <2>1. ASSUME NEW d \in Clients, NEW p \in Range(late[d]) PROVE LateOK(d, p)'
    <3>1. p \in Request /\ LateOK(d, p) /\ p.j \in Calls
      BY <1>0, <2>1, WaitingIsRequest, RequestFields DEF Buffered
    <3>2. p.j # j
      BY <1>1, <3>1 DEF LateOK
    <3>3. /\ p.kind = "chunk" => expired'[p.j] < p.n /\ \A n \in chunks'[p.j] : n < p.n
          /\ p.kind = "record" => p.j \notin served'
      BY <1>1, <3>1 DEF LateOK
    <3>4. /\ Complete(p.j) => Complete(p.j)'
          /\ Failed(p.j) => Failed(p.j)'
          /\ Retired(p.id) => Retired(p.id)'
      BY <1>1, <1>2 DEF Complete, Failed, Retired
    <3> QED BY <1>1, <1>2, <3>1, <3>2, <3>3, <3>4, LateKept
  <2> QED BY <1>0, <1>1, <2>1, BufferSame
<1>7. RecordOK'
  <2>1. record.id # 0 => record.id \in served /\ op'[record.id] = "put"
    BY <1>0, <1>2, <1>3 DEF RecordOK, ObjectTypeOK
  <2>2. ASSUME NEW k \in Calls, old[k] # 0
        PROVE  old[k] \in served /\ op'[old[k]] = "put"
    <3>1. old[k] \in served /\ op[old[k]] = "put" /\ old[k] \in Calls
      BY <1>0, <2>2 DEF RecordOK, ObjectTypeOK
    <3> QED BY <1>2, <1>3, <3>1
  <2>3. \A k \in Calls : step'[k] = "purge" => Retired(old[k])
    BY <1>0, <1>2 DEF RecordOK
  <2>4. Live => Complete(record.id)' \/ Failed(record.id)'
    BY <1>0, <1>1, <1>2 DEF RecordOK, Complete, Failed
  <2> QED BY <1>1, <2>1, <2>2, <2>3, <2>4 DEF RecordOK, Live, Retired, Complete, Failed
<1>8. OneByOne'
  <2>1. SUFFICES ASSUME NEW i \in Calls, NEW k \in Calls, i < k, step'[k] # "idle"
                 PROVE  step'[i] # "idle" /\ (by'[i] = by'[k] => result[i] # "none")
    BY <1>2 DEF OneByOne
  <2>2. CASE k = j
    <3>1. i # j
      BY <2>1, <2>2 DEF Calls
    <3> QED BY <1>1, <1>2, <2>1, <2>2, <3>1
  <2>3. CASE k # j
    <3>1. step[k] # "idle"
      BY <1>2, <2>1, <2>3
    <3>2. step[i] # "idle" /\ (by[i] = by[k] => result[i] # "none")
      BY <1>0, <2>1, <3>1 DEF OneByOne
    <3>3. i # j
      BY <1>1, <3>2
    <3> QED BY <1>2, <2>3, <3>2, <3>3
  <2> QED BY <2>2, <2>3
<1>9. NoOtherLeak'
  <2>1. SUFFICES ASSUME NEW i \in Calls, chunks[i] # {}
                 PROVE  \/ Live /\ record.id = i
                        \/ op'[i] = "put" /\ step'[i] \in {"upload", "rollback"}
                        \/ \E k \in Calls : step'[k] = "purge" /\ old[k] = i
                        \/ i \in stray
    BY <1>1 DEF NoOtherLeak, Live
  <2>2. \/ Live /\ record.id = i
        \/ op[i] = "put" /\ step[i] \in {"upload", "rollback"}
        \/ \E k \in Calls : step[k] = "purge" /\ old[k] = i
        \/ i \in stray
    BY <1>0, <2>1 DEF NoOtherLeak
  <2>3. \A k \in Calls : step[k] # "idle" => step'[k] = step[k] /\ op'[k] = op[k]
    BY <1>1, <1>2
  <2> QED BY <2>2, <2>3
<1> QED BY <1>4, <1>5, <1>6, <1>7, <1>8, <1>9 DEF ObjectInv

LEMMA ExpireInv ==
  ASSUME ObjectInv, NEW i \in Calls, Expire(i)
  PROVE  ObjectInv'
<1>0. /\ ObjectTypeOK /\ Buffered /\ RecordOK /\ OneByOne /\ NoOtherLeak
      /\ \A k \in Calls : CallOK(k) /\ ChunksOK(k)
  BY DEF ObjectInv
<1>1. PICK m : m = Min(chunks[i])
  OBVIOUS
<1>2. /\ ObjectTypeOK' /\ m \in chunks[i] /\ \A n \in chunks[i] : m <= n
  BY <1>0, <1>1, ExpireType
<1>3. /\ chunks' = [chunks EXCEPT ![i] = @ \ {m}]
      /\ expired' = [expired EXCEPT ![i] = m]
      /\ UNCHANGED <<record, late, op, by, step, old, sent, got, result, stray, served>>
  BY <1>1 DEF Expire, netVars, callVars
<1>4. /\ chunks'[i] = chunks[i] \ {m} /\ expired'[i] = m
      /\ \A k \in Calls \ {i} : chunks'[k] = chunks[k] /\ expired'[k] = expired[k]
  BY <1>0, <1>3 DEF ObjectTypeOK
<1>5. /\ chunks[i] \subseteq Nat /\ expired[i] \in Nat /\ sent[i] \in Nat /\ m \in Nat
      /\ expired[i] < m /\ m <= sent[i]
  BY <1>0, <1>2 DEF ObjectTypeOK, Chunks, ChunksOK
<1>6. ASSUME NEW k \in Calls PROVE CallOK(k)'
  BY <1>0, <1>3, CallKept
<1>7. ASSUME NEW k \in Calls PROVE ChunksOK(k)'
  <2>1. CASE k # i
    BY <1>0, <1>3, <1>4, <2>1, ChunksKept
  <2>2. CASE k = i
    <3>1. \A n \in chunks'[i] : expired'[i] < n /\ n <= sent'[i]
      BY <1>0, <1>2, <1>3, <1>4, <1>5 DEF ChunksOK
    <3>2. step'[i] = "upload" => \A n \in (expired'[i] + 1) .. sent'[i] : n \in chunks'[i]
      BY <1>0, <1>3, <1>4, <1>5 DEF ChunksOK
    <3> QED BY <1>3, <1>4, <1>5, <2>2, <3>1, <3>2 DEF ChunksOK
  <2> QED BY <2>1, <2>2
<1>8. ASSUME NEW k \in Calls, Complete(k) PROVE Complete(k)'
  <2>1. CASE k # i
    BY <1>4, <1>8, <2>1 DEF Complete
  <2>2. CASE k = i
    <3>1. ASSUME NEW n \in (m + 1) .. NumChunks PROVE n \in chunks[i] \ {m}
      <4>1. n \in (expired[i] + 1) .. NumChunks /\ n # m
        BY <1>5, <3>1, NumChunksAssumption
      <4> QED BY <1>8, <2>2, <4>1 DEF Complete
    <3> QED BY <1>4, <2>2, <3>1 DEF Complete
  <2> QED BY <2>1, <2>2
<1>9. Buffered'
  <2>1. ASSUME NEW c \in Clients, NEW p \in Range(late[c]) PROVE LateOK(c, p)'
    <3>1. p \in Request /\ LateOK(c, p) /\ p.j \in Calls
      BY <1>0, <2>1, WaitingIsRequest, RequestFields DEF Buffered
    <3>2. p.kind = "chunk" => expired'[p.j] < p.n /\ \A n \in chunks'[p.j] : n < p.n
      <4>1. CASE p.j # i
        BY <1>4, <3>1, <4>1 DEF LateOK
      <4>2. CASE p.j = i
        BY <1>2, <1>4, <3>1, <4>2 DEF LateOK
      <4> QED BY <4>1, <4>2
    <3>3. p.kind = "record" => p.j \notin served'
      BY <1>3, <3>1 DEF LateOK
    <3>4. Failed(p.j) => Failed(p.j)'
      BY <1>3 DEF Failed
    <3>5. Retired(p.id) => Retired(p.id)'
      BY <1>3 DEF Retired
    <3> QED BY <1>3, <1>8, <3>1, <3>2, <3>3, <3>4, <3>5, LateKept
  <2> QED BY <1>0, <1>3, <2>1, BufferSame
<1>10. RecordOK'
  <2>1. Live' => Complete(record.id)' \/ Failed(record.id)'
    <3>1. SUFFICES ASSUME Live PROVE Complete(record.id)' \/ Failed(record.id)'
      BY <1>3 DEF Live
    <3>2. PICK k \in Calls : k = record.id
      BY <1>0, <3>1 DEF Live, ObjectTypeOK, Record, Id, Calls
    <3>3. Complete(k)' \/ Failed(k)'
      BY <1>0, <1>3, <1>8, <3>1, <3>2 DEF RecordOK, Failed
    <3> QED BY <1>3, <3>2, <3>3 DEF Complete, Failed
  <2> QED BY <1>0, <1>3, <2>1 DEF RecordOK, Retired
<1>11. OneByOne'
  BY <1>0, <1>3, OneByOneKept
<1>12. NoOtherLeak'
  BY <1>0, <1>3, <1>4 DEF NoOtherLeak, Live
<1> QED BY <1>2, <1>6, <1>7, <1>9, <1>10, <1>11, <1>12 DEF ObjectInv

LEMMA ExpireRecordInv ==
  ASSUME ObjectInv, ObjectTypeOK', ExpireRecord
  PROVE  ObjectInv'
<1>0. /\ ObjectTypeOK /\ Buffered /\ RecordOK /\ OneByOne /\ NoOtherLeak
      /\ \A k \in Calls : CallOK(k) /\ ChunksOK(k)
  BY DEF ObjectInv
<1>1. /\ record.id # 0 /\ expired[record.id] = NumChunks
      /\ record' = [id |-> 0, deleted |-> FALSE]
      /\ UNCHANGED <<chunks, expired, late, op, by, step, old, sent, got, result,
                     stray, served>>
  BY DEF ExpireRecord, NoRecord, netVars, callVars
<1>2. \A k \in Calls : Retired(k) => Retired(k)'
  BY <1>1 DEF Retired, Calls
<1>3. ASSUME NEW k \in Calls PROVE CallOK(k)' /\ ChunksOK(k)'
  BY <1>0, <1>1, CallKept, ChunksKept
<1>4. Buffered'
  <2>1. ASSUME NEW c \in Clients, NEW p \in Range(late[c]) PROVE LateOK(c, p)'
    <3>1. p \in Request /\ LateOK(c, p) /\ p.j \in Calls /\ p.id \in Calls
      BY <1>0, <2>1, WaitingIsRequest, RequestFields DEF Buffered
    <3>2. /\ p.kind = "chunk" => expired'[p.j] < p.n /\ \A n \in chunks'[p.j] : n < p.n
          /\ p.kind = "record" => p.j \notin served'
      BY <1>1, <3>1 DEF LateOK
    <3>3. /\ Complete(p.j) => Complete(p.j)'
          /\ Failed(p.j) => Failed(p.j)'
          /\ Retired(p.id) => Retired(p.id)'
      BY <1>1, <1>2, <3>1 DEF Complete, Failed
    <3> QED BY <1>1, <3>1, <3>2, <3>3, LateKept
  <2> QED BY <1>0, <1>1, <2>1, BufferSame
<1>5. RecordOK'
  <2>1. ~Live' /\ record'.id = 0
    BY <1>1 DEF Live
  <2>2. ASSUME NEW k \in Calls, step'[k] = "purge" PROVE Retired(old[k])'
    <3>1. Retired(old[k]) /\ old'[k] = old[k] /\ old[k] \in Calls
      BY <1>0, <1>1, <2>2 DEF RecordOK, Retired, ObjectTypeOK
    <3> QED BY <1>1, <1>2, <3>1 DEF Retired, Calls
  <2> QED BY <1>0, <1>1, <2>1, <2>2 DEF RecordOK
<1>6. OneByOne'
  BY <1>0, <1>1, OneByOneKept
<1>7. NoOtherLeak'
  <2>1. chunks[record.id] = {}
    <3>1. record.id \in Calls
      BY <1>0, <1>1 DEF ObjectTypeOK, Record, Id, Calls
    <3>2. ASSUME NEW n \in chunks[record.id] PROVE FALSE
      <4>1. n \in 1 .. NumChunks
        BY <1>0, <3>1, <3>2 DEF ObjectTypeOK, Chunks
      <4>2. NumChunks < n
        BY <1>0, <1>1, <3>1, <3>2 DEF ChunksOK
      <4> QED BY <4>1, <4>2, NumChunksAssumption
    <3> QED BY <3>2
  <2> QED BY <1>0, <1>1, <2>1 DEF NoOtherLeak, Live
<1> QED BY <1>3, <1>4, <1>5, <1>6, <1>7 DEF ObjectInv

LEMMA InitInv == Init => ObjectInv
<1> SUFFICES ASSUME Init PROVE ObjectInv
  OBVIOUS
<1>1. ObjectTypeOK
  BY InitTypes
<1>2. ASSUME NEW j \in Calls PROVE CallOK(j) /\ ChunksOK(j)
  BY DEF Init, CallOK, ChunksOK
<1>3. Buffered
  <2>1. \A c \in Clients : late[c] = << >> /\ Len(late[c]) = 0
    BY EmptySeq DEF Init
  <2>2. \A c \in Clients : Range(late[c]) = {}
    <3>1. << >> \in Seq(Request)
      BY EmptySeq
    <3>2. Range(<< >>) = {(<< >>)[x] : x \in 1 .. Len(<< >>)}
      BY <3>1, RangeEquality
    <3>3. 1 .. Len(<< >>) = {}
      BY EmptySeq
    <3> QED BY <2>1, <3>2, <3>3
  <2> QED BY <2>1, <2>2 DEF Buffered
<1>4. RecordOK /\ OneByOne /\ NoOtherLeak
  BY DEF Init, RecordOK, OneByOne, NoOtherLeak, NoRecord, Live
<1> QED BY <1>1, <1>2, <1>3, <1>4 DEF ObjectInv

LEMMA NextInv == ObjectInv /\ [Next]_vars => ObjectInv'
<1> SUFFICES ASSUME ObjectInv, [Next]_vars PROVE ObjectInv'
  OBVIOUS
<1>1. ObjectTypeOK'
  BY NextType DEF ObjectInv
<1>2. CASE UNCHANGED vars
  <2>1. UNCHANGED <<record, chunks, expired, late, lost, op, by, step, old, sent, got,
                    result, stray, served>>
    BY <1>2 DEF vars, streamVars, netVars, callVars
  <2>2. \A k \in Calls : CallOK(k)' /\ ChunksOK(k)'
    BY <2>1, CallKept, ChunksKept DEF ObjectInv
  <2>3. Buffered'
    <3>1. ASSUME NEW c \in Clients, NEW p \in Range(late[c]) PROVE LateOK(c, p)'
      <4>1. p \in Request /\ LateOK(c, p)
        BY <3>1, WaitingIsRequest DEF ObjectInv, Buffered
      <4> QED BY <2>1, <4>1 DEF LateOK, Complete, Failed, Retired
    <3> QED BY <2>1, <3>1, BufferSame DEF ObjectInv
  <2>4. RecordOK'
    BY <2>1 DEF ObjectInv, RecordOK, Live, Complete, Failed, Retired
  <2>5. OneByOne'
    BY <2>1, OneByOneKept DEF ObjectInv
  <2>6. NoOtherLeak'
    BY <2>1 DEF ObjectInv, NoOtherLeak, Live
  <2> QED BY <1>1, <2>2, <2>3, <2>4, <2>5, <2>6 DEF ObjectInv
<1> QED BY <1>1, <1>2, BeginInv, InterruptInv, LookUpInv, LookUpFailsInv, UploadInv,
           InputFailsInv, PublishInv, PublishDeletionInv, PurgeOldInv, RollbackInv,
           ReadFailsInv, ReceiveInv, ExpireInv, ExpireRecordInv, ServeLateInv
        DEF Next, Proceed

\* What is known of every call, request and object at every moment: above all, that
\* data is purged only if its record is retired or its own put has failed.
THEOREM ObjectInvariance == Spec => []ObjectInv
<1> QED BY InitInv, NextInv, PTL DEF Spec

\* Every variable keeps its type.
THEOREM ObjectTypeCorrect == Spec => []ObjectTypeOK
<1>1. ObjectInv => ObjectTypeOK
  BY DEF ObjectInv
<1> QED BY <1>1, ObjectInvariance, PTL

\* A get that completes has delivered all of one object, whatever happened to its
\* chunks meanwhile (get, checkDigest).
THEOREM NoMixture == Spec => []GetIsWhole
<1>1. ObjectInv => GetIsWhole
  BY DEF ObjectInv, CallOK, GetIsWhole
<1> QED BY <1>1, ObjectInvariance, PTL

\* The object that can be looked up has its data but for what has expired, unless
\* its put was reported as a failure or to nobody (_put).
THEOREM LiveHasData == Spec => []LiveIsWhole
<1>1. ObjectInv => LiveIsWhole
  BY DEF ObjectInv, RecordOK, LiveIsWhole, Complete, Failed
<1> QED BY <1>1, ObjectInvariance, PTL

\* No data is left behind but in the cases the property names (_put, delete).
THEOREM NoLeak == Spec => []NoOtherLeak
<1>1. ObjectInv => NoOtherLeak
  BY DEF ObjectInv
<1> QED BY <1>1, ObjectInvariance, PTL

-----------------------------------------------------------------------------
(* The order of the puts of one fiber *)

\* Which steps write a record, and what.
LEMMA RecordChanges ==
  ASSUME ObjectInv, [Next]_vars, record' # record, record'.id \in Calls,
         ~record'.deleted
  PROVE  LET i == record'.id
         IN  i \notin served /\ op[i] = "put" /\ step[i] \in {"upload", "rollback", "ended"}
<1>0. ObjectTypeOK /\ \A k \in Calls : CallOK(k)
  BY DEF ObjectInv
<1>1. ASSUME NEW j \in Calls, Publish(j)
      PROVE  record'.id = j /\ j \notin served /\ op[j] = "put" /\ step[j] = "upload"
  <2>1. PICK r : r = PutRecord(j)
    OBVIOUS
  <2>2. r \in Request /\ r.kind = "record" /\ r.j = j /\ r.id = j
    BY <1>0, <2>1, SentRequests DEF PutRecord
  <2>3. PICK q : q = [r EXCEPT !.after = 0]
    OBVIOUS
  <2>4. Answered(j, r) \/ Unanswered(j, r)
    BY <1>1, <2>1 DEF Publish
  <2>5. record'.id = j
    BY <1>0, <2>2, <2>3, <2>4, RecordAsked DEF Replaced
  <2> QED BY <1>0, <1>1, <2>5 DEF Publish, CallOK
<1>2. ASSUME NEW j \in Calls, PublishDeletion(j) PROVE FALSE
  <2>1. PICK r : r = [kind |-> "record", j |-> j, id |-> old[j], deleted |-> TRUE,
                      after |-> old[j]]
    OBVIOUS
  <2>2. old[j] # 0
    BY <1>0, <1>2 DEF PublishDeletion, CallOK
  <2>3. r \in Request /\ r.kind = "record" /\ r.j = j /\ r.deleted = TRUE
    BY <1>0, <2>1, <2>2, SentRequests
  <2>4. PICK q : q = [r EXCEPT !.after = 0]
    OBVIOUS
  <2>5. Answered(j, r) \/ Unanswered(j, r)
    BY <1>2, <2>1 DEF PublishDeletion
  <2>6. record'.deleted = TRUE
    BY <1>0, <2>3, <2>4, <2>5, RecordAsked DEF Replaced
  <2> QED BY <2>6
<1>3. ASSUME NEW c \in Clients, ServeLate(c)
      PROVE  LET i == record'.id
             IN  i \notin served /\ op[i] = "put" /\ step[i] \in {"rollback", "ended"}
  <2>1. PICK h : h = Head(late[c])
    OBVIOUS
  <2>2. late[c] # << >> /\ Serve(h)
    BY <1>3, <2>1 DEF ServeLate
  <2>3. h \in Range(late[c]) /\ h \in Request
    BY <1>0, <2>1, <2>2, TailRange DEF ObjectTypeOK
  <2>4. LateOK(c, h)
    BY <2>3 DEF ObjectInv, Buffered
  <2>5. h.kind = "record"
    BY <2>2, <2>3, RequestFields DEF Serve
  <2>6. record'.id = h.id /\ record'.deleted = h.deleted
    BY <1>0, <2>2, <2>3, <2>5, RecordServed DEF Replaced
  <2> QED BY <2>4, <2>5, <2>6 DEF LateOK
<1>4. ASSUME NEW j \in Calls, PurgeOld(j) \/ Rollback(j) PROVE FALSE
  <2>1. PICK i : i = IF step[j] = "purge" THEN old[j] ELSE j
    OBVIOUS
  <2>2. PICK r : r = [kind |-> "purge", j |-> j, id |-> i]
    OBVIOUS
  <2>3. (i = old[j] /\ old[j] # 0) \/ i = j
    BY <1>0, <2>1 DEF CallOK
  <2>4. r \in Request /\ r.kind = "purge"
    BY <1>0, <2>2, <2>3, SentRequests
  <2>5. Answered(j, r) \/ Unanswered(j, r)
    BY <1>4, <2>1, <2>2 DEF PurgeOld, Rollback
  <2> QED BY <1>0, <2>4, <2>5, PurgeAsked
<1>5. ASSUME NEW j \in Calls, Upload(j) PROVE FALSE
  BY <1>0, <1>5, UploadEffect
<1>6. ASSUME ExpireRecord PROVE FALSE
  BY <1>6 DEF ExpireRecord, NoRecord, Calls
<1>7. ASSUME NEW j \in Calls,
             \/ LookUp(j) \/ LookUpFails(j) \/ Receive(j) \/ Interrupt(j)
             \/ InputFails(j) \/ ReadFails(j) \/ Expire(j)
      PROVE  FALSE
  BY <1>7 DEF LookUp, LookUpFails, Receive, Interrupt, InputFails, ReadFails, Expire,
              streamVars
<1>8. ASSUME NEW c \in Clients, NEW j \in Calls, NEW o \in Does[c], Begin(c, j, o)
      PROVE  FALSE
  BY <1>8 DEF Begin, streamVars
<1>9. CASE UNCHANGED vars
  BY <1>9 DEF vars, streamVars
<1> QED BY <1>1, <1>2, <1>3, <1>4, <1>5, <1>6, <1>7, <1>8, <1>9 DEF Next, Proceed

\* A put never replaces what the same fiber has put after it, unless the fiber was
\* interrupted in it or told that it had failed (put).
THEOREM PutsKeepOrder == Spec => PutsInOrder
<1>1. ASSUME ObjectInv, [Next]_vars, NEW i \in Calls, NEW j \in Calls,
             record.id = j, record'.id = i, i < j, by[i] = by[j], op[i] = "put",
             ~record'.deleted
      PROVE  result[i] \in {"failed", "cut"}
  <2>1. record' # record
    BY <1>1 DEF Calls
  <2>2. i \notin served /\ step[i] \in {"upload", "rollback", "ended"}
    BY <1>1, <2>1, RecordChanges
  <2>3. j \in served /\ step[j] # "idle"
    BY <1>1 DEF ObjectInv, RecordOK, CallOK, Calls
  <2>4. result[i] # "none"
    BY <1>1, <2>3 DEF ObjectInv, OneByOne
  <2>5. result[i] \notin {"ok", "absent"}
    BY <1>1, <2>2 DEF ObjectInv, CallOK
  <2> QED BY <1>1, <2>4, <2>5 DEF ObjectInv, ObjectTypeOK
<1>2. ObjectInv /\ [Next]_vars =>
        [\A i, j \in Calls :
           /\ record.id = j /\ record'.id = i /\ i < j /\ by[i] = by[j]
           /\ op[i] = "put" /\ ~record'.deleted
           => result[i] \in {"failed", "cut"}]_vars
  BY <1>1
<1> QED BY <1>2, ObjectInvariance, PTL DEF Spec, PutsInOrder

-----------------------------------------------------------------------------
(* Every call takes effect at one moment *)

AbsObject == IF Live THEN record.id ELSE 0
Effect    == [j \in Calls |-> j \in served]
Saw       == [j \in Calls |-> IF op[j] = "get" /\ result[j] # "absent" THEN old[j] ELSE 0]

LEMMA EffectMaps ==
  ASSUME NEW j \in Calls
  PROVE  /\ served' = served => Effect' = Effect
         /\ served' = served \cup {j} => Effect' = [Effect EXCEPT ![j] = TRUE]
<1>1. served' = served => Effect' = Effect
  BY DEF Effect
<1>2. ASSUME served' = served \cup {j} PROVE Effect' = [Effect EXCEPT ![j] = TRUE]
  <2>1. Effect' = [k \in Calls |-> k \in served \cup {j}]
    BY <1>2 DEF Effect
  <2>2. [Effect EXCEPT ![j] = TRUE]
        = [k \in Calls |-> IF k = j THEN TRUE ELSE k \in served]
    BY DEF Effect
  <2>3. ASSUME NEW k \in Calls
        PROVE  (k \in served \cup {j}) = (IF k = j THEN TRUE ELSE k \in served)
    <3>1. CASE k = j
      BY <3>1
    <3>2. CASE k # j
      BY <3>2
    <3> QED BY <3>1, <3>2
  <2> QED BY <2>1, <2>2, <2>3
<1> QED BY <1>1, <1>2

LEMMA SawMaps ==
  ASSUME \A k \in Calls :
           /\ op'[k] = op[k] \/ (op[k] = "none" /\ old[k] = 0)
           /\ op'[k] = "get" =>
                old'[k] = old[k] /\ (result'[k] = "absent" <=> result[k] = "absent")
  PROVE  Saw' = Saw
<1>1. ASSUME NEW k \in Calls
      PROVE  (IF op'[k] = "get" /\ result'[k] # "absent" THEN old'[k] ELSE 0)
             = (IF op[k] = "get" /\ result[k] # "absent" THEN old[k] ELSE 0)
  OBVIOUS
<1> QED BY <1>1 DEF Saw

LEMMA WriteMaps ==
  ASSUME NEW j \in Calls, op[j] \in {"put", "delete"},
         result[j] \in {"none", "failed", "cut"}, j \notin served,
         served' = served \cup {j}, AbsObject' = IF op[j] = "put" THEN j ELSE 0,
         Saw' = Saw
  PROVE  Atomic!Write(j)
<1>1. Effect' = [Effect EXCEPT ![j] = TRUE] /\ ~Effect[j]
  BY EffectMaps DEF Effect
<1> QED BY <1>1 DEF Atomic!Write, AbsObject, Effect, Saw

LEMMA ReadMaps ==
  ASSUME NEW j \in Calls, op[j] = "get", result[j] = "none", j \notin served,
         served' = served \cup {j}, AbsObject' = AbsObject,
         Saw' = [Saw EXCEPT ![j] = AbsObject]
  PROVE  Atomic!Read(j)
<1>1. Effect' = [Effect EXCEPT ![j] = TRUE] /\ ~Effect[j]
  BY EffectMaps DEF Effect
<1> QED BY <1>1 DEF Atomic!Read, AbsObject, Effect, Saw

\* A step of a call that leaves the object alone.
LEMMA StillMaps ==
  ASSUME record' = record, served' = served, Saw' = Saw
  PROVE  /\ AbsObject' = AbsObject /\ Effect' = Effect /\ Saw' = Saw
         /\ op' = op /\ result' = result => UNCHANGED Atomic!absVars
<1>1. AbsObject' = AbsObject /\ Effect' = Effect
  BY DEF AbsObject, Effect, Live
<1> QED BY <1>1 DEF Atomic!absVars, AbsObject, Effect, Saw

LEMMA ReturnMaps ==
  ASSUME NEW j \in Calls, NEW h \in {"ok", "absent", "failed", "cut"},
         op[j] # "none", result[j] = "none",
         h = "ok" => j \in served' /\ (op[j] = "get" => op'[j] = "get" /\ old'[j] # 0),
         h = "absent" => op[j] = "get" /\ j \in served',
         result' = [result EXCEPT ![j] = h], ObjectTypeOK
  PROVE  Atomic!Return(j, h)
<1>1. Effect'[j] = (j \in served')
  BY DEF Effect
<1>2. result'[j] = h
  BY DEF ObjectTypeOK
<1>3. Saw'[j] = IF op'[j] = "get" /\ result'[j] # "absent" THEN old'[j] ELSE 0
  BY DEF Saw
<1>4. /\ h = "ok" => Effect'[j] /\ (op[j] = "get" => Saw'[j] # 0)
      /\ h = "absent" => op[j] = "get" /\ Effect'[j] /\ Saw'[j] = 0
  BY <1>1, <1>2, <1>3
<1> QED BY <1>4 DEF Atomic!Return, Effect, Saw

LEMMA ContinueMaps ==
  ASSUME NEW j \in Calls, op' = op,
         \/ Atomic!Write(j) \/ Atomic!Read(j)
         \/ AbsObject' = AbsObject /\ Effect' = Effect /\ Saw' = Saw,
         \/ result' = result
         \/ \E h \in {"ok", "absent", "failed", "cut"} : Atomic!Return(j, h)
  PROVE  Atomic!Next
<1>1. Atomic!Continue(j)
  BY DEF Atomic!Continue, AbsObject, Effect, Saw
<1>2. j \in Atomic!Calls
  BY DEF Calls, Atomic!Calls
<1> QED BY <1>1, <1>2 DEF Atomic!Next

LEMMA EndResult ==
  ASSUME NEW j, NEW h, End(j, h)
  PROVE  result' = result \/ (result[j] = "none" /\ result' = [result EXCEPT ![j] = h])
BY DEF End

\* A call that ends, without an effect of this step.
LEMMA EndMaps ==
  ASSUME ObjectTypeOK, NEW j \in Calls, NEW h \in {"ok", "failed", "cut"},
         op[j] # "none", op' = op, old' = old, record' = record, served' = served,
         result' = result \/ (result[j] = "none" /\ result' = [result EXCEPT ![j] = h]),
         h = "ok" => j \in served /\ (op[j] = "get" => old[j] # 0)
  PROVE  Atomic!Next
<1>1. \A k \in Calls : result'[k] = "absent" <=> result[k] = "absent"
  BY DEF ObjectTypeOK
<1>2. Saw' = Saw
  BY <1>1, SawMaps
<1>3. AbsObject' = AbsObject /\ Effect' = Effect
  BY <1>2, StillMaps
<1>4. CASE result' = result
  BY <1>2, <1>3, <1>4, ContinueMaps
<1>5. CASE result[j] = "none" /\ result' = [result EXCEPT ![j] = h]
  <2>1. Atomic!Return(j, h)
    BY <1>5, ReturnMaps
  <2> QED BY <1>2, <1>3, <2>1, ContinueMaps
<1> QED BY <1>4, <1>5

\* A step that no caller can tell.
LEMMA StutterMaps ==
  ASSUME op' = op, result' = result, old' = old, served' = served, record' = record
  PROVE  UNCHANGED Atomic!absVars
<1>1. Saw' = Saw
  BY SawMaps
<1> QED BY <1>1, StillMaps

\* A record is written by call j, which may end with it.
LEMMA RecordMaps ==
  ASSUME ObjectTypeOK, NEW j \in Calls, op[j] \in {"put", "delete"}, j \notin served,
         NEW r, NEW a, Replaced(r, a), r.j = j, r.id \in Calls,
         op[j] = "put" => r.id = j /\ r.deleted = FALSE,
         op[j] = "delete" => r.deleted = TRUE,
         op' = op, old' = old, NEW h \in {"ok", "failed"},
         result[j] \in {"none", "failed", "cut"},
         result' = result \/ (result[j] = "none" /\ result' = [result EXCEPT ![j] = h])
  PROVE  Atomic!Next
<1>1. /\ served' = served \cup {j}
      /\ record'.id = r.id /\ record'.deleted = r.deleted
  BY DEF Replaced
<1>2. AbsObject' = IF op[j] = "put" THEN j ELSE 0
  BY <1>1 DEF AbsObject, Live, Calls
<1>3. \A k \in Calls : result'[k] = "absent" <=> result[k] = "absent"
  BY DEF ObjectTypeOK
<1>4. Saw' = Saw
  BY <1>3, SawMaps
<1>5. Atomic!Write(j)
  BY <1>1, <1>2, <1>4, WriteMaps
<1>6. CASE result' = result
  BY <1>5, <1>6, ContinueMaps
<1>7. CASE result[j] = "none" /\ result' = [result EXCEPT ![j] = h]
  <2>1. Atomic!Return(j, h)
    BY <1>1, <1>7, ReturnMaps
  <2> QED BY <1>5, <2>1, ContinueMaps
<1> QED BY <1>6, <1>7

LEMMA PublishMaps ==
  ASSUME ObjectInv, NEW j \in Calls, Publish(j)
  PROVE  Atomic!Next \/ UNCHANGED Atomic!absVars
<1>0. ObjectTypeOK /\ CallOK(j)
  BY DEF ObjectInv
<1>1. PICK r : r = PutRecord(j)
  OBVIOUS
<1>2. PICK q : q = [r EXCEPT !.after = 0]
  OBVIOUS
<1>3. /\ r \in Request /\ r.kind = "record" /\ r.j = j /\ r.id = j /\ r.deleted = FALSE
  BY <1>0, <1>1, SentRequests DEF PutRecord
<1>4. /\ step[j] = "upload" /\ UNCHANGED <<op, old>>
      /\ \/ Answered(j, r) /\ (End(j, "ok") \/ StepTo(j, "purge"))
         \/ Unanswered(j, r) /\ StepTo(j, "rollback")
  BY <1>1 DEF Publish
<1>5. j \notin served /\ op[j] = "put" /\ result[j] \in {"none", "cut"}
  BY <1>0, <1>4 DEF CallOK
<1>6. result' = result \/ (result[j] = "none" /\ result' = [result EXCEPT ![j] = "ok"])
  BY <1>4, EndResult DEF StepTo
<1>7. \/ Replaced(r, r.after) \/ Replaced(r, 0)
      \/ UNCHANGED <<record, served>> /\ result' = result
  BY <1>0, <1>2, <1>3, <1>4, RecordAsked DEF StepTo
<1>8. CASE Replaced(r, r.after) \/ Replaced(r, 0)
  BY <1>0, <1>3, <1>4, <1>5, <1>6, <1>8, RecordMaps
<1>9. CASE UNCHANGED <<record, served>> /\ result' = result
  BY <1>4, <1>9, StutterMaps
<1> QED BY <1>7, <1>8, <1>9

LEMMA PublishDeletionMaps ==
  ASSUME ObjectInv, NEW j \in Calls, PublishDeletion(j)
  PROVE  Atomic!Next \/ UNCHANGED Atomic!absVars
<1>0. ObjectTypeOK /\ CallOK(j)
  BY DEF ObjectInv
<1>1. PICK r : r = [kind |-> "record", j |-> j, id |-> old[j], deleted |-> TRUE,
                    after |-> old[j]]
  OBVIOUS
<1>2. PICK q : q = [r EXCEPT !.after = 0]
  OBVIOUS
<1>3. /\ step[j] = "publish" /\ UNCHANGED <<op, old>>
      /\ Answered(j, r) \/ Unanswered(j, r)
      /\ End(j, "failed") \/ StepTo(j, "purge")
  BY <1>1 DEF PublishDeletion
<1>4. /\ j \notin served /\ op[j] = "delete" /\ result[j] \in {"none", "cut"}
      /\ old[j] # 0
  BY <1>0, <1>3 DEF CallOK
<1>5. /\ r \in Request /\ r.kind = "record" /\ r.j = j /\ r.id \in Calls
      /\ r.deleted = TRUE
  BY <1>0, <1>1, <1>4, SentRequests, RequestFields
<1>6. result' = result \/ (result[j] = "none" /\ result' = [result EXCEPT ![j] = "failed"])
  BY <1>3, EndResult DEF StepTo
<1>7. Replaced(r, r.after) \/ Replaced(r, 0) \/ UNCHANGED <<record, served>>
  BY <1>0, <1>2, <1>3, <1>5, RecordAsked
<1>8. CASE Replaced(r, r.after) \/ Replaced(r, 0)
  BY <1>0, <1>3, <1>4, <1>5, <1>6, <1>8, RecordMaps
<1>9. CASE UNCHANGED <<record, served>>
  BY <1>0, <1>3, <1>4, <1>6, <1>9, EndMaps
<1> QED BY <1>7, <1>8, <1>9

LEMMA PurgeMaps ==
  ASSUME ObjectInv, NEW j \in Calls, PurgeOld(j) \/ Rollback(j)
  PROVE  Atomic!Next
<1>0. ObjectTypeOK /\ CallOK(j)
  BY DEF ObjectInv
<1>1. PICK i : i = IF step[j] = "purge" THEN old[j] ELSE j
  OBVIOUS
<1>2. PICK r : r = [kind |-> "purge", j |-> j, id |-> i]
  OBVIOUS
<1>3. (i = old[j] /\ old[j] # 0) \/ i = j
  BY <1>0, <1>1 DEF CallOK
<1>4. r \in Request /\ r.kind = "purge"
  BY <1>0, <1>2, <1>3, SentRequests
<1>5. /\ Answered(j, r) \/ Unanswered(j, r)
      /\ \/ step[j] = "purge" /\ End(j, "ok")
         \/ End(j, "failed")
      /\ UNCHANGED <<op, old>> /\ step[j] \in {"purge", "rollback"}
  BY <1>1, <1>2 DEF PurgeOld, Rollback
<1>6. UNCHANGED <<record, served>>
  BY <1>0, <1>4, <1>5, PurgeAsked
<1>7. op[j] \in {"put", "delete"} /\ (step[j] = "purge" => j \in served)
  BY <1>0, <1>5 DEF CallOK
<1>8. CASE step[j] = "purge" /\ End(j, "ok")
  <2>1. result' = result \/ (result[j] = "none" /\ result' = [result EXCEPT ![j] = "ok"])
    BY <1>8, EndResult
  <2> QED BY <1>0, <1>5, <1>6, <1>7, <1>8, <2>1, EndMaps
<1>9. CASE End(j, "failed")
  <2>1. result' = result \/ (result[j] = "none" /\ result' = [result EXCEPT ![j] = "failed"])
    BY <1>9, EndResult
  <2> QED BY <1>0, <1>5, <1>6, <1>7, <2>1, EndMaps
<1> QED BY <1>5, <1>8, <1>9

LEMMA ServeLateMaps ==
  ASSUME ObjectInv, NEW c \in Clients, ServeLate(c)
  PROVE  Atomic!Next \/ UNCHANGED Atomic!absVars
<1>0. ObjectTypeOK /\ \A k \in Calls : CallOK(k)
  BY DEF ObjectInv
<1>1. PICK h : h = Head(late[c])
  OBVIOUS
<1>2. late[c] # << >> /\ Serve(h) /\ UNCHANGED <<op, old, result>>
  BY <1>1 DEF ServeLate, callVars
<1>3. h \in Range(late[c]) /\ h \in Request
  BY <1>0, <1>1, <1>2, TailRange DEF ObjectTypeOK
<1>4. /\ LateOK(c, h) /\ h.j \in Calls /\ h.id \in Calls
      /\ h.kind \in {"chunk", "record", "purge"}
      /\ h.kind = "record" => h.deleted \in BOOLEAN
  BY <1>3, RequestFields DEF ObjectInv, Buffered
<1>5. CASE h.kind = "record"
  <2>1. Replaced(h, h.after)
    BY <1>0, <1>2, <1>3, <1>5, RecordServed
  <2>2. /\ h.j \notin served
        /\ h.deleted => op[h.j] = "delete"
        /\ ~h.deleted => op[h.j] = "put" /\ h.id = h.j
        /\ step[h.j] \in {"rollback", "ended"}
    BY <1>4, <1>5 DEF LateOK
  <2>3. result[h.j] \in {"none", "failed", "cut"}
    BY <1>0, <1>4, <2>2 DEF CallOK, ObjectTypeOK
  <2>4. /\ op[h.j] \in {"put", "delete"}
        /\ op[h.j] = "put" => h.id = h.j /\ h.deleted = FALSE
        /\ op[h.j] = "delete" => h.deleted = TRUE
    BY <1>4, <1>5, <2>2
  <2> QED BY <1>0, <1>2, <1>4, <2>1, <2>2, <2>3, <2>4, RecordMaps
<1>6. CASE h.kind # "record"
  <2>1. UNCHANGED <<record, served>>
    BY <1>2, <1>4, <1>6 DEF Serve
  <2> QED BY <1>2, <2>1, StutterMaps
<1> QED BY <1>5, <1>6

LEMMA LookUpMaps ==
  ASSUME ObjectInv, NEW j \in Calls, LookUp(j)
  PROVE  Atomic!Next \/ UNCHANGED Atomic!absVars
<1>0. ObjectTypeOK /\ CallOK(j)
  BY DEF ObjectInv
<1>1. /\ step[j] = "look" /\ old' = [old EXCEPT ![j] = record.id]
      /\ UNCHANGED <<record, op>>
  BY DEF LookUp, streamVars
<1>2. /\ op[j] # "none" /\ j \notin served /\ result[j] \in {"none", "cut"}
      /\ op[j] = "get" => result[j] = "none"
  BY <1>0, <1>1 DEF CallOK
<1>3. old'[j] = record.id /\ \A k \in Calls \ {j} : old'[k] = old[k]
  BY <1>0, <1>1 DEF ObjectTypeOK
<1>4. AbsObject' = AbsObject
  BY <1>1 DEF AbsObject, Live
<1>5. CASE op[j] \in {"put", "delete"} /\ served' = served /\ result' = result
  <2>1. Saw' = Saw
    BY <1>1, <1>3, <1>5, SawMaps
  <2> QED BY <1>1, <1>5, <2>1, StillMaps
<1>6. CASE op[j] = "delete" /\ record.id = 0 /\ End(j, "ok") /\ served' = served \cup {j}
  <2>1. result' = result \/ (result[j] = "none" /\ result' = [result EXCEPT ![j] = "ok"])
    BY <1>6, EndResult
  <2>2. \A k \in Calls : result'[k] = "absent" <=> result[k] = "absent"
    BY <1>0, <2>1 DEF ObjectTypeOK
  <2>3. Saw' = Saw
    BY <1>1, <1>3, <1>6, <2>2, SawMaps
  <2>4. AbsObject' = 0
    BY <1>1, <1>6 DEF AbsObject, Live
  <2>5. Atomic!Write(j)
    BY <1>2, <1>6, <2>3, <2>4, WriteMaps
  <2>6. CASE result' = result
    BY <1>1, <2>5, <2>6, ContinueMaps
  <2>7. CASE result[j] = "none" /\ result' = [result EXCEPT ![j] = "ok"]
    <3>1. Atomic!Return(j, "ok")
      BY <1>0, <1>6, <2>7, ReturnMaps
    <3> QED BY <1>1, <2>5, <3>1, ContinueMaps
  <2> QED BY <2>1, <2>6, <2>7
<1>7. CASE op[j] = "get" /\ Live /\ StepTo(j, "read") /\ served' = served \cup {j}
  <2>1. result' = result /\ AbsObject = record.id
    BY <1>7 DEF StepTo, AbsObject
  <2>2. Saw' = [k \in Calls |-> IF op[k] = "get" /\ result[k] # "absent" THEN old'[k] ELSE 0]
    BY <1>1, <2>1 DEF Saw
  <2>3. [Saw EXCEPT ![j] = AbsObject]
        = [k \in Calls |-> IF k = j THEN AbsObject
                           ELSE IF op[k] = "get" /\ result[k] # "absent" THEN old[k] ELSE 0]
    BY DEF Saw
  <2>4. Saw' = [Saw EXCEPT ![j] = AbsObject]
    BY <1>2, <1>3, <1>7, <2>1, <2>2, <2>3
  <2>5. Atomic!Read(j)
    BY <1>2, <1>4, <1>7, <2>4, ReadMaps
  <2> QED BY <1>1, <2>1, <2>5, ContinueMaps
<1>8. CASE op[j] = "get" /\ ~Live /\ End(j, "absent") /\ served' = served \cup {j}
  <2>1. result' = [result EXCEPT ![j] = "absent"] /\ AbsObject = 0
    BY <1>2, <1>8, EndResult DEF End, AbsObject
  <2>2. Saw' = [k \in Calls |-> IF op[k] = "get" /\ result'[k] # "absent" THEN old'[k] ELSE 0]
    BY <1>1 DEF Saw
  <2>3. [Saw EXCEPT ![j] = AbsObject]
        = [k \in Calls |-> IF k = j THEN AbsObject
                           ELSE IF op[k] = "get" /\ result[k] # "absent" THEN old[k] ELSE 0]
    BY DEF Saw
  <2>4. /\ result'[j] = "absent" /\ \A k \in Calls \ {j} : result'[k] = result[k]
    BY <1>0, <2>1 DEF ObjectTypeOK
  <2>5. Saw' = [Saw EXCEPT ![j] = AbsObject]
    BY <1>3, <2>1, <2>2, <2>3, <2>4
  <2>6. Atomic!Read(j)
    BY <1>2, <1>4, <1>8, <2>5, ReadMaps
  <2>7. Atomic!Return(j, "absent")
    BY <1>0, <1>2, <1>8, <2>1, ReturnMaps
  <2> QED BY <1>1, <2>6, <2>7, ContinueMaps
<1> QED BY <1>0, <1>2, <1>5, <1>6, <1>7, <1>8, LookUpCases DEF StepTo

LEMMA ReceiveMaps ==
  ASSUME ObjectInv, NEW j \in Calls, Receive(j)
  PROVE  Atomic!Next \/ UNCHANGED Atomic!absVars
<1>0. ObjectTypeOK /\ CallOK(j)
  BY DEF ObjectInv
<1>1. /\ step[j] = "read" /\ UNCHANGED <<record, op, old, served>>
  BY DEF Receive, streamVars
<1>2. op[j] = "get" /\ old[j] # 0 /\ j \in served
  BY <1>0, <1>1 DEF CallOK
<1>3. UNCHANGED <<step, result>> \/ End(j, "ok") \/ End(j, "failed")
  BY <1>0, <1>2, ReceiveType
<1>4. CASE UNCHANGED <<step, result>>
  BY <1>1, <1>4, StutterMaps
<1>5. ASSUME NEW h \in {"ok", "failed"}, End(j, h) PROVE Atomic!Next
  <2>1. result' = result \/ (result[j] = "none" /\ result' = [result EXCEPT ![j] = h])
    BY <1>5, EndResult
  <2> QED BY <1>0, <1>1, <1>2, <2>1, EndMaps
<1> QED BY <1>3, <1>4, <1>5

LEMMA BeginMaps ==
  ASSUME ObjectInv, NEW c \in Clients, NEW j \in Calls, NEW o \in Does[c], Begin(c, j, o)
  PROVE  Atomic!Next
<1>0. ObjectTypeOK /\ CallOK(j)
  BY DEF ObjectInv
<1>1. /\ step[j] = "idle" /\ o \in {"put", "get", "delete"}
      /\ op' = [op EXCEPT ![j] = o]
      /\ UNCHANGED <<record, old, result, served>>
  BY DoesAssumption DEF Begin, streamVars, Ops, StepTo
<1>2. op[j] = "none" /\ old[j] = 0
  BY <1>0, <1>1 DEF CallOK
<1>3. \A k \in Calls : op'[k] = op[k] \/ k = j
  BY <1>0, <1>1 DEF ObjectTypeOK
<1>4. Saw' = Saw
  BY <1>1, <1>2, <1>3, SawMaps
<1>5. AbsObject' = AbsObject /\ Effect' = Effect
  BY <1>1, <1>4, StillMaps
<1>6. Atomic!Begin(j)
  BY <1>1, <1>2, <1>4, <1>5 DEF Atomic!Begin, AbsObject, Effect, Saw
<1>7. j \in Atomic!Calls
  BY DEF Calls, Atomic!Calls
<1> QED BY <1>6, <1>7 DEF Atomic!Next

LEMMA ExpireRecordMaps ==
  ASSUME ObjectInv, ExpireRecord
  PROVE  Atomic!Next \/ UNCHANGED Atomic!absVars
<1>1. /\ record.id # 0 /\ record' = NoRecord
      /\ UNCHANGED <<op, old, result, served>>
  BY DEF ExpireRecord, callVars
<1>2. Saw' = Saw /\ Effect' = Effect
  BY <1>1, SawMaps DEF Effect
<1>3. AbsObject' = 0
  BY <1>1 DEF AbsObject, Live, NoRecord
<1>4. CASE AbsObject # 0
  <2>1. Atomic!Vanish
    BY <1>1, <1>2, <1>3, <1>4 DEF Atomic!Vanish, AbsObject, Effect, Saw
  <2> QED BY <2>1 DEF Atomic!Next
<1>5. CASE AbsObject = 0
  BY <1>1, <1>2, <1>3, <1>5 DEF Atomic!absVars, AbsObject, Effect, Saw
<1> QED BY <1>4, <1>5

LEMMA InitMaps == Init => Atomic!Init
<1> SUFFICES ASSUME Init PROVE Atomic!Init
  OBVIOUS
<1>1. AbsObject = 0 /\ Saw = [j \in Calls |-> 0]
  BY DEF Init, AbsObject, Saw, Live, NoRecord
<1>2. Effect = [j \in Calls |-> FALSE]
  <2>1. \A j \in Calls : (j \in served) = FALSE
    BY DEF Init
  <2> QED BY <2>1 DEF Effect
<1> QED BY <1>1, <1>2 DEF Init, Atomic!Init, Calls, Atomic!Calls, AbsObject, Effect, Saw

LEMMA NextMaps == ObjectInv /\ [Next]_vars => [Atomic!Next]_(Atomic!absVars)
<1> SUFFICES ASSUME ObjectInv, [Next]_vars
             PROVE  Atomic!Next \/ UNCHANGED Atomic!absVars
  OBVIOUS
<1>0. ObjectTypeOK /\ \A k \in Calls : CallOK(k)
  BY DEF ObjectInv
<1>1. ASSUME NEW j \in Calls, LookUpFails(j) PROVE Atomic!Next
  <2>1. /\ step[j] = "look" /\ End(j, "failed") /\ UNCHANGED <<record, op, old, served>>
    BY <1>1 DEF LookUpFails, streamVars
  <2>2. result' = result \/ (result[j] = "none" /\ result' = [result EXCEPT ![j] = "failed"])
    BY <2>1, EndResult
  <2>3. op[j] # "none"
    BY <1>0, <2>1 DEF CallOK
  <2> QED BY <1>0, <2>1, <2>2, <2>3, EndMaps
<1>2. ASSUME NEW j \in Calls, Interrupt(j) PROVE Atomic!Next
  <2>1. /\ step[j] # "idle" /\ result[j] = "none" /\ result' = [result EXCEPT ![j] = "cut"]
        /\ UNCHANGED <<record, op, old, served>>
    BY <1>2 DEF Interrupt, streamVars
  <2>2. op[j] # "none"
    BY <1>0, <2>1 DEF CallOK
  <2> QED BY <1>0, <2>1, <2>2, EndMaps
<1>3. ASSUME NEW j \in Calls, Upload(j) \/ InputFails(j) \/ Expire(j)
      PROVE  UNCHANGED Atomic!absVars
  <2>1. UNCHANGED <<record, op, old, served, result>>
    BY <1>0, <1>3, UploadEffect
       DEF InputFails, Expire, StepTo, streamVars, callVars
  <2> QED BY <2>1, StutterMaps
<1>4. CASE UNCHANGED vars
  BY <1>4, StutterMaps DEF vars, streamVars, callVars
<1>5. ASSUME NEW j \in Calls, ReadFails(j) PROVE Atomic!Next
  <2>1. /\ step[j] = "read" /\ End(j, "failed") /\ UNCHANGED <<record, op, old, served>>
    BY <1>5 DEF ReadFails, streamVars
  <2>2. result' = result \/ (result[j] = "none" /\ result' = [result EXCEPT ![j] = "failed"])
    BY <2>1, EndResult
  <2>3. op[j] # "none"
    BY <1>0, <2>1 DEF CallOK
  <2> QED BY <1>0, <2>1, <2>2, <2>3, EndMaps
<1> QED BY <1>1, <1>2, <1>3, <1>4, <1>5, LookUpMaps, PublishMaps, PublishDeletionMaps,
           PurgeMaps, ServeLateMaps, ReceiveMaps, BeginMaps, ExpireRecordMaps
        DEF Next, Proceed

\* Every put, get and delete takes effect at one moment, and not twice: the object
\* store implements AtomicObject (put, get, delete).
THEOREM ObjectIsAtomic == Spec => ImplementsAtomic
BY InitMaps, NextMaps, ObjectInvariance, PTL DEF Spec, ImplementsAtomic, Atomic!Spec
=============================================================================
