--------------------------- MODULE KvBucketProofs ---------------------------
(***************************************************************************)
(* Proofs about KvBucket, for every set of clients and keys, every choice  *)
(* of operations, and all bounds.                                          *)
(***************************************************************************)
EXTENDS KvBucket, SequenceTheorems, TLAPS

\* The operation of a call tells the steps it may be in.
CallShape(cl) ==
  cl # Idle => /\ cl.op = "clear" <=> cl.step \in {"list", "purge"}
               /\ cl.step \in {"look", "retake"} => cl.op = "create"
               /\ cl.step = "look" => cl.err # "none"

\* A request that is waited for is the one the call in its step has made.
AsCalled(cl, r) ==
  /\ cl # Idle /\ cl.step # "list"
  /\ r.how = cl.op /\ r.key = cl.key /\ r.seen = cl.seen
  /\ cl.step = "first"  => r.op = FirstOp(cl.op)
  /\ cl.step = "look"   => r.op = "READ"
  /\ cl.step = "retake" => r.op = "PUT"
  /\ cl.step = "purge"  => r.op = "PURGE"

\* What an answer may be, given the call it answers.
Answers(cl, a) ==
  /\ cl # Idle /\ cl.step # "list"
  /\ a.kind = "ok"    => cl.step # "look" /\ cl.op # "get"
  /\ a.kind = "entry" => cl.step = "look" \/ cl.op = "get"

\* A client waits for at most one answer, and only while it has called.
Coherent ==
  /\ \A c \in Clients : CallShape(call[c])
  /\ \A c \in Clients : reply[c] # NoAnswer => Answers(call[c], reply[c])
  /\ \A r \in wire : r.waiting => /\ reply[r.from] = NoAnswer
                                  /\ AsCalled(call[r.from], r)
  /\ \A r, s \in wire : r.waiting /\ s.waiting /\ r.from = s.from => r = s

-----------------------------------------------------------------------------
(* Types *)

LEMMA InitTypes == Init => BucketTypeOK /\ Coherent
<1> SUFFICES ASSUME Init PROVE BucketTypeOK /\ Coherent
  OBVIOUS
<1>1. << >> \in Seq(Keys)
  BY EmptySeq
<1>2. BucketTypeOK
  BY <1>1, MaxRevAssumption
     DEF Init, BucketTypeOK, Entry, Revision, Closed, Listing
<1>3. Coherent
  BY DEF Init, Coherent, CallShape
<1> QED BY <1>2, <1>3

\* Requests a client that gives up an answer, or has it, leaves on their way.
Without(c, w) ==
  \A r \in w : \/ r \in wire /\ (r.waiting => r.from # c)
               \/ \E s \in wire : r = [s EXCEPT !.waiting = FALSE]

LEMMA GivenUpType ==
  ASSUME NEW s \in Request
  PROVE  LET r == [s EXCEPT !.waiting = FALSE]
         IN  /\ r \in Request /\ ~r.waiting
             /\ r.from = s.from /\ r.how = s.how /\ r.seen = s.seen
             /\ r.key = s.key /\ r.op = s.op /\ r.expect = s.expect
BY DEF Request

LEMMA WithoutType ==
  ASSUME BucketTypeOK, NEW c, NEW w, Without(c, w)
  PROVE  w \subseteq Request
<1>1. wire \subseteq Request
  BY DEF BucketTypeOK
<1> QED BY <1>1, GivenUpType DEF Without

\* A client that continues does so with an answer, or without one in time.
LEMMA Continues ==
  ASSUME BucketTypeOK, Coherent, NEW c \in Clients, Receive(c) \/ TimesOut(c)
  PROVE  \E a \in Answer, w \in SUBSET Request :
           /\ React(c, a, w) /\ Without(c, w)
           /\ (a = reply[c] /\ a # NoAnswer) \/ a = TimedOut
           /\ Answers(call[c], a)
           /\ UNCHANGED serverVars
<1>1. CASE Receive(c)
  <2>1. Without(c, wire)
    BY <1>1 DEF Receive, Coherent, Without
  <2>2. reply[c] \in Answer
    BY <1>1 DEF Receive, BucketTypeOK
  <2>3. wire \in SUBSET Request
    BY DEF BucketTypeOK
  <2>4. Answers(call[c], reply[c])
    BY <1>1 DEF Receive, Coherent
  <2>5. React(c, reply[c], wire) /\ reply[c] # NoAnswer /\ UNCHANGED serverVars
    BY <1>1 DEF Receive
  <2> QED BY <2>1, <2>2, <2>3, <2>4, <2>5
<1>2. CASE TimesOut(c)
  <2>1. TimedOut \in Answer
    BY MaxRevAssumption DEF TimedOut, Answer, Revision
  <2> DEFINE late == (wire \ Mine(c)) \cup {[r EXCEPT !.waiting = FALSE] : r \in Mine(c)}
  <2>2. React(c, TimedOut, wire \ Mine(c)) \/ React(c, TimedOut, late)
    BY <1>2 DEF TimesOut
  <2>3. Without(c, wire \ Mine(c)) /\ Without(c, late)
    BY DEF Without, Mine
  <2>4. wire \ Mine(c) \in SUBSET Request /\ late \in SUBSET Request
    BY <2>3, WithoutType
  <2>5. Answers(call[c], TimedOut) /\ UNCHANGED serverVars
    BY <1>2 DEF TimesOut, Answers, TimedOut
  <2> HIDE DEF late
  <2> QED BY <2>1, <2>2, <2>3, <2>4, <2>5
<1> QED BY <1>1, <1>2

LEMMA AskType ==
  ASSUME BucketTypeOK, NEW c \in Clients, NEW w, w \subseteq Request,
         NEW cl \in Call, NEW o \in Writes \cup {"READ"}, NEW x \in SUBSET Revision,
         Ask(c, w, cl, o, x)
  PROVE  /\ call' \in [Clients -> Call \cup {Idle}]
         /\ wire' \subseteq Request
         /\ reply' \in [Clients -> Answer \cup {NoAnswer}]
<1> DEFINE r == [from |-> c, waiting |-> TRUE, how |-> cl.op, seen |-> cl.seen,
                 key |-> cl.key, op |-> o, expect |-> x]
<1>1. cl.op \in Ops /\ cl.seen \in Revision /\ cl.key \in Keys
  BY DEF Call
<1>2. r \in Request
  BY <1>1 DEF Request
<1>3. wire' = w \cup {r}
  BY DEF Ask
<1>4. call' = [call EXCEPT ![c] = cl] /\ reply' = [reply EXCEPT ![c] = NoAnswer]
  BY DEF Ask
<1> HIDE DEF r
<1> QED BY <1>2, <1>3, <1>4 DEF BucketTypeOK

LEMMA ReplyType ==
  ASSUME BucketTypeOK, NEW r \in Request, NEW a \in Answer
  PROVE  ReplyTo(r, a) \in [Clients -> Answer \cup {NoAnswer}]
BY DEF ReplyTo, BucketTypeOK, Request

LEMMA EntryType ==
  ASSUME NEW e \in Entry
  PROVE  /\ e.op \in Writes \cup {"NONE"} /\ e.rev \in Revision
         /\ e # Nothing => e \in Stored /\ e.rev # 0
         /\ e = Nothing => e.rev = 0 /\ e.op = "NONE" /\ ~Live(e)
BY MaxRevAssumption DEF Entry, Stored, Nothing, Revision, Live

LEMMA WitnessedType ==
  ASSUME BucketTypeOK, NEW k \in Keys, NEW e \in Entry, Witnessed(k, e)
  PROVE  during' \in [Clients -> SUBSET Entry]
BY DEF Witnessed, BucketTypeOK

LEMMA ServeType ==
  ASSUME BucketTypeOK, NEW r \in wire, Serve(r)
  PROVE  BucketTypeOK'
<1>1. r \in Request /\ r.key \in Keys /\ r.from \in Clients
  BY DEF BucketTypeOK, Request
<1>2. wire' \subseteq Request /\ UNCHANGED <<call, list, result, before>>
  BY DEF Serve, BucketTypeOK
<1>3. CASE ServeRead(r)
  <2> DEFINE a == [kind |-> "entry", op |-> entry[r.key].op, rev |-> entry[r.key].rev]
  <2>1. entry[r.key].op \in Writes \cup {"NONE"} /\ entry[r.key].rev \in Revision
    BY <1>1, EntryType DEF BucketTypeOK
  <2>2. a \in Answer
    BY <2>1 DEF Answer
  <2>3. reply' = ReplyTo(r, a) /\ UNCHANGED <<serverVars, during>>
    BY <1>3 DEF ServeRead
  <2> HIDE DEF a
  <2>4. reply' \in [Clients -> Answer \cup {NoAnswer}]
    BY <1>1, <2>2, <2>3, ReplyType
  <2> QED BY <1>2, <2>3, <2>4 DEF BucketTypeOK, serverVars
<1>4. CASE ServeWrite(r)
  <2> DEFINE e == [op |-> r.op, rev |-> seq + 1, by |-> r.from]
             a == [kind |-> "ok", rev |-> e.rev]
  <2>1. r.op \in Writes /\ seq + 1 \in Revision \ {0} /\ seq' = seq + 1
    BY <1>4, MaxRevAssumption DEF ServeWrite, BucketTypeOK, Revision
  <2>2. e \in Entry
    BY <1>1, <2>1 DEF Entry, Stored
  <2>3. a \in Answer
    BY <2>1 DEF Answer
  <2>4. /\ entry' = [entry EXCEPT ![r.key] = e] /\ reply' = ReplyTo(r, a)
        /\ Witnessed(r.key, e)
    BY <1>4 DEF ServeWrite
  <2> HIDE DEF e, a
  <2>5. entry' \in [Keys -> Entry]
    BY <1>1, <2>2, <2>4 DEF BucketTypeOK
  <2>6. reply' \in [Clients -> Answer \cup {NoAnswer}]
    BY <1>1, <2>3, <2>4, ReplyType
  <2>7. during' \in [Clients -> SUBSET Entry]
    BY <1>1, <2>2, <2>4, WitnessedType
  <2> QED BY <1>2, <2>1, <2>5, <2>6, <2>7 DEF BucketTypeOK
<1>5. CASE ServeRefusal(r)
  <2> DEFINE a == [kind |-> "conflict", rev |-> 0]
  <2>1. a \in Answer
    BY MaxRevAssumption DEF Answer, Revision
  <2>2. reply' = ReplyTo(r, a) /\ UNCHANGED <<serverVars, during>>
    BY <1>5 DEF ServeRefusal
  <2> HIDE DEF a
  <2>3. reply' \in [Clients -> Answer \cup {NoAnswer}]
    BY <1>1, <2>1, <2>2, ReplyType
  <2> QED BY <1>2, <2>2, <2>3 DEF BucketTypeOK, serverVars
<1> QED BY <1>3, <1>4, <1>5 DEF Serve

LEMMA CallType ==
  ASSUME NEW cl \in Call
  PROVE  /\ cl.op \in Ops /\ cl.key \in Keys /\ cl.seen \in Revision
         /\ cl.step \in Steps /\ cl.err \in {"none", "conflict", "timeout"}
         /\ cl # Idle
<1>1. cl.op \in Ops
  BY DEF Call
<1>2. cl # Idle
  BY <1>1 DEF Ops, Idle
<1> QED BY <1>1, <1>2 DEF Call

\* The three ways in which a call moves on.
LEMMA StepType ==
  ASSUME NEW cl \in Call, NEW t \in Steps
  PROVE  LET d == [cl EXCEPT !.step = t]
         IN  /\ d \in Call /\ d.step = t
             /\ d.op = cl.op /\ d.key = cl.key /\ d.seen = cl.seen
BY DEF Call

LEMMA LookType ==
  ASSUME NEW cl \in Call, NEW x \in {"conflict", "timeout"}
  PROVE  LET d == [cl EXCEPT !.step = "look", !.err = x]
         IN  /\ d \in Call /\ d.step = "look" /\ d.err # "none"
             /\ d.op = cl.op /\ d.key = cl.key /\ d.seen = cl.seen
BY DEF Call, Steps

LEMMA PurgeType ==
  ASSUME NEW cl \in Call, NEW k \in Keys
  PROVE  LET d == [cl EXCEPT !.step = "purge", !.key = k]
         IN  /\ d \in Call /\ d.step = "purge"
             /\ d.op = cl.op /\ d.key = k /\ d.seen = cl.seen
BY DEF Call, Steps

LEMMA AnswerType ==
  ASSUME NEW a \in Answer
  PROVE  /\ a.kind \in {"ok", "conflict", "timeout", "entry"}
         /\ a.rev \in Revision
         /\ a.kind = "entry" => a.op \in Writes \cup {"NONE"}
         /\ a # NoAnswer
BY DEF Answer, NoAnswer

\* What a call ends with is an outcome.
LEMMA EndedType ==
  ASSUME BucketTypeOK, Coherent, NEW c \in Clients, call[c] # Idle, NEW a \in Answer
  PROVE  /\ Ended(c, a).kind \in {"ok", "absent", "conflict", "timeout"}
         /\ Ended(c, a).rev \in Revision
<1>1. call[c] \in Call /\ CallShape(call[c])
  BY DEF BucketTypeOK, Coherent
<1>2. call[c].step = "look" => call[c].err \in {"conflict", "timeout"}
  BY <1>1, CallType DEF CallShape
<1>3. 0 \in Revision
  BY MaxRevAssumption DEF Revision
<1> QED BY <1>2, <1>3, AnswerType DEF Ended

LEMMA ReturnType ==
  ASSUME BucketTypeOK, NEW c \in Clients, call[c] # Idle,
         NEW w, w \subseteq Request, NEW x,
         x.kind \in {"ok", "absent", "conflict", "timeout"}, x.rev \in Revision,
         Return(c, w, x), UNCHANGED serverVars
  PROVE  BucketTypeOK'
<1> DEFINE out == [op |-> call[c].op, key |-> call[c].key, kind |-> x.kind, rev |-> x.rev]
<1>0. call[c] \in Call
  BY DEF BucketTypeOK
<1>1. call[c].op \in Ops /\ call[c].key \in Keys
  BY <1>0, CallType
<1>2. out \in Outcome
  BY <1>1 DEF Outcome
<1>3. Closed \in Listing
  BY MaxRevAssumption, EmptySeq DEF Closed, Listing, Revision
<1>4. result' = [result EXCEPT ![c] = out]
  BY DEF Return
<1> HIDE DEF out
<1>5. result' \in [Clients -> Outcome \cup {NoOutcome}]
  BY <1>2, <1>4 DEF BucketTypeOK
<1> QED BY <1>3, <1>5 DEF Return, BucketTypeOK, serverVars

LEMMA FirstOpType ==
  ASSUME NEW o \in Ops \ {"clear"}
  PROVE  /\ FirstOp(o) \in Writes \cup {"READ"}
         /\ o = "get" => FirstOp(o) = "READ"
         /\ o \in {"put", "create", "update"} => FirstOp(o) = "PUT"
BY DEF FirstOp, Ops, Writes

LEMMA NewCallType ==
  ASSUME BucketTypeOK, NEW c \in Clients, NEW o \in Ops, NEW k \in Keys,
         NEW t \in Steps, o = "update" => Knows(c, k)
  PROVE  /\ NewCall(c, o, k, t) \in Call
         /\ NewCall(c, o, k, t).op = o /\ NewCall(c, o, k, t).key = k
         /\ NewCall(c, o, k, t).step = t
         /\ NewCall(c, o, k, t).seen = IF o = "update" THEN result[c].rev ELSE 0
<1>1. o = "update" => result[c].rev \in Revision
  BY DEF Knows, BucketTypeOK, Outcome, NoOutcome
<1>2. 0 \in Revision
  BY MaxRevAssumption DEF Revision
<1> QED BY <1>1, <1>2 DEF NewCall, Call

LEMMA ExpectedType ==
  ASSUME BucketTypeOK, NEW c \in Clients, NEW o \in Ops, NEW k,
         o = "update" => Knows(c, k)
  PROVE  Expected(c, o) \in SUBSET Revision
<1>1. o = "update" => result[c].rev \in Revision
  BY DEF Knows, BucketTypeOK, Outcome, NoOutcome
<1>2. 0 \in Revision
  BY MaxRevAssumption DEF Revision
<1> QED BY <1>1, <1>2 DEF Expected

LEMMA BeginsType ==
  ASSUME BucketTypeOK, NEW c \in Clients, NEW k \in Keys, Begins(c, k)
  PROVE  /\ result' \in [Clients -> Outcome \cup {NoOutcome}]
         /\ during' \in [Clients -> SUBSET Entry]
         /\ before' \in [Clients -> SUBSET Revision]
<1>1. entry[k] \in Entry /\ \A j \in Keys : entry[j].rev \in Revision
  BY EntryType DEF BucketTypeOK
<1>2. {entry[j].rev : j \in {j \in Keys : Live(entry[j])}} \in SUBSET Revision
  BY <1>1
<1> QED BY <1>1, <1>2 DEF Begins, BucketTypeOK

LEMMA BeginType ==
  ASSUME BucketTypeOK, NEW c \in Clients, NEW o \in Ops, NEW k \in Keys, Begin(c, o, k)
  PROVE  BucketTypeOK'
<1>1. o \in Ops \ {"clear"} /\ "first" \in Steps
  BY DEF Begin, Steps
<1>2. NewCall(c, o, k, "first") \in Call
  BY <1>1, NewCallType DEF Begin
<1>3. Expected(c, o) \in SUBSET Revision
  BY ExpectedType DEF Begin
<1>4. FirstOp(o) \in Writes \cup {"READ"}
  BY <1>1, FirstOpType
<1>5. Ask(c, wire, NewCall(c, o, k, "first"), FirstOp(o), Expected(c, o))
      /\ wire \subseteq Request
  BY DEF Begin, BucketTypeOK
<1>6. /\ call' \in [Clients -> Call \cup {Idle}]
      /\ wire' \subseteq Request
      /\ reply' \in [Clients -> Answer \cup {NoAnswer}]
  BY <1>2, <1>3, <1>4, <1>5, AskType
<1>7. /\ result' \in [Clients -> Outcome \cup {NoOutcome}]
      /\ during' \in [Clients -> SUBSET Entry]
      /\ before' \in [Clients -> SUBSET Revision]
  BY BeginsType DEF Begin
<1> QED BY <1>6, <1>7 DEF Begin, BucketTypeOK, serverVars

\* A call that goes on asks again, goes back to its list, or ends.
LEMMA ReactType ==
  ASSUME BucketTypeOK, Coherent, NEW c \in Clients, NEW a \in Answer,
         Answers(call[c], a), NEW w, w \subseteq Request, React(c, a, w),
         UNCHANGED serverVars
  PROVE  BucketTypeOK'
<1>0. call[c] \in Call /\ call[c] # Idle /\ CallShape(call[c])
  BY DEF BucketTypeOK, Coherent, Answers
<1>1. CASE /\ Refused(c, a)
           /\ Ask(c, w, [call[c] EXCEPT !.step = "look", !.err = a.kind], "READ", Revision)
           /\ UNCHANGED <<list, result, histVars>>
  <2> DEFINE cl == [call[c] EXCEPT !.step = "look", !.err = a.kind]
  <2>1. a.kind \in {"conflict", "timeout"}
    BY <1>1, AnswerType DEF Refused, Answers
  <2>2. cl \in Call
    BY <2>1, <1>0, LookType
  <2>3. Ask(c, w, cl, "READ", Revision)
    BY <1>1
  <2> HIDE DEF cl
  <2>4. /\ call' \in [Clients -> Call \cup {Idle}]
        /\ wire' \subseteq Request
        /\ reply' \in [Clients -> Answer \cup {NoAnswer}]
    BY <2>2, <2>3, AskType
  <2> QED BY <1>1, <2>4 DEF BucketTypeOK, serverVars, histVars
<1>2. CASE /\ Vacant(c, a)
           /\ Ask(c, w, [call[c] EXCEPT !.step = "retake"], "PUT", {a.rev})
           /\ UNCHANGED <<list, result, histVars>>
  <2> DEFINE cl == [call[c] EXCEPT !.step = "retake"]
  <2>1. cl \in Call
    BY <1>0, StepType DEF Steps
  <2>2. Ask(c, w, cl, "PUT", {a.rev}) /\ "PUT" \in Writes \cup {"READ"}
    BY <1>2 DEF Writes
  <2> HIDE DEF cl
  <2>0. {a.rev} \in SUBSET Revision
    BY AnswerType
  <2>3. /\ call' \in [Clients -> Call \cup {Idle}]
        /\ wire' \subseteq Request
        /\ reply' \in [Clients -> Answer \cup {NoAnswer}]
    BY <2>0, <2>1, <2>2, AskType
  <2> QED BY <1>2, <2>3 DEF BucketTypeOK, serverVars, histVars
<1>3. CASE /\ call[c].step = "purge" /\ a.kind = "ok"
           /\ call' = [call EXCEPT ![c].step = "list"]
           /\ reply' = [reply EXCEPT ![c] = NoAnswer]
           /\ wire' = w
           /\ UNCHANGED <<list, result, histVars>>
  <2>1. [call[c] EXCEPT !.step = "list"] \in Call
    BY <1>0, StepType DEF Steps
  <2> QED BY <1>3, <2>1 DEF BucketTypeOK, serverVars, histVars
<1>4. CASE Return(c, w, Ended(c, a))
  BY <1>0, <1>4, EndedType, ReturnType
<1> QED BY <1>1, <1>2, <1>3, <1>4 DEF React

LEMMA ListType ==
  ASSUME BucketTypeOK, NEW c \in Clients
  PROVE  /\ list[c].cursor \in Revision /\ list[c].queue \in Seq(Keys)
         /\ list[c].ended \in BOOLEAN /\ list[c].cut \in BOOLEAN
         /\ \A k \in After(list[c].cursor) : k \in Keys
BY DEF BucketTypeOK, Listing, After

LEMMA ClearType ==
  ASSUME BucketTypeOK, Coherent, NEW c \in Clients,
         BeginClear(c) \/ Listed(c) \/ ListEnds(c) \/ PurgeNext(c) \/ EndClear(c)
  PROVE  BucketTypeOK'
<1>1. CASE BeginClear(c)
  <2>1. PICK k \in Keys : /\ Begins(c, k)
                          /\ call' = [call EXCEPT ![c] = NewCall(c, "clear", k, "list")]
    BY <1>1 DEF BeginClear
  <2>2. NewCall(c, "clear", k, "list") \in Call
    BY NewCallType DEF Ops, Steps
  <2>3. [cursor |-> 0, queue |-> << >>, ended |-> After(0) = {}, cut |-> FALSE] \in Listing
    BY EmptySeq, MaxRevAssumption DEF Listing, Revision
  <2>4. list' \in [Clients -> Listing]
    BY <1>1, <2>3 DEF BeginClear, BucketTypeOK
  <2>5. call' \in [Clients -> Call \cup {Idle}]
    BY <2>1, <2>2 DEF BucketTypeOK
  <2>6. /\ result' \in [Clients -> Outcome \cup {NoOutcome}]
        /\ during' \in [Clients -> SUBSET Entry]
        /\ before' \in [Clients -> SUBSET Revision]
    BY <2>1, BeginsType
  <2> QED BY <1>1, <2>4, <2>5, <2>6 DEF BeginClear, BucketTypeOK, serverVars
<1>2. CASE Listed(c)
  <2>1. PICK k \in After(list[c].cursor) :
          list' = [list EXCEPT ![c] =
                     [cursor |-> entry[k].rev,
                      queue  |-> IF Live(entry[k]) THEN Append(@.queue, k) ELSE @.queue,
                      ended  |-> EndsAt(entry[k].rev),
                      cut    |-> FALSE]]
    BY <1>2 DEF Listed
  <2>2. k \in Keys /\ entry[k].rev \in Revision
    BY ListType, EntryType DEF BucketTypeOK
  <2>3. (IF Live(entry[k]) THEN Append(list[c].queue, k) ELSE list[c].queue) \in Seq(Keys)
    BY <2>2, ListType, AppendProperties
  <2>4. EndsAt(entry[k].rev) \in BOOLEAN
    BY DEF EndsAt
  <2> DEFINE l == [cursor |-> entry[k].rev,
                   queue  |-> IF Live(entry[k]) THEN Append(list[c].queue, k)
                              ELSE list[c].queue,
                   ended  |-> EndsAt(entry[k].rev),
                   cut    |-> FALSE]
  <2>5. l \in Listing
    BY <2>2, <2>3, <2>4 DEF Listing
  <2>6. list' = [list EXCEPT ![c] = l]
    BY <2>1
  <2> HIDE DEF l
  <2>7. list' \in [Clients -> Listing]
    BY <2>5, <2>6 DEF BucketTypeOK
  <2> QED BY <1>2, <2>7 DEF Listed, BucketTypeOK, serverVars, histVars
<1>3. CASE ListEnds(c)
  <2> DEFINE l == [list[c] EXCEPT !.ended = TRUE, !.cut = After(list[c].cursor) # {}]
  <2>1. l \in Listing
    BY DEF BucketTypeOK, Listing
  <2>2. list' = [list EXCEPT ![c] = l]
    BY <1>3 DEF ListEnds
  <2> HIDE DEF l
  <2>3. list' \in [Clients -> Listing]
    BY <2>1, <2>2 DEF BucketTypeOK
  <2> QED BY <1>3, <2>3 DEF ListEnds, BucketTypeOK, serverVars, histVars
<1>4. CASE PurgeNext(c)
  <2> DEFINE k  == Head(list[c].queue)
             cl == [call[c] EXCEPT !.step = "purge", !.key = k]
  <2>1. k \in Keys /\ Tail(list[c].queue) \in Seq(Keys)
    BY <1>4, ListType, HeadTailProperties DEF PurgeNext
  <2>2. [list[c] EXCEPT !.queue = Tail(@)] \in Listing
    BY <2>1 DEF BucketTypeOK, Listing
  <2>3. list' \in [Clients -> Listing]
    BY <1>4, <2>2 DEF PurgeNext, BucketTypeOK
  <2>4. call[c] \in Call
    BY <1>4 DEF PurgeNext, BucketTypeOK
  <2>5. cl \in Call
    BY <2>1, <2>4, PurgeType
  <2>6. Ask(c, wire, cl, "PURGE", Revision) /\ wire \subseteq Request
    BY <1>4 DEF PurgeNext, BucketTypeOK
  <2> HIDE DEF cl
  <2>7. /\ call' \in [Clients -> Call \cup {Idle}]
        /\ wire' \subseteq Request
        /\ reply' \in [Clients -> Answer \cup {NoAnswer}]
    BY <2>5, <2>6, AskType DEF Writes
  <2> QED BY <1>4, <2>3, <2>7 DEF PurgeNext, BucketTypeOK, serverVars, histVars
<1>5. CASE EndClear(c)
  <2> DEFINE x == [kind |-> "ok", rev |-> 0]
  <2>1. x.kind \in {"ok", "absent", "conflict", "timeout"} /\ x.rev \in Revision
    BY MaxRevAssumption DEF Revision
  <2>2. Return(c, wire, x) /\ call[c] # Idle /\ wire \subseteq Request /\ UNCHANGED serverVars
    BY <1>5 DEF EndClear, BucketTypeOK
  <2> HIDE DEF x
  <2> QED BY <2>1, <2>2, ReturnType
<1> QED BY <1>1, <1>2, <1>3, <1>4, <1>5

LEMMA NextType == BucketTypeOK /\ Coherent /\ [BucketNext]_vars => BucketTypeOK'
<1> SUFFICES ASSUME BucketTypeOK, Coherent, [BucketNext]_vars PROVE BucketTypeOK'
  OBVIOUS
<1>1. ASSUME NEW r \in wire, Serve(r) PROVE BucketTypeOK'
  BY <1>1, ServeType
<1>2. ASSUME NEW k \in Keys, Expire(k) PROVE BucketTypeOK'
  <2>1. Nothing \in Entry
    BY DEF Entry
  <2> QED BY <1>2, <2>1, WitnessedType DEF Expire, BucketTypeOK
<1>3. ASSUME NEW c \in Clients, NEW o \in Ops, NEW k \in Keys, Begin(c, o, k)
      PROVE  BucketTypeOK'
  BY <1>3, BeginType
<1>4. ASSUME NEW c \in Clients, Receive(c) \/ TimesOut(c) PROVE BucketTypeOK'
  <2>1. PICK a \in Answer, w \in SUBSET Request :
          React(c, a, w) /\ Answers(call[c], a) /\ UNCHANGED serverVars
    BY <1>4, Continues
  <2> QED BY <2>1, ReactType
<1>5. ASSUME NEW c \in Clients,
             BeginClear(c) \/ Listed(c) \/ ListEnds(c) \/ PurgeNext(c) \/ EndClear(c)
      PROVE  BucketTypeOK'
  BY <1>5, ClearType
<1>6. CASE UNCHANGED vars
  BY <1>6 DEF vars, serverVars, histVars, BucketTypeOK
<1> QED BY <1>1, <1>2, <1>3, <1>4, <1>5, <1>6 DEF BucketNext, ClientStep

-----------------------------------------------------------------------------
(* Calls, requests and answers *)

\* Who waits for nothing has no request on its way that it waits for.
LEMMA NothingAwaited ==
  ASSUME Coherent, NEW c \in Clients, call[c] = Idle \/ call[c].step = "list"
  PROVE  Without(c, wire) /\ reply[c] = NoAnswer
BY DEF Coherent, Without, AsCalled, Answers

LEMMA WithoutWaiting ==
  ASSUME BucketTypeOK, NEW c, NEW w, Without(c, w), NEW r \in w, r.waiting
  PROVE  r \in wire /\ r.from # c
<1>1. wire \subseteq Request
  BY DEF BucketTypeOK
<1>2. \A s \in wire : r # [s EXCEPT !.waiting = FALSE]
  BY <1>1, GivenUpType
<1> QED BY <1>2 DEF Without

LEMMA AskCoherent ==
  ASSUME BucketTypeOK, Coherent, NEW c \in Clients,
         NEW w, w \subseteq Request, Without(c, w),
         NEW cl \in Call, CallShape(cl), cl.step # "list",
         NEW o, NEW x, Ask(c, w, cl, o, x),
         cl.step = "first"  => o = FirstOp(cl.op),
         cl.step = "look"   => o = "READ",
         cl.step = "retake" => o = "PUT",
         cl.step = "purge"  => o = "PURGE"
  PROVE  Coherent'
<1> DEFINE r == [from |-> c, waiting |-> TRUE, how |-> cl.op, seen |-> cl.seen,
                 key |-> cl.key, op |-> o, expect |-> x]
<1>1. wire' = w \cup {r}
  BY DEF Ask
<1>2. /\ call'[c] = cl /\ reply'[c] = NoAnswer
      /\ \A d \in Clients : d # c => call'[d] = call[d] /\ reply'[d] = reply[d]
  BY DEF Ask, BucketTypeOK
<1>3. r.from = c /\ AsCalled(cl, r)
  BY CallType DEF AsCalled
<1> HIDE DEF r
<1>4. \A s \in w : s.waiting => s \in wire /\ s.from # c
  BY WithoutWaiting
<1>5. \A s \in wire : s.from \in Clients
  BY DEF BucketTypeOK, Request
<1>6. \A d \in Clients : CallShape(call'[d])
  BY <1>2 DEF Coherent
<1>7. \A d \in Clients : reply'[d] # NoAnswer => Answers(call'[d], reply'[d])
  BY <1>2 DEF Coherent
<1>8. \A s \in wire' : s.waiting => reply'[s.from] = NoAnswer /\ AsCalled(call'[s.from], s)
  BY <1>1, <1>2, <1>3, <1>4, <1>5 DEF Coherent
<1>9. \A s, t \in wire' : s.waiting /\ t.waiting /\ s.from = t.from => s = t
  BY <1>1, <1>3, <1>4 DEF Coherent
<1> QED BY <1>6, <1>7, <1>8, <1>9 DEF Coherent

\* What a request may be answered with fits the call that waits for it.
LEMMA ServeCoherent ==
  ASSUME BucketTypeOK, Coherent, NEW r \in wire, Serve(r)
  PROVE  Coherent'
<1>1. r \in Request /\ r.from \in Clients /\ r.op \in Writes \cup {"READ"}
  BY DEF BucketTypeOK, Request
<1>2. wire' = wire \ {r} /\ UNCHANGED call
  BY DEF Serve
<1>3. \E a \in Answer : /\ reply' = ReplyTo(r, a)
                        /\ a.kind = "entry" => r.op = "READ"
                        /\ a.kind = "ok" => r.op # "READ"
  <2>1. CASE ServeRead(r)
    <3> DEFINE a == [kind |-> "entry", op |-> entry[r.key].op, rev |-> entry[r.key].rev]
    <3>1. entry[r.key] \in Entry
      BY DEF BucketTypeOK, Request
    <3>2. a \in Answer
      BY <3>1, EntryType DEF Answer
    <3>3. reply' = ReplyTo(r, a) /\ r.op = "READ" /\ a.kind = "entry"
      BY <2>1 DEF ServeRead
    <3> HIDE DEF a
    <3> QED BY <3>2, <3>3
  <2>2. CASE ServeWrite(r)
    <3> DEFINE a == [kind |-> "ok", rev |-> seq + 1]
    <3>1. seq + 1 \in Revision
      BY <2>2, MaxRevAssumption DEF ServeWrite, BucketTypeOK, Revision
    <3>2. a \in Answer
      BY <3>1 DEF Answer
    <3>3. reply' = ReplyTo(r, a) /\ r.op # "READ" /\ a.kind = "ok"
      BY <2>2 DEF ServeWrite, Writes
    <3> HIDE DEF a
    <3> QED BY <3>2, <3>3
  <2>3. CASE ServeRefusal(r)
    <3> DEFINE a == [kind |-> "conflict", rev |-> 0]
    <3>1. a \in Answer
      BY MaxRevAssumption DEF Answer, Revision
    <3>2. reply' = ReplyTo(r, a) /\ a.kind = "conflict"
      BY <2>3 DEF ServeRefusal
    <3> HIDE DEF a
    <3> QED BY <3>1, <3>2
  <2> QED BY <2>1, <2>2, <2>3 DEF Serve
<1>4. PICK a \in Answer : /\ reply' = ReplyTo(r, a)
                          /\ a.kind = "entry" => r.op = "READ"
                          /\ a.kind = "ok" => r.op # "READ"
  BY <1>3
<1>5. /\ r.waiting => reply'[r.from] = a
      /\ \A d \in Clients : (r.waiting => d # r.from) => reply'[d] = reply[d]
  <2>1. CASE r.waiting
    <3>1. reply' = [reply EXCEPT ![r.from] = a]
      BY <1>4, <2>1 DEF ReplyTo
    <3> QED BY <1>1, <2>1, <3>1 DEF BucketTypeOK
  <2>2. CASE ~r.waiting
    BY <1>4, <2>2 DEF ReplyTo
  <2> QED BY <2>1, <2>2
<1>6. r.waiting => Answers(call[r.from], a)
  <2> SUFFICES ASSUME r.waiting PROVE Answers(call[r.from], a)
    OBVIOUS
  <2>1. AsCalled(call[r.from], r) /\ CallShape(call[r.from])
    BY <1>1 DEF Coherent
  <2>2. call[r.from] \in Call
    BY <1>1, <2>1 DEF AsCalled, BucketTypeOK
  <2>3. call[r.from].step \in Steps /\ call[r.from].op \in Ops
    BY <2>2, CallType
  <2>4. call[r.from].op = "get" => r.op = "READ"
    BY <2>1, <2>3, FirstOpType DEF AsCalled, CallShape, Steps, Ops
  <2>5. r.op = "READ" => call[r.from].step = "look" \/ call[r.from].op = "get"
    BY <2>1, <2>3 DEF AsCalled, CallShape, Steps, FirstOp, Ops
  <2>6. call[r.from] # Idle /\ call[r.from].step # "list"
    BY <2>1 DEF AsCalled
  <2>7. call[r.from].step = "look" => r.op = "READ"
    BY <2>1 DEF AsCalled
  <2> QED BY <1>4, <2>4, <2>5, <2>6, <2>7 DEF Answers
<1>7. \A d \in Clients : reply'[d] # NoAnswer => Answers(call'[d], reply'[d])
  BY <1>2, <1>5, <1>6 DEF Coherent
<1>8. \A s \in wire' : s.waiting => reply'[s.from] = NoAnswer /\ AsCalled(call'[s.from], s)
  <2> SUFFICES ASSUME NEW s \in wire', s.waiting
               PROVE  reply'[s.from] = NoAnswer /\ AsCalled(call[s.from], s)
    BY <1>2
  <2>1. s \in wire /\ s # r /\ s.from \in Clients
    BY <1>2 DEF BucketTypeOK, Request
  <2>2. r.waiting => s.from # r.from
    BY <2>1 DEF Coherent
  <2> QED BY <1>5, <2>1, <2>2 DEF Coherent
<1>9. \A s, t \in wire' : s.waiting /\ t.waiting /\ s.from = t.from => s = t
  BY <1>2 DEF Coherent
<1> QED BY <1>2, <1>7, <1>8, <1>9 DEF Coherent

LEMMA ReturnCoherent ==
  ASSUME BucketTypeOK, Coherent, NEW c \in Clients, NEW w, w \subseteq Request,
         Without(c, w), NEW x, Return(c, w, x)
  PROVE  Coherent'
<1>1. /\ call'[c] = Idle /\ reply'[c] = NoAnswer /\ wire' = w
      /\ \A d \in Clients : d # c => call'[d] = call[d] /\ reply'[d] = reply[d]
  BY DEF Return, BucketTypeOK
<1>2. \A s \in w : s.waiting => s \in wire /\ s.from # c
  BY WithoutWaiting
<1>3. \A s \in wire : s.from \in Clients
  BY DEF BucketTypeOK, Request
<1> QED BY <1>1, <1>2, <1>3 DEF Coherent, CallShape

LEMMA ReactCoherent ==
  ASSUME BucketTypeOK, Coherent, NEW c \in Clients, NEW a \in Answer,
         Answers(call[c], a), NEW w, w \subseteq Request, Without(c, w),
         React(c, a, w)
  PROVE  Coherent'
<1>0. call[c] \in Call /\ CallShape(call[c])
  BY DEF BucketTypeOK, Coherent, Answers
<1>1. CASE /\ Refused(c, a)
           /\ Ask(c, w, [call[c] EXCEPT !.step = "look", !.err = a.kind], "READ", Revision)
  <2> DEFINE cl == [call[c] EXCEPT !.step = "look", !.err = a.kind]
  <2>1. a.kind \in {"conflict", "timeout"} /\ call[c].op = "create"
    BY <1>1, AnswerType DEF Refused, Answers
  <2>2. cl \in Call /\ cl.op = "create" /\ cl.step = "look" /\ cl.err # "none"
    BY <2>1, <1>0, LookType
  <2>3. Ask(c, w, cl, "READ", Revision)
    BY <1>1
  <2> HIDE DEF cl
  <2>4. CallShape(cl)
    BY <2>2 DEF CallShape
  <2> QED BY <2>2, <2>3, <2>4, AskCoherent
<1>2. CASE /\ Vacant(c, a)
           /\ Ask(c, w, [call[c] EXCEPT !.step = "retake"], "PUT", {a.rev})
  <2> DEFINE cl == [call[c] EXCEPT !.step = "retake"]
  <2>1. call[c].op = "create"
    BY <1>0, <1>2 DEF Vacant, CallShape, Answers
  <2>2. cl \in Call /\ cl.op = "create" /\ cl.step = "retake"
    BY <1>0, <2>1, StepType DEF Steps
  <2>3. Ask(c, w, cl, "PUT", {a.rev})
    BY <1>2
  <2> HIDE DEF cl
  <2>4. CallShape(cl)
    BY <2>2 DEF CallShape
  <2> QED BY <2>2, <2>3, <2>4, AskCoherent
<1>3. CASE /\ call[c].step = "purge" /\ a.kind = "ok"
           /\ call' = [call EXCEPT ![c].step = "list"]
           /\ reply' = [reply EXCEPT ![c] = NoAnswer]
           /\ wire' = w
  <2> DEFINE cl == [call[c] EXCEPT !.step = "list"]
  <2>1. cl \in Call /\ cl.op = call[c].op /\ cl.step = "list"
    BY <1>0, StepType DEF Steps
  <2>2. call' = [call EXCEPT ![c] = cl]
    BY <1>3
  <2> HIDE DEF cl
  <2>3. CallShape(cl)
    BY <1>0, <1>3, <2>1, CallType DEF CallShape
  <2>4. /\ call'[c] = cl /\ reply'[c] = NoAnswer /\ wire' = w
        /\ \A d \in Clients : d # c => call'[d] = call[d] /\ reply'[d] = reply[d]
    BY <1>3, <2>2 DEF BucketTypeOK
  <2>5. \A s \in w : s.waiting => s \in wire /\ s.from # c
    BY WithoutWaiting
  <2>6. \A s \in wire : s.from \in Clients
    BY DEF BucketTypeOK, Request
  <2> QED BY <2>3, <2>4, <2>5, <2>6 DEF Coherent
<1>4. CASE Return(c, w, Ended(c, a))
  BY <1>4, ReturnCoherent
<1> QED BY <1>1, <1>2, <1>3, <1>4 DEF React

LEMMA BeginCoherent ==
  ASSUME BucketTypeOK, Coherent, NEW c \in Clients, NEW o \in Ops, NEW k \in Keys,
         Begin(c, o, k)
  PROVE  Coherent'
<1> DEFINE cl == NewCall(c, o, k, "first")
<1>1. o # "clear" /\ call[c] = Idle
  BY DEF Begin, Begins
<1>2. cl \in Call /\ cl.op = o /\ cl.step = "first"
  BY NewCallType DEF Begin, Steps
<1>3. Ask(c, wire, cl, FirstOp(o), Expected(c, o)) /\ wire \subseteq Request
  BY DEF Begin, BucketTypeOK
<1> HIDE DEF cl
<1>4. CallShape(cl)
  BY <1>1, <1>2 DEF CallShape
<1>5. Without(c, wire)
  BY <1>1, NothingAwaited
<1> QED BY <1>2, <1>3, <1>4, <1>5, AskCoherent

LEMMA ClearCoherent ==
  ASSUME BucketTypeOK, Coherent, NEW c \in Clients,
         BeginClear(c) \/ Listed(c) \/ ListEnds(c) \/ PurgeNext(c) \/ EndClear(c)
  PROVE  Coherent'
<1>1. CASE BeginClear(c)
  <2>1. PICK k \in Keys : /\ Begins(c, k)
                          /\ call' = [call EXCEPT ![c] = NewCall(c, "clear", k, "list")]
    BY <1>1 DEF BeginClear
  <2> DEFINE cl == NewCall(c, "clear", k, "list")
  <2>2. cl.op = "clear" /\ cl.step = "list"
    BY DEF NewCall
  <2>3. reply[c] = NoAnswer /\ Without(c, wire)
    BY <2>1, NothingAwaited DEF Begins
  <2>4. UNCHANGED <<wire, reply>>
    BY <1>1 DEF BeginClear
  <2> HIDE DEF cl
  <2>5. /\ call'[c] = cl
        /\ \A d \in Clients : d # c => call'[d] = call[d]
    BY <2>1 DEF BucketTypeOK, cl
  <2>6. CallShape(cl)
    BY <2>2 DEF CallShape
  <2>7. \A s \in wire : s.waiting => s.from # c
    BY <2>3, WithoutWaiting
  <2>8. \A s \in wire : s.from \in Clients
    BY DEF BucketTypeOK, Request
  <2> QED BY <2>3, <2>4, <2>5, <2>6, <2>7, <2>8 DEF Coherent
<1>2. CASE Listed(c) \/ ListEnds(c)
  BY <1>2 DEF Listed, ListEnds, Coherent
<1>3. CASE PurgeNext(c)
  <2> DEFINE cl == [call[c] EXCEPT !.step = "purge", !.key = Head(list[c].queue)]
  <2>1. Head(list[c].queue) \in Keys /\ call[c] \in Call /\ CallShape(call[c])
        /\ call[c].step = "list"
    BY <1>3, ListType, HeadTailProperties DEF PurgeNext, BucketTypeOK, Coherent
  <2>2. cl \in Call /\ cl.op = call[c].op /\ cl.step = "purge"
    BY <2>1, PurgeType
  <2>3. Ask(c, wire, cl, "PURGE", Revision) /\ wire \subseteq Request
    BY <1>3 DEF PurgeNext, BucketTypeOK
  <2> HIDE DEF cl
  <2>4. CallShape(cl)
    BY <2>1, <2>2, CallType DEF CallShape
  <2>5. Without(c, wire)
    BY <2>1, NothingAwaited
  <2> QED BY <2>2, <2>3, <2>4, <2>5, AskCoherent
<1>4. CASE EndClear(c)
  <2>1. Return(c, wire, [kind |-> "ok", rev |-> 0]) /\ wire \subseteq Request
        /\ call[c].step = "list"
    BY <1>4 DEF EndClear, BucketTypeOK
  <2>2. Without(c, wire)
    BY <2>1, NothingAwaited
  <2> QED BY <2>1, <2>2, ReturnCoherent
<1> QED BY <1>1, <1>2, <1>3, <1>4

LEMMA NextCoherent == BucketTypeOK /\ Coherent /\ [BucketNext]_vars => Coherent'
<1> SUFFICES ASSUME BucketTypeOK, Coherent, [BucketNext]_vars PROVE Coherent'
  OBVIOUS
<1>1. ASSUME NEW r \in wire, Serve(r) PROVE Coherent'
  BY <1>1, ServeCoherent
<1>2. ASSUME NEW k \in Keys, Expire(k) PROVE Coherent'
  BY <1>2 DEF Expire, Coherent
<1>3. ASSUME NEW c \in Clients, NEW o \in Ops, NEW k \in Keys, Begin(c, o, k)
      PROVE  Coherent'
  BY <1>3, BeginCoherent
<1>4. ASSUME NEW c \in Clients, Receive(c) \/ TimesOut(c) PROVE Coherent'
  <2>1. PICK a \in Answer, w \in SUBSET Request :
          React(c, a, w) /\ Without(c, w) /\ Answers(call[c], a)
    BY <1>4, Continues
  <2> QED BY <2>1, ReactCoherent
<1>5. ASSUME NEW c \in Clients,
             BeginClear(c) \/ Listed(c) \/ ListEnds(c) \/ PurgeNext(c) \/ EndClear(c)
      PROVE  Coherent'
  BY <1>5, ClearCoherent
<1>6. CASE UNCHANGED vars
  BY <1>6 DEF vars, Coherent
<1> QED BY <1>1, <1>2, <1>3, <1>4, <1>5, <1>6 DEF BucketNext, ClientStep

\* Every variable keeps its type, and an answer is only ever on its way to a
\* client whose call in its present step asked for it.
THEOREM BucketTypeCorrect == BucketSpec => [](BucketTypeOK /\ Coherent)
<1>1. BucketTypeOK /\ Coherent /\ [BucketNext]_vars => (BucketTypeOK /\ Coherent)'
  BY NextType, NextCoherent
<1> QED BY <1>1, InitTypes, PTL DEF BucketSpec

-----------------------------------------------------------------------------
(* What is known of revisions *)

\* Revision n of a key is the one of a value, or of a deletion or of no message.
\* e is the key's entry and s the last revision; what was handed out once keeps
\* its meaning, whatever has replaced it.
Value(e, s, n)  == n \in 1 .. s /\ (e.rev = n => Live(e))
Vacancy(e, s, n) == n \in 0 .. s /\ (e.rev = n => ~Live(e))

\* A conditional write names a revision of which its operation knows enough.
RequestOK(r, e, s) ==
  /\ r.how = "get" => r.op = "READ"
  /\ r.how \in {"put", "create", "update"} => r.op \in {"PUT", "READ"}
  /\ r.how = "create" /\ r.op # "READ" => \A n \in r.expect : Vacancy(e, s, n)
  /\ r.how = "update" => r.expect = {r.seen} /\ Value(e, s, r.seen)

\* An answer tells the truth about a revision of the key.
AnswerOK(cl, a, e, s) ==
  /\ a.kind = "ok" /\ cl.op \in {"put", "create", "update"} => Value(e, s, a.rev)
  /\ a.kind = "entry" => IF a.op = "PUT" THEN Value(e, s, a.rev)
                         ELSE Vacancy(e, s, a.rev)

\* A client that may update holds the revision of a value.
ResultOK(x, e, s) ==
  x.op \in {"get", "put", "create", "update"} /\ x.kind = "ok" => Value(e, s, x.rev)

Warranted ==
  /\ \A k \in Keys : entry[k].rev <= seq
  /\ \A r \in wire : RequestOK(r, entry[r.key], seq)
  /\ \A c \in Clients : reply[c] # NoAnswer =>
        AnswerOK(call[c], reply[c], entry[call[c].key], seq)
  /\ \A c \in Clients : ResultOK(result[c], entry[result[c].key], seq)

\* What a step may do to the entry of a key.
LEMMA ServerActs ==
  ASSUME [BucketNext]_vars
  PROVE  \/ UNCHANGED serverVars
         \/ \E k \in Keys : Expire(k)
         \/ \E r \in wire : ServeWrite(r)
<1>1. ASSUME NEW c \in Clients, Receive(c) \/ TimesOut(c) PROVE UNCHANGED serverVars
  BY <1>1 DEF Receive, TimesOut
<1> QED BY <1>1 DEF BucketNext, ClientStep, Serve, ServeRead, ServeRefusal, Begin,
             BeginClear, Listed, ListEnds, PurgeNext, EndClear, vars

LEMMA ServerSteps ==
  ASSUME BucketTypeOK, [BucketNext]_vars
  PROVE  /\ seq \in Nat /\ seq' \in Nat /\ seq <= seq'
         /\ \A k \in Keys :
               \/ entry'[k] = entry[k]
               \/ entry'[k] = Nothing
               \/ entry'[k].rev = seq + 1 /\ seq' = seq + 1
<1>1. seq \in Nat
  BY MaxRevAssumption DEF BucketTypeOK, Revision
<1>2. CASE UNCHANGED serverVars
  BY <1>1, <1>2 DEF serverVars
<1>3. ASSUME NEW k \in Keys, Expire(k)
      PROVE  UNCHANGED seq /\ \A j \in Keys : entry'[j] \in {entry[j], Nothing}
  BY <1>3 DEF Expire, BucketTypeOK
<1>4. ASSUME NEW r \in wire, ServeWrite(r)
      PROVE  /\ seq' = seq + 1
             /\ \A j \in Keys : entry'[j] = entry[j] \/ entry'[j].rev = seq + 1
  BY <1>4 DEF ServeWrite, BucketTypeOK
<1> QED BY <1>1, <1>2, <1>3, <1>4, ServerActs

LEMMA RevisionsStay ==
  ASSUME BucketTypeOK, [BucketNext]_vars, NEW k \in Keys, NEW n
  PROVE  /\ Value(entry[k], seq, n) => Value(entry'[k], seq', n)
         /\ Vacancy(entry[k], seq, n) => Vacancy(entry'[k], seq', n)
<1>1. Nothing.rev = 0 /\ ~Live(Nothing)
  BY DEF Nothing, Live
<1> QED BY <1>1, ServerSteps DEF Value, Vacancy

LEMMA WarrantsStay ==
  ASSUME BucketTypeOK, [BucketNext]_vars
  PROVE  /\ \A r \in Request : RequestOK(r, entry[r.key], seq)
                               => RequestOK(r, entry'[r.key], seq')
         /\ \A cl \in Call, a \in Answer : AnswerOK(cl, a, entry[cl.key], seq)
                                          => AnswerOK(cl, a, entry'[cl.key], seq')
         /\ \A x \in Outcome : ResultOK(x, entry[x.key], seq)
                               => ResultOK(x, entry'[x.key], seq')
<1>1. ASSUME NEW r \in Request, RequestOK(r, entry[r.key], seq)
      PROVE  RequestOK(r, entry'[r.key], seq')
  <2>1. r.key \in Keys
    BY DEF Request
  <2> QED BY <1>1, <2>1, RevisionsStay DEF RequestOK
<1>2. ASSUME NEW cl \in Call, NEW a \in Answer, AnswerOK(cl, a, entry[cl.key], seq)
      PROVE  AnswerOK(cl, a, entry'[cl.key], seq')
  <2>1. cl.key \in Keys
    BY DEF Call
  <2> QED BY <1>2, <2>1, RevisionsStay DEF AnswerOK
<1>3. ASSUME NEW x \in Outcome, ResultOK(x, entry[x.key], seq)
      PROVE  ResultOK(x, entry'[x.key], seq')
  <2>1. x.key \in Keys
    BY DEF Outcome
  <2> QED BY <1>3, <2>1, RevisionsStay DEF ResultOK
<1> QED BY <1>1, <1>2, <1>3

LEMMA InitWarranted == Init => Warranted
BY DEF Init, Warranted, Nothing, NoOutcome, ResultOK

LEMMA GivenUpOK ==
  ASSUME BucketTypeOK, NEW c, NEW w, Without(c, w), Warranted
  PROVE  \A r \in w : RequestOK(r, entry[r.key], seq)
<1> SUFFICES ASSUME NEW r \in w PROVE RequestOK(r, entry[r.key], seq)
  OBVIOUS
<1>1. CASE r \in wire
  BY <1>1 DEF Warranted
<1>2. ASSUME NEW s \in wire, r = [s EXCEPT !.waiting = FALSE]
      PROVE  RequestOK(r, entry[r.key], seq)
  <2>1. s \in Request /\ RequestOK(s, entry[s.key], seq)
    BY DEF Warranted, BucketTypeOK
  <2>2. /\ r.how = s.how /\ r.seen = s.seen /\ r.key = s.key
        /\ r.op = s.op /\ r.expect = s.expect
    BY <1>2, <2>1, GivenUpType
  <2> QED BY <2>1, <2>2 DEF RequestOK
<1> QED BY <1>1, <1>2 DEF Without

\* A request that is warranted when it is made keeps everything warranted.
LEMMA AskWarranted ==
  ASSUME BucketTypeOK, Warranted, NEW c \in Clients, NEW w, Without(c, w),
         NEW cl \in Call, NEW o, NEW x, Ask(c, w, cl, o, x), UNCHANGED serverVars,
         RequestOK([from |-> c, waiting |-> TRUE, how |-> cl.op, seen |-> cl.seen,
                    key |-> cl.key, op |-> o, expect |-> x], entry[cl.key], seq),
         \A d \in Clients : result'[d] \in {result[d], NoOutcome}
  PROVE  Warranted'
<1> DEFINE r == [from |-> c, waiting |-> TRUE, how |-> cl.op, seen |-> cl.seen,
                 key |-> cl.key, op |-> o, expect |-> x]
<1>1. wire' = w \cup {r}
  BY DEF Ask
<1>2. RequestOK(r, entry[r.key], seq)
  OBVIOUS
<1>3. /\ reply'[c] = NoAnswer
      /\ \A d \in Clients : d # c => call'[d] = call[d] /\ reply'[d] = reply[d]
  BY DEF Ask, BucketTypeOK
<1> HIDE DEF r
<1>4. \A s \in wire' : RequestOK(s, entry'[s.key], seq')
  BY <1>1, <1>2, GivenUpOK DEF serverVars
<1>5. \A d \in Clients : reply'[d] # NoAnswer =>
         AnswerOK(call'[d], reply'[d], entry'[call'[d].key], seq')
  BY <1>3 DEF Warranted, serverVars
<1>6. \A d \in Clients : ResultOK(result'[d], entry'[result'[d].key], seq')
  BY DEF Warranted, serverVars, ResultOK, NoOutcome
<1>7. \A k \in Keys : entry'[k].rev <= seq'
  BY DEF Warranted, serverVars
<1> QED BY <1>4, <1>5, <1>6, <1>7 DEF Warranted

LEMMA ReturnWarranted ==
  ASSUME BucketTypeOK, Warranted, NEW c \in Clients, NEW w, Without(c, w), NEW x,
         Return(c, w, x), UNCHANGED serverVars,
         x.kind = "ok" /\ call[c].op \in {"get", "put", "create", "update"}
           => Value(entry[call[c].key], seq, x.rev)
  PROVE  Warranted'
<1> DEFINE out == [op |-> call[c].op, key |-> call[c].key, kind |-> x.kind, rev |-> x.rev]
<1>1. ResultOK(out, entry[out.key], seq)
  BY DEF ResultOK
<1>2. result'[c] = out /\ \A d \in Clients : d # c => result'[d] = result[d]
  BY DEF Return, BucketTypeOK
<1> HIDE DEF out
<1>3. /\ reply'[c] = NoAnswer /\ wire' = w
      /\ \A d \in Clients : d # c => call'[d] = call[d] /\ reply'[d] = reply[d]
  BY DEF Return, BucketTypeOK
<1>4. \A s \in wire' : RequestOK(s, entry'[s.key], seq')
  BY <1>3, GivenUpOK DEF serverVars
<1>5. \A d \in Clients : reply'[d] # NoAnswer =>
         AnswerOK(call'[d], reply'[d], entry'[call'[d].key], seq')
  BY <1>3 DEF Warranted, serverVars
<1>6. \A d \in Clients : ResultOK(result'[d], entry'[result'[d].key], seq')
  BY <1>1, <1>2 DEF Warranted, serverVars
<1>7. \A k \in Keys : entry'[k].rev <= seq'
  BY DEF Warranted, serverVars
<1> QED BY <1>4, <1>5, <1>6, <1>7 DEF Warranted

\* The server tells the truth.
LEMMA ServeWarranted ==
  ASSUME BucketTypeOK, Coherent, Warranted, NEW r \in wire, Serve(r)
  PROVE  Warranted'
<1>1. /\ r \in Request /\ r.from \in Clients /\ r.key \in Keys
      /\ entry[r.key] \in Entry /\ wire \subseteq Request
  BY DEF BucketTypeOK, Request
<1>2. wire' = wire \ {r} /\ UNCHANGED <<call, result>> /\ [BucketNext]_vars
  BY DEF Serve, BucketNext
<1>3. /\ seq \in Nat /\ seq' \in Nat /\ seq <= seq'
      /\ \A k \in Keys : \/ entry'[k] = entry[k]
                         \/ entry'[k] = Nothing
                         \/ entry'[k].rev = seq + 1 /\ seq' = seq + 1
  BY <1>2, ServerSteps
<1>4. \A s \in wire' : RequestOK(s, entry'[s.key], seq')
  BY <1>1, <1>2, WarrantsStay DEF Warranted
<1>5. \A d \in Clients : ResultOK(result'[d], entry'[result'[d].key], seq')
  <2> SUFFICES ASSUME NEW d \in Clients
               PROVE  ResultOK(result[d], entry'[result[d].key], seq')
    BY <1>2
  <2>1. CASE result[d] = NoOutcome
    BY <2>1 DEF ResultOK, NoOutcome
  <2>2. CASE result[d] \in Outcome
    BY <1>2, <2>2, WarrantsStay DEF Warranted
  <2> QED BY <2>1, <2>2 DEF BucketTypeOK
<1>6. \A d \in Clients : reply[d] # NoAnswer =>
         AnswerOK(call[d], reply[d], entry'[call[d].key], seq')
  <2> SUFFICES ASSUME NEW d \in Clients, reply[d] # NoAnswer
               PROVE  AnswerOK(call[d], reply[d], entry'[call[d].key], seq')
    OBVIOUS
  <2>1. reply[d] \in Answer /\ call[d] \in Call
    BY DEF BucketTypeOK, Coherent, Answers
  <2> QED BY <1>2, <2>1, WarrantsStay DEF Warranted
<1>7. ASSUME r.waiting
      PROVE  /\ call[r.from] \in Call /\ call[r.from].key = r.key
             /\ call[r.from].op = r.how
  BY <1>1, <1>7 DEF Coherent, AsCalled, BucketTypeOK
<1>8. ASSUME NEW a, reply' = ReplyTo(r, a),
             r.waiting => AnswerOK(call[r.from], a, entry'[r.key], seq')
      PROVE  \A d \in Clients : reply'[d] # NoAnswer =>
               AnswerOK(call[d], reply'[d], entry'[call[d].key], seq')
  <2>1. CASE r.waiting
    <3>1. reply'[r.from] = a /\ \A d \in Clients : d # r.from => reply'[d] = reply[d]
      BY <1>1, <1>8, <2>1 DEF ReplyTo, BucketTypeOK
    <3> QED BY <1>6, <1>7, <1>8, <2>1, <3>1
  <2>2. CASE ~r.waiting
    BY <1>6, <1>8, <2>2 DEF ReplyTo
  <2> QED BY <2>1, <2>2
<1>9. \A d \in Clients : reply'[d] # NoAnswer =>
        AnswerOK(call[d], reply'[d], entry'[call[d].key], seq')
  <2>1. CASE ServeRead(r)
    <3> DEFINE a == [kind |-> "entry", op |-> entry[r.key].op, rev |-> entry[r.key].rev]
    <3>1. entry[r.key].rev \in 0 .. seq
      BY <1>1, <1>3, EntryType DEF Warranted, Revision
    <3>2. Live(entry[r.key]) => entry[r.key].rev # 0
      BY <1>1, EntryType
    <3>3. AnswerOK(call[r.from], a, entry[r.key], seq)
      BY <1>3, <3>1, <3>2 DEF AnswerOK, Value, Vacancy, Live
    <3>4. reply' = ReplyTo(r, a) /\ UNCHANGED serverVars
      BY <2>1 DEF ServeRead
    <3> HIDE DEF a
    <3> QED BY <1>8, <3>3, <3>4 DEF serverVars
  <2>2. CASE ServeWrite(r)
    <3> DEFINE a == [kind |-> "ok", rev |-> seq + 1]
    <3>1. /\ reply' = ReplyTo(r, a) /\ seq' = seq + 1 /\ r.op \in Writes
          /\ entry'[r.key] = [op |-> r.op, rev |-> seq + 1, by |-> r.from]
      BY <1>1, <2>2 DEF ServeWrite, BucketTypeOK
    <3>2. r.how \in {"put", "create", "update"} => Value(entry'[r.key], seq', a.rev)
      <4>1. r.how \in {"put", "create", "update"} => r.op = "PUT"
        BY <3>1 DEF Warranted, RequestOK, Writes
      <4> QED BY <1>3, <3>1, <4>1 DEF Value, Live
    <3>3. r.waiting => AnswerOK(call[r.from], a, entry'[r.key], seq')
      BY <1>7, <3>2 DEF AnswerOK
    <3> HIDE DEF a
    <3> QED BY <1>8, <3>1, <3>3
  <2>3. CASE ServeRefusal(r)
    <3> DEFINE a == [kind |-> "conflict", rev |-> 0]
    <3>1. AnswerOK(call[r.from], a, entry'[r.key], seq')
      BY DEF AnswerOK
    <3>2. reply' = ReplyTo(r, a)
      BY <2>3 DEF ServeRefusal
    <3> HIDE DEF a
    <3> QED BY <1>8, <3>1, <3>2
  <2> QED BY <2>1, <2>2, <2>3 DEF Serve
<1>10. \A k \in Keys : entry'[k].rev <= seq'
  <2>1. Nothing.rev = 0
    BY DEF Nothing
  <2>2. \A k \in Keys : entry[k].rev \in Nat
    BY EntryType DEF BucketTypeOK, Revision
  <2> QED BY <1>3, <2>1, <2>2 DEF Warranted
<1> QED BY <1>2, <1>4, <1>5, <1>9, <1>10 DEF Warranted

LEMMA ReactWarranted ==
  ASSUME BucketTypeOK, Coherent, Warranted, NEW c \in Clients, NEW a \in Answer,
         Answers(call[c], a), AnswerOK(call[c], a, entry[call[c].key], seq),
         NEW w, Without(c, w), React(c, a, w), UNCHANGED serverVars
  PROVE  Warranted'
<1>0. call[c] \in Call /\ CallShape(call[c])
  BY DEF BucketTypeOK, Coherent, Answers
<1>1. CASE /\ Refused(c, a)
           /\ Ask(c, w, [call[c] EXCEPT !.step = "look", !.err = a.kind], "READ", Revision)
           /\ UNCHANGED <<list, result, histVars>>
  <2> DEFINE cl == [call[c] EXCEPT !.step = "look", !.err = a.kind]
             r == [from |-> c, waiting |-> TRUE, how |-> cl.op, seen |-> cl.seen,
                   key |-> cl.key, op |-> "READ", expect |-> Revision]
  <2>1. a.kind \in {"conflict", "timeout"} /\ call[c].op = "create"
    BY <1>1, AnswerType DEF Refused, Answers
  <2>2. cl \in Call /\ cl.op = "create"
    BY <2>1, <1>0, LookType
  <2>3. Ask(c, w, cl, "READ", Revision)
    BY <1>1
  <2> HIDE DEF cl
  <2>4. RequestOK(r, entry[cl.key], seq)
    BY <2>2 DEF RequestOK
  <2>5. \A d \in Clients : result'[d] \in {result[d], NoOutcome}
    BY <1>1
  <2> QED BY <2>2, <2>3, <2>4, <2>5, AskWarranted
<1>2. CASE /\ Vacant(c, a)
           /\ Ask(c, w, [call[c] EXCEPT !.step = "retake"], "PUT", {a.rev})
           /\ UNCHANGED <<list, result, histVars>>
  <2> DEFINE cl == [call[c] EXCEPT !.step = "retake"]
             r == [from |-> c, waiting |-> TRUE, how |-> cl.op, seen |-> cl.seen,
                   key |-> cl.key, op |-> "PUT", expect |-> {a.rev}]
  <2>1. call[c].op = "create"
    BY <1>0, <1>2 DEF Vacant, CallShape, Answers
  <2>2. cl \in Call /\ cl.op = "create" /\ cl.key = call[c].key
    BY <1>0, <2>1, StepType DEF Steps
  <2>3. Ask(c, w, cl, "PUT", {a.rev})
    BY <1>2
  <2> HIDE DEF cl
  <2>4. Vacancy(entry[cl.key], seq, a.rev)
    BY <1>2, <2>2 DEF AnswerOK, Vacant
  <2>5. RequestOK(r, entry[cl.key], seq)
    BY <2>2, <2>4 DEF RequestOK
  <2>6. \A d \in Clients : result'[d] \in {result[d], NoOutcome}
    BY <1>2
  <2> QED BY <2>2, <2>3, <2>5, <2>6, AskWarranted
<1>3. CASE /\ call[c].step = "purge" /\ a.kind = "ok"
           /\ call' = [call EXCEPT ![c].step = "list"]
           /\ reply' = [reply EXCEPT ![c] = NoAnswer]
           /\ wire' = w
           /\ UNCHANGED <<list, result, histVars>>
  <2>1. /\ reply'[c] = NoAnswer
        /\ \A d \in Clients : d # c => call'[d] = call[d] /\ reply'[d] = reply[d]
    BY <1>3 DEF BucketTypeOK
  <2> QED BY <1>3, <2>1, GivenUpOK DEF Warranted, serverVars
<1>4. CASE Return(c, w, Ended(c, a))
  <2>1. Ended(c, a).kind = "ok" /\ call[c].op \in {"get", "put", "create", "update"}
          => Value(entry[call[c].key], seq, Ended(c, a).rev)
    <3>1. CASE a.kind = "ok"
      BY <3>1 DEF Ended, Answers, AnswerOK
    <3>2. CASE a.kind = "entry"
      BY <1>0, <3>2 DEF Ended, Answers, AnswerOK, CallShape, BucketTypeOK, Call
    <3>3. CASE a.kind \in {"conflict", "timeout"}
      BY <3>3 DEF Ended
    <3> QED BY <3>1, <3>2, <3>3, AnswerType
  <2> QED BY <1>4, <2>1, ReturnWarranted
<1> QED BY <1>1, <1>2, <1>3, <1>4 DEF React

LEMMA BeginWarranted ==
  ASSUME BucketTypeOK, Coherent, Warranted, NEW c \in Clients, NEW o \in Ops,
         NEW k \in Keys, Begin(c, o, k)
  PROVE  Warranted'
<1> DEFINE cl == NewCall(c, o, k, "first")
           r == [from |-> c, waiting |-> TRUE, how |-> cl.op, seen |-> cl.seen,
                 key |-> cl.key, op |-> FirstOp(o), expect |-> Expected(c, o)]
<1>1. o \in Ops \ {"clear"} /\ call[c] = Idle /\ (o = "update" => Knows(c, k))
      /\ UNCHANGED serverVars
  BY DEF Begin, Begins
<1>2. /\ cl \in Call /\ cl.op = o /\ cl.key = k
      /\ cl.seen = IF o = "update" THEN result[c].rev ELSE 0
  BY <1>1, NewCallType DEF Steps
<1>3. Ask(c, wire, cl, FirstOp(o), Expected(c, o))
  BY DEF Begin
<1> HIDE DEF cl
<1>4. o = "create" => Expected(c, o) = {0} /\ Vacancy(entry[k], seq, 0)
  <2>1. entry[k] \in Entry /\ seq \in Nat
    BY MaxRevAssumption DEF BucketTypeOK, Revision
  <2> QED BY <2>1, EntryType DEF Expected, Vacancy
<1>5. o = "update" => /\ Expected(c, o) = {result[c].rev}
                      /\ Value(entry[k], seq, result[c].rev)
  BY <1>1 DEF Expected, Knows, Warranted, ResultOK
<1>6. RequestOK(r, entry[cl.key], seq)
  BY <1>1, <1>2, <1>4, <1>5, FirstOpType DEF RequestOK
<1>7. Without(c, wire)
  BY <1>1, NothingAwaited
<1>8. \A d \in Clients : result'[d] \in {result[d], NoOutcome}
  BY DEF Begin, Begins, BucketTypeOK
<1> QED BY <1>1, <1>2, <1>3, <1>6, <1>7, <1>8, AskWarranted

LEMMA ClearWarranted ==
  ASSUME BucketTypeOK, Coherent, Warranted, NEW c \in Clients,
         BeginClear(c) \/ Listed(c) \/ ListEnds(c) \/ PurgeNext(c) \/ EndClear(c)
  PROVE  Warranted'
<1>1. CASE BeginClear(c)
  <2>1. call[c] = Idle /\ \A d \in Clients : result'[d] \in {result[d], NoOutcome}
    BY <1>1 DEF BeginClear, Begins, BucketTypeOK
  <2>2. reply[c] = NoAnswer
    BY <2>1, NothingAwaited
  <2>3. \A d \in Clients : d # c => call'[d] = call[d]
    BY <1>1 DEF BeginClear, BucketTypeOK
  <2>4. \A d \in Clients : ResultOK(result'[d], entry[result'[d].key], seq)
    BY <2>1 DEF Warranted, ResultOK, NoOutcome
  <2> QED BY <1>1, <2>2, <2>3, <2>4 DEF BeginClear, Warranted, serverVars
<1>2. CASE Listed(c) \/ ListEnds(c)
  BY <1>2 DEF Listed, ListEnds, Warranted, serverVars
<1>3. CASE PurgeNext(c)
  <2> DEFINE cl == [call[c] EXCEPT !.step = "purge", !.key = Head(list[c].queue)]
             r == [from |-> c, waiting |-> TRUE, how |-> cl.op, seen |-> cl.seen,
                   key |-> cl.key, op |-> "PURGE", expect |-> Revision]
  <2>1. Head(list[c].queue) \in Keys /\ call[c] \in Call /\ CallShape(call[c])
        /\ call[c].step = "list"
    BY <1>3, ListType, HeadTailProperties DEF PurgeNext, BucketTypeOK, Coherent
  <2>2. cl \in Call /\ cl.op = "clear"
    BY <2>1, PurgeType, CallType DEF CallShape
  <2>3. Ask(c, wire, cl, "PURGE", Revision) /\ UNCHANGED <<serverVars, result>>
    BY <1>3 DEF PurgeNext
  <2> HIDE DEF cl
  <2>4. RequestOK(r, entry[cl.key], seq)
    BY <2>2 DEF RequestOK
  <2>5. Without(c, wire)
    BY <2>1, NothingAwaited
  <2> QED BY <2>2, <2>3, <2>4, <2>5, AskWarranted
<1>4. CASE EndClear(c)
  <2>1. /\ Return(c, wire, [kind |-> "ok", rev |-> 0]) /\ UNCHANGED serverVars
        /\ call[c] # Idle /\ call[c].step = "list"
    BY <1>4 DEF EndClear
  <2>2. Without(c, wire) /\ call[c].op = "clear"
    BY <2>1, NothingAwaited DEF Coherent, CallShape
  <2> QED BY <2>1, <2>2, ReturnWarranted
<1> QED BY <1>1, <1>2, <1>3, <1>4

LEMMA NextWarranted ==
  BucketTypeOK /\ Coherent /\ Warranted /\ [BucketNext]_vars => Warranted'
<1> SUFFICES ASSUME BucketTypeOK, Coherent, Warranted, [BucketNext]_vars
             PROVE  Warranted'
  OBVIOUS
<1>1. ASSUME NEW r \in wire, Serve(r) PROVE Warranted'
  BY <1>1, ServeWarranted
<1>2. ASSUME NEW k \in Keys, Expire(k) PROVE Warranted'
  <2>1. UNCHANGED <<wire, reply, call, result>>
    BY <1>2 DEF Expire
  <2>2. \A r \in wire : RequestOK(r, entry'[r.key], seq')
    BY WarrantsStay DEF Warranted, BucketTypeOK
  <2>3. \A d \in Clients : reply[d] # NoAnswer =>
           AnswerOK(call[d], reply[d], entry'[call[d].key], seq')
    <3>1. \A d \in Clients : reply[d] # NoAnswer => reply[d] \in Answer /\ call[d] \in Call
      BY DEF BucketTypeOK, Coherent, Answers
    <3> QED BY <3>1, WarrantsStay DEF Warranted
  <2>4. \A d \in Clients : ResultOK(result[d], entry'[result[d].key], seq')
    <3>1. \A d \in Clients : result[d] \in Outcome \/ result[d] = NoOutcome
      BY DEF BucketTypeOK
    <3>2. \A d \in Clients : result[d] = NoOutcome
                            => ResultOK(result[d], entry'[result[d].key], seq')
      BY DEF ResultOK, NoOutcome
    <3> QED BY <3>1, <3>2, WarrantsStay DEF Warranted
  <2>5. \A j \in Keys : entry'[j].rev <= seq'
    <3>1. Nothing.rev = 0 /\ \A j \in Keys : entry'[j] \in {entry[j], Nothing}
      BY <1>2 DEF Nothing, Expire, BucketTypeOK
    <3>2. seq \in Nat /\ seq' = seq
      BY <1>2, ServerSteps DEF Expire
    <3> QED BY <3>1, <3>2 DEF Warranted
  <2> QED BY <2>1, <2>2, <2>3, <2>4, <2>5 DEF Warranted
<1>3. ASSUME NEW c \in Clients, NEW o \in Ops, NEW k \in Keys, Begin(c, o, k)
      PROVE  Warranted'
  BY <1>3, BeginWarranted
<1>4. ASSUME NEW c \in Clients, Receive(c) \/ TimesOut(c) PROVE Warranted'
  <2>1. PICK a \in Answer, w \in SUBSET Request :
          /\ React(c, a, w) /\ Without(c, w) /\ Answers(call[c], a)
          /\ (a = reply[c] /\ a # NoAnswer) \/ a = TimedOut
          /\ UNCHANGED serverVars
    BY <1>4, Continues
  <2>2. AnswerOK(call[c], a, entry[call[c].key], seq)
    BY <2>1 DEF Warranted, AnswerOK, TimedOut
  <2> QED BY <2>1, <2>2, ReactWarranted
<1>5. ASSUME NEW c \in Clients,
             BeginClear(c) \/ Listed(c) \/ ListEnds(c) \/ PurgeNext(c) \/ EndClear(c)
      PROVE  Warranted'
  BY <1>5, ClearWarranted
<1>6. CASE UNCHANGED vars
  BY <1>6 DEF vars, serverVars, Warranted
<1> QED BY <1>1, <1>2, <1>3, <1>4, <1>5, <1>6 DEF BucketNext, ClientStep

\* The request that is served is the one that takes effect.
LEMMA AppliedServed ==
  ASSUME BucketTypeOK, [BucketNext]_vars, NEW k \in Keys, NEW o, NEW r \in Applied(k, o)
  PROVE  /\ r \in wire /\ r.key = k /\ r.how = o
         /\ r.op # "READ" /\ entry[k].rev \in r.expect
<1>1. r \in wire /\ r \notin wire' /\ r.key = k /\ r.how = o
      /\ entry'[k] # entry[k] /\ entry'[k] # Nothing
  BY DEF Applied
<1>2. ASSUME NEW s \in wire, Serve(s)
      PROVE  r.op # "READ" /\ entry[k].rev \in r.expect
  <2>1. r = s
    BY <1>1, <1>2 DEF Serve
  <2>2. ~ServeRead(s) /\ ~ServeRefusal(s)
    BY <1>1 DEF ServeRead, ServeRefusal, serverVars
  <2> QED BY <1>1, <1>2, <2>1, <2>2 DEF Serve, ServeWrite, Writes
<1>3. (\E s \in wire : Serve(s)) \/ (\E j \in Keys : Expire(j)) \/ UNCHANGED serverVars
  <2>1. ASSUME NEW c \in Clients, Receive(c) \/ TimesOut(c) PROVE UNCHANGED serverVars
    BY <2>1 DEF Receive, TimesOut
  <2> QED BY <2>1 DEF BucketNext, ClientStep, Begin, BeginClear, Listed, ListEnds,
                      PurgeNext, EndClear, vars
<1>4. ASSUME NEW j \in Keys, Expire(j) PROVE FALSE
  BY <1>1, <1>4 DEF Expire
<1>5. ~UNCHANGED serverVars
  BY <1>1 DEF serverVars
<1> QED BY <1>1, <1>2, <1>3, <1>4, <1>5

BucketInv == BucketTypeOK /\ Coherent /\ Warranted

\* What is known of revisions stays true: every request, answer and result names
\* a revision of which it knows whether it is the one of a value.
THEOREM BucketInvariance == BucketSpec => []BucketInv
<1>1. Init => BucketInv
  BY InitTypes, InitWarranted DEF BucketInv
<1>2. BucketInv /\ [BucketNext]_vars => BucketInv'
  BY NextType, NextCoherent, NextWarranted DEF BucketInv
<1> QED BY <1>1, <1>2, PTL DEF BucketSpec

\* create never replaces a value, whatever happens between its requests and
\* however late they are served (makeBucket.create).
THEOREM CreateIsSafe == BucketSpec => CreateNeverOverwrites
<1>1. ASSUME BucketInv, [BucketNext]_vars, NEW k \in Keys, Applied(k, "create") # {}
      PROVE  ~Live(entry[k])
  <2>1. PICK r \in Applied(k, "create") : TRUE
    BY <1>1
  <2>2. r \in wire /\ r.key = k /\ r.how = "create" /\ r.op # "READ"
        /\ entry[k].rev \in r.expect
    BY <1>1, AppliedServed DEF BucketInv
  <2> QED BY <1>1, <2>2 DEF BucketInv, Warranted, RequestOK, Vacancy
<1>2. BucketInv /\ [BucketNext]_vars =>
        [\A k \in Keys : Applied(k, "create") # {} => ~Live(entry[k])]_vars
  BY <1>1
<1> QED BY <1>2, BucketInvariance, PTL DEF BucketSpec, CreateNeverOverwrites

\* An update replaces the very value its caller has read or written
\* (makeBucket.update).
THEOREM UpdateIsSafe == BucketSpec => UpdatesOnTop
<1>1. ASSUME BucketInv, [BucketNext]_vars, NEW k \in Keys, NEW r \in Applied(k, "update")
      PROVE  entry[k].rev = r.seen /\ Live(entry[k])
  <2>1. r \in wire /\ r.key = k /\ r.how = "update" /\ entry[k].rev \in r.expect
    BY <1>1, AppliedServed DEF BucketInv
  <2> QED BY <1>1, <2>1 DEF BucketInv, Warranted, RequestOK, Value
<1>2. BucketInv /\ [BucketNext]_vars =>
        [\A k \in Keys : \A r \in Applied(k, "update") :
            entry[k].rev = r.seen /\ Live(entry[k])]_vars
  BY <1>1
<1> QED BY <1>2, BucketInvariance, PTL DEF BucketSpec, UpdatesOnTop

-----------------------------------------------------------------------------
(* What a call has seen *)

\* An answer shows the entry the key had at some moment of the call, and the
\* answer to a write shows the entry which that write has made.
ShownIn(cl, a, c, D) ==
  /\ a.kind = "ok" /\ cl.op # "clear" =>
       \E e \in D : e # Nothing /\ e.rev = a.rev /\ e.by = c
  /\ a.kind = "entry" => \E e \in D : e.rev = a.rev /\ (Live(e) <=> a.op = "PUT")

Remembered ==
  /\ \A c \in Clients : call[c] # Idle /\ call[c].op # "clear"
                         => entry[call[c].key] \in during[c]
  /\ \A c \in Clients : reply[c] # NoAnswer
                         => ShownIn(call[c], reply[c], c, during[c])

LEMMA InitRemembered == Init => Remembered
BY DEF Init, Remembered

\* A step of a client concerns its own call only.
LEMMA OwnStep ==
  ASSUME Remembered, NEW c \in Clients, UNCHANGED entry,
         \A d \in Clients : d # c => /\ call'[d] = call[d] /\ reply'[d] = reply[d]
                                     /\ during'[d] = during[d],
         reply'[c] = NoAnswer,
         call'[c] # Idle /\ call'[c].op # "clear" => entry[call'[c].key] \in during'[c]
  PROVE  Remembered'
BY DEF Remembered

LEMMA WitnessedGrows ==
  ASSUME BucketTypeOK, NEW k \in Keys, NEW e, Witnessed(k, e)
  PROVE  \A c \in Clients : /\ during[c] \subseteq during'[c]
                            /\ call[c] # Idle /\ call[c].key = k => e \in during'[c]
BY DEF Witnessed, BucketTypeOK

LEMMA ServeRemembered ==
  ASSUME BucketTypeOK, Coherent, Remembered, NEW r \in wire, Serve(r)
  PROVE  Remembered'
<1>1. r \in Request /\ r.from \in Clients /\ r.key \in Keys /\ UNCHANGED call
  BY DEF BucketTypeOK, Request, Serve
<1>2. ASSUME r.waiting
      PROVE  /\ call[r.from] # Idle /\ call[r.from].key = r.key
             /\ r.op = "READ" => call[r.from].op # "clear"
  <2>1. AsCalled(call[r.from], r) /\ CallShape(call[r.from])
    BY <1>1, <1>2 DEF Coherent
  <2> QED BY <1>1, <2>1 DEF AsCalled, CallShape, BucketTypeOK
<1>3. ASSUME NEW a, reply' = ReplyTo(r, a),
             \A c \in Clients : during[c] \subseteq during'[c],
             r.waiting => ShownIn(call[r.from], a, r.from, during'[r.from])
      PROVE  \A c \in Clients : reply'[c] # NoAnswer
                               => ShownIn(call[c], reply'[c], c, during'[c])
  <2>1. \A c \in Clients : reply[c] # NoAnswer => ShownIn(call[c], reply[c], c, during'[c])
    BY <1>3 DEF Remembered, ShownIn
  <2>2. CASE r.waiting
    <3>1. reply'[r.from] = a /\ \A d \in Clients : d # r.from => reply'[d] = reply[d]
      BY <1>1, <1>3, <2>2 DEF ReplyTo, BucketTypeOK
    <3> QED BY <1>3, <2>1, <2>2, <3>1
  <2>3. CASE ~r.waiting
    BY <1>3, <2>1, <2>3 DEF ReplyTo
  <2> QED BY <2>2, <2>3
<1>4. CASE ServeRead(r)
  <2> DEFINE a == [kind |-> "entry", op |-> entry[r.key].op, rev |-> entry[r.key].rev]
  <2>1. reply' = ReplyTo(r, a) /\ UNCHANGED <<entry, during>> /\ r.op = "READ"
    BY <1>4 DEF ServeRead, serverVars
  <2>2. a.kind = "entry" /\ a.op = entry[r.key].op /\ a.rev = entry[r.key].rev
    OBVIOUS
  <2> HIDE DEF a
  <2>3. r.waiting => ShownIn(call[r.from], a, r.from, during'[r.from])
    <3>1. r.waiting => entry[r.key] \in during'[r.from]
      BY <1>1, <1>2, <2>1 DEF Remembered
    <3> QED BY <2>2, <3>1 DEF ShownIn, Live
  <2>4. \A c \in Clients : reply'[c] # NoAnswer
                          => ShownIn(call[c], reply'[c], c, during'[c])
    BY <1>3, <2>1, <2>3
  <2> QED BY <1>1, <2>1, <2>4 DEF Remembered
<1>5. CASE ServeWrite(r)
  <2> DEFINE e == [op |-> r.op, rev |-> seq + 1, by |-> r.from]
             a == [kind |-> "ok", rev |-> seq + 1]
  <2>1. /\ reply' = ReplyTo(r, a) /\ Witnessed(r.key, e) /\ r.op \in Writes
        /\ entry' = [entry EXCEPT ![r.key] = e]
    BY <1>5 DEF ServeWrite
  <2>2. a.kind = "ok" /\ a.rev = e.rev /\ e.by = r.from /\ e.op \in Writes
    BY <2>1
  <2> HIDE DEF a, e
  <2>3. e # Nothing
    BY <2>2 DEF Nothing, Writes
  <2>4. \A c \in Clients : /\ during[c] \subseteq during'[c]
                           /\ call[c] # Idle /\ call[c].key = r.key => e \in during'[c]
    BY <1>1, <2>1, WitnessedGrows
  <2>5. r.waiting => ShownIn(call[r.from], a, r.from, during'[r.from])
    BY <1>1, <1>2, <2>2, <2>3, <2>4 DEF ShownIn
  <2>6. \A c \in Clients : reply'[c] # NoAnswer
                          => ShownIn(call[c], reply'[c], c, during'[c])
    BY <1>3, <2>1, <2>4, <2>5
  <2>7. ASSUME NEW c \in Clients, call[c] # Idle, call[c].op # "clear"
        PROVE  entry'[call[c].key] \in during'[c]
    <3>1. call[c].key \in Keys /\ entry[call[c].key] \in during[c]
      BY <2>7, CallType DEF Remembered, BucketTypeOK
    <3>2. entry'[call[c].key] = IF call[c].key = r.key THEN e ELSE entry[call[c].key]
      BY <2>1, <3>1 DEF BucketTypeOK
    <3> QED BY <2>4, <2>7, <3>1, <3>2
  <2> QED BY <1>1, <2>6, <2>7 DEF Remembered
<1>6. CASE ServeRefusal(r)
  <2> DEFINE a == [kind |-> "conflict", rev |-> 0]
  <2>1. reply' = ReplyTo(r, a) /\ UNCHANGED <<entry, during>> /\ a.kind = "conflict"
    BY <1>6 DEF ServeRefusal, serverVars
  <2> HIDE DEF a
  <2>2. ShownIn(call[r.from], a, r.from, during'[r.from])
    BY <2>1 DEF ShownIn
  <2>3. \A c \in Clients : reply'[c] # NoAnswer
                          => ShownIn(call[c], reply'[c], c, during'[c])
    BY <1>3, <2>1, <2>2
  <2> QED BY <1>1, <2>1, <2>3 DEF Remembered
<1> QED BY <1>4, <1>5, <1>6 DEF Serve

LEMMA ExpireRemembered ==
  ASSUME BucketTypeOK, Coherent, Remembered, NEW k \in Keys, Expire(k)
  PROVE  Remembered'
<1>1. \A c \in Clients : /\ during[c] \subseteq during'[c]
                         /\ call[c] # Idle /\ call[c].key = k => Nothing \in during'[c]
  BY WitnessedGrows DEF Expire
<1>2. UNCHANGED <<reply, call>> /\ entry' = [entry EXCEPT ![k] = Nothing]
  BY DEF Expire
<1>3. ASSUME NEW c \in Clients, call[c] # Idle, call[c].op # "clear"
      PROVE  entry'[call[c].key] \in during'[c]
  <2>1. call[c].key \in Keys /\ entry[call[c].key] \in during[c]
    BY <1>3, CallType DEF Remembered, BucketTypeOK
  <2>2. entry'[call[c].key] = IF call[c].key = k THEN Nothing ELSE entry[call[c].key]
    BY <1>2, <2>1 DEF BucketTypeOK
  <2> QED BY <1>1, <1>3, <2>1, <2>2
<1>4. \A c \in Clients : reply[c] # NoAnswer => ShownIn(call[c], reply[c], c, during'[c])
  BY <1>1 DEF Remembered, ShownIn
<1> QED BY <1>2, <1>3, <1>4 DEF Remembered

\* What asking, returning and going back to the list do to the other clients.
LEMMA AskOwn ==
  ASSUME BucketTypeOK, NEW c \in Clients, NEW w, NEW cl, NEW o, NEW x, Ask(c, w, cl, o, x)
  PROVE  /\ call'[c] = cl /\ reply'[c] = NoAnswer
         /\ \A d \in Clients : d # c => call'[d] = call[d] /\ reply'[d] = reply[d]
BY DEF Ask, BucketTypeOK

LEMMA ReactRemembered ==
  ASSUME BucketTypeOK, Coherent, Remembered, NEW c \in Clients, NEW a \in Answer,
         Answers(call[c], a), NEW w, React(c, a, w), UNCHANGED serverVars
  PROVE  Remembered'
<1>0. call[c] \in Call /\ call[c] # Idle /\ CallShape(call[c]) /\ UNCHANGED entry
  BY DEF BucketTypeOK, Coherent, Answers, serverVars
<1>1. CASE /\ Refused(c, a)
           /\ Ask(c, w, [call[c] EXCEPT !.step = "look", !.err = a.kind], "READ", Revision)
           /\ UNCHANGED <<list, result, histVars>>
  <2> DEFINE cl == [call[c] EXCEPT !.step = "look", !.err = a.kind]
  <2>1. a.kind \in {"conflict", "timeout"}
    BY <1>1, AnswerType DEF Refused, Answers
  <2>2. cl.op = call[c].op /\ cl.key = call[c].key
    BY <1>0, <2>1, LookType
  <2>3. Ask(c, w, cl, "READ", Revision)
    BY <1>1
  <2> HIDE DEF cl
  <2> QED BY <1>0, <1>1, <2>2, <2>3, AskOwn, OwnStep DEF Remembered, histVars
<1>2. CASE /\ Vacant(c, a)
           /\ Ask(c, w, [call[c] EXCEPT !.step = "retake"], "PUT", {a.rev})
           /\ UNCHANGED <<list, result, histVars>>
  <2> DEFINE cl == [call[c] EXCEPT !.step = "retake"]
  <2>1. cl.op = call[c].op /\ cl.key = call[c].key
    BY <1>0, StepType DEF Steps
  <2>2. Ask(c, w, cl, "PUT", {a.rev})
    BY <1>2
  <2> HIDE DEF cl
  <2> QED BY <1>0, <1>2, <2>1, <2>2, AskOwn, OwnStep DEF Remembered, histVars
<1>3. CASE /\ call[c].step = "purge" /\ a.kind = "ok"
           /\ call' = [call EXCEPT ![c].step = "list"]
           /\ reply' = [reply EXCEPT ![c] = NoAnswer]
           /\ wire' = w
           /\ UNCHANGED <<list, result, histVars>>
  <2>1. call'[c].op = "clear"
    BY <1>0, <1>3 DEF CallShape, BucketTypeOK, Call
  <2>2. /\ reply'[c] = NoAnswer
        /\ \A d \in Clients : d # c => call'[d] = call[d] /\ reply'[d] = reply[d]
    BY <1>3 DEF BucketTypeOK
  <2> QED BY <1>0, <1>3, <2>1, <2>2, OwnStep DEF histVars
<1>4. CASE Return(c, w, Ended(c, a))
  <2>1. /\ call'[c] = Idle /\ reply'[c] = NoAnswer
        /\ \A d \in Clients : d # c => /\ call'[d] = call[d] /\ reply'[d] = reply[d]
                                       /\ during'[d] = during[d]
    BY <1>4 DEF Return, BucketTypeOK
  <2> QED BY <1>0, <2>1, OwnStep
<1> QED BY <1>1, <1>2, <1>3, <1>4 DEF React

LEMMA NextRemembered ==
  BucketTypeOK /\ Coherent /\ Remembered /\ [BucketNext]_vars => Remembered'
<1> SUFFICES ASSUME BucketTypeOK, Coherent, Remembered, [BucketNext]_vars
             PROVE  Remembered'
  OBVIOUS
<1>1. ASSUME NEW r \in wire, Serve(r) PROVE Remembered'
  BY <1>1, ServeRemembered
<1>2. ASSUME NEW k \in Keys, Expire(k) PROVE Remembered'
  BY <1>2, ExpireRemembered
<1>3. ASSUME NEW c \in Clients, NEW o \in Ops, NEW k \in Keys, Begin(c, o, k)
      PROVE  Remembered'
  <2> DEFINE cl == NewCall(c, o, k, "first")
  <2>1. cl.key = k
    BY DEF NewCall
  <2>2. Ask(c, wire, cl, FirstOp(o), Expected(c, o)) /\ UNCHANGED entry
    BY <1>3 DEF Begin, serverVars
  <2> HIDE DEF cl
  <2>3. /\ during'[c] = {entry[k]}
        /\ \A d \in Clients : d # c => during'[d] = during[d]
    BY <1>3 DEF Begin, Begins, BucketTypeOK
  <2> QED BY <2>1, <2>2, <2>3, AskOwn, OwnStep
<1>4. ASSUME NEW c \in Clients, Receive(c) \/ TimesOut(c) PROVE Remembered'
  <2>1. PICK a \in Answer, w \in SUBSET Request :
          React(c, a, w) /\ Answers(call[c], a) /\ UNCHANGED serverVars
    BY <1>4, Continues
  <2> QED BY <2>1, ReactRemembered
<1>5. ASSUME NEW c \in Clients, BeginClear(c) PROVE Remembered'
  <2>1. PICK k \in Keys : /\ Begins(c, k)
                          /\ call' = [call EXCEPT ![c] = NewCall(c, "clear", k, "list")]
    BY <1>5 DEF BeginClear
  <2>2. call'[c].op = "clear"
    BY <2>1 DEF NewCall, BucketTypeOK
  <2>3. reply[c] = NoAnswer /\ UNCHANGED <<entry, reply>>
    BY <1>5, <2>1, NothingAwaited DEF BeginClear, Begins, serverVars
  <2>4. \A d \in Clients : d # c => call'[d] = call[d] /\ during'[d] = during[d]
    BY <2>1 DEF Begins, BucketTypeOK
  <2> QED BY <2>2, <2>3, <2>4, OwnStep
<1>6. ASSUME NEW c \in Clients, Listed(c) \/ ListEnds(c) PROVE Remembered'
  BY <1>6 DEF Listed, ListEnds, Remembered, serverVars, histVars
<1>7. ASSUME NEW c \in Clients, PurgeNext(c) PROVE Remembered'
  <2> DEFINE cl == [call[c] EXCEPT !.step = "purge", !.key = Head(list[c].queue)]
  <2>1. Head(list[c].queue) \in Keys /\ call[c] \in Call /\ CallShape(call[c])
        /\ call[c].step = "list" /\ call[c] # Idle
    BY <1>7, ListType, HeadTailProperties DEF PurgeNext, BucketTypeOK, Coherent
  <2>2. cl.op = "clear"
    BY <2>1, PurgeType DEF CallShape
  <2>3. Ask(c, wire, cl, "PURGE", Revision) /\ UNCHANGED <<entry, during>>
    BY <1>7 DEF PurgeNext, serverVars, histVars
  <2> HIDE DEF cl
  <2> QED BY <2>2, <2>3, AskOwn, OwnStep
<1>8. ASSUME NEW c \in Clients, EndClear(c) PROVE Remembered'
  <2>1. /\ call'[c] = Idle /\ reply'[c] = NoAnswer /\ UNCHANGED entry
        /\ \A d \in Clients : d # c => /\ call'[d] = call[d] /\ reply'[d] = reply[d]
                                       /\ during'[d] = during[d]
    BY <1>8 DEF EndClear, Return, BucketTypeOK, serverVars
  <2> QED BY <2>1, OwnStep
<1>9. CASE UNCHANGED vars
  BY <1>9 DEF vars, serverVars, histVars, Remembered
<1> QED BY <1>1, <1>2, <1>3, <1>4, <1>5, <1>6, <1>7, <1>8, <1>9
        DEF BucketNext, ClientStep

\* How a call ends: with an answer, or as a clear that has nothing left.
LEMMA Endings ==
  ASSUME BucketTypeOK, Coherent, [BucketNext]_vars, NEW c \in Clients,
         call[c] # Idle, call'[c] = Idle
  PROVE  \/ EndClear(c)
         \/ \E a \in Answer, w \in SUBSET Request :
              /\ Return(c, w, Ended(c, a)) /\ Answers(call[c], a)
              /\ call[c].step = "purge" => a.kind # "ok"
              /\ (a = reply[c] /\ a # NoAnswer) \/ a = TimedOut
<1>1. call[c] \in Call /\ Idle \notin Call
  BY DEF BucketTypeOK, Call, Idle, Ops
<1>2. ASSUME call' = call PROVE FALSE
  BY <1>2
<1>3. ASSUME NEW d \in Clients, d # c, call'[c] = call[c] PROVE FALSE
  BY <1>3
<1>4. ASSUME NEW d \in Clients, Receive(d) \/ TimesOut(d) 
      PROVE  \E a \in Answer, w \in SUBSET Request :
               /\ d = c
               /\ Return(c, w, Ended(c, a)) /\ Answers(call[c], a)
               /\ call[c].step = "purge" => a.kind # "ok"
               /\ (a = reply[c] /\ a # NoAnswer) \/ a = TimedOut
  <2>1. PICK a \in Answer, w \in SUBSET Request :
          /\ React(d, a, w) /\ Answers(call[d], a)
          /\ (a = reply[d] /\ a # NoAnswer) \/ a = TimedOut
    BY <1>4, Continues
  <2>2. d = c
    BY <1>3, <2>1, AskOwn DEF React, Return, BucketTypeOK
  <2>3. call[c].step \in Steps /\ [call[c] EXCEPT !.step = "retake"] # Idle
        /\ [call[c] EXCEPT !.step = "look", !.err = a.kind] # Idle
        /\ [call[c] EXCEPT !.step = "list"] # Idle
    BY <1>1 DEF Call, Idle
  <2>4. ~Ask(c, w, [call[c] EXCEPT !.step = "look", !.err = a.kind], "READ", Revision)
    BY <2>3, AskOwn
  <2>5. ~Ask(c, w, [call[c] EXCEPT !.step = "retake"], "PUT", {a.rev})
    BY <2>3, AskOwn
  <2>6. call' # [call EXCEPT ![c].step = "list"]
    BY <2>3 DEF BucketTypeOK
  <2> QED BY <2>1, <2>2, <2>4, <2>5, <2>6 DEF React
<1>5. ASSUME NEW d \in Clients, BeginClear(d) PROVE FALSE
  BY <1>1, <1>3, <1>5 DEF BeginClear, Begins, BucketTypeOK
<1>6. ASSUME NEW d \in Clients, NEW o \in Ops, NEW k \in Keys, Begin(d, o, k)
      PROVE  FALSE
  <2>1. call[d] = Idle
    BY <1>6 DEF Begin, Begins
  <2>2. call'[c] = call[c]
    BY <1>6, <2>1, AskOwn DEF Begin
  <2> QED BY <2>2
<1>7. ASSUME NEW d \in Clients, PurgeNext(d) PROVE FALSE
  <2>1. call'[d] = [call[d] EXCEPT !.step = "purge", !.key = Head(list[d].queue)]
        /\ \A e \in Clients : e # d => call'[e] = call[e]
    BY <1>7, AskOwn DEF PurgeNext
  <2>2. d = c
    BY <1>3, <2>1
  <2> QED BY <1>1, <2>1, <2>2 DEF Call, Idle
<1>8. ASSUME NEW d \in Clients, EndClear(d) PROVE d = c
  BY <1>3, <1>8 DEF EndClear, Return, BucketTypeOK
<1>9. (\E d \in Clients : ClientStep(d)) \/ call' = call
  BY DEF BucketNext, Serve, Expire, vars
<1> QED BY <1>2, <1>4, <1>5, <1>6, <1>7, <1>8, <1>9 DEF ClientStep, Listed, ListEnds

CallInv == BucketInv /\ Remembered

\* The entries a call has witnessed hold the one its answer speaks of.
THEOREM CallInvariance == BucketSpec => []CallInv
<1>1. Init => CallInv
  BY InitTypes, InitWarranted, InitRemembered DEF BucketInv, CallInv
<1>2. CallInv /\ [BucketNext]_vars => CallInv'
  BY NextType, NextCoherent, NextWarranted, NextRemembered DEF BucketInv, CallInv
<1> QED BY <1>1, <1>2, PTL DEF BucketSpec

LEMMA ReturnResult ==
  ASSUME BucketTypeOK, NEW c \in Clients, NEW w, NEW x, Return(c, w, x)
  PROVE  result'[c].kind = x.kind /\ result'[c].rev = x.rev
BY DEF Return, BucketTypeOK

\* What get returns was in the bucket during the call (makeBucket.get).
THEOREM GetIsCurrent == BucketSpec => ReadsAreCurrent
<1>1. ASSUME CallInv, [BucketNext]_vars, NEW c \in Clients
      PROVE  /\ Ends(c, "get", "ok") =>
                  \E e \in during[c] : Live(e) /\ e.rev = result'[c].rev
             /\ Ends(c, "get", "absent") => \E e \in during[c] : ~Live(e)
  <2> SUFFICES ASSUME call[c] # Idle, call[c].op = "get", call'[c] = Idle,
                      result'[c].kind \in {"ok", "absent"}
               PROVE  IF result'[c].kind = "ok"
                      THEN \E e \in during[c] : Live(e) /\ e.rev = result'[c].rev
                      ELSE \E e \in during[c] : ~Live(e)
    BY DEF Ends
  <2>1. BucketTypeOK /\ Coherent /\ Remembered /\ CallShape(call[c])
    BY <1>1 DEF CallInv, BucketInv, Coherent
  <2>2. ~EndClear(c) /\ call[c].step # "look"
    BY <2>1 DEF EndClear, CallShape
  <2>3. PICK a \in Answer, w \in SUBSET Request :
          /\ Return(c, w, Ended(c, a)) /\ Answers(call[c], a)
          /\ (a = reply[c] /\ a # NoAnswer) \/ a = TimedOut
    BY <1>1, <2>1, <2>2, Endings
  <2>4. result'[c].kind = Ended(c, a).kind /\ result'[c].rev = Ended(c, a).rev
    BY <2>1, <2>3, ReturnResult
  <2>5. a.kind = "entry" /\ a = reply[c] /\ a # NoAnswer
    BY <2>2, <2>3, <2>4, AnswerType DEF Ended, Answers, TimedOut
  <2>6. PICK e \in during[c] : e.rev = a.rev /\ (Live(e) <=> a.op = "PUT")
    BY <2>1, <2>5 DEF Remembered, ShownIn
  <2> QED BY <2>2, <2>4, <2>5, <2>6 DEF Ended
<1>2. CallInv /\ [BucketNext]_vars =>
        [\A c \in Clients :
           /\ Ends(c, "get", "ok") =>
                \E e \in during[c] : Live(e) /\ e.rev = result'[c].rev
           /\ Ends(c, "get", "absent") => \E e \in during[c] : ~Live(e)]_vars
  BY <1>1
<1> QED BY <1>2, CallInvariance, PTL DEF BucketSpec, ReadsAreCurrent

\* A write that reports success is its client's own, and the revision it reports
\* was the key's during the call (makeBucket.put, create, update, delete, purge).
THEOREM WriteIsMine == BucketSpec => SuccessIsMine
<1>1. ASSUME CallInv, [BucketNext]_vars, NEW c \in Clients,
             NEW o \in Ops \ {"get", "clear"}, Ends(c, o, "ok")
      PROVE  \E e \in during[c] : e # Nothing /\ e.rev = result'[c].rev /\ e.by = c
  <2>1. BucketTypeOK /\ Coherent /\ Remembered /\ CallShape(call[c])
    BY <1>1 DEF CallInv, BucketInv, Coherent
  <2>2. call[c] # Idle /\ call[c].op = o /\ call'[c] = Idle /\ result'[c].kind = "ok"
    BY <1>1 DEF Ends
  <2>3. ~EndClear(c)
    BY <2>1, <2>2 DEF EndClear, CallShape
  <2>4. PICK a \in Answer, w \in SUBSET Request :
          /\ Return(c, w, Ended(c, a)) /\ Answers(call[c], a)
          /\ (a = reply[c] /\ a # NoAnswer) \/ a = TimedOut
    BY <1>1, <2>1, <2>2, <2>3, Endings
  <2>5. Ended(c, a).kind = "ok" /\ result'[c].rev = Ended(c, a).rev
    BY <2>1, <2>2, <2>4, ReturnResult
  <2>6. a.kind # "entry"
    <3>1. call[c].step = "look" => call[c].err # "ok"
      BY <2>1, <2>2 DEF BucketTypeOK, Call, Idle
    <3> QED BY <2>2, <2>4, <2>5, <3>1 DEF Ended, Answers
  <2>7. a.kind = "ok" /\ a = reply[c] /\ a # NoAnswer /\ a.rev = result'[c].rev
    BY <2>4, <2>5, <2>6 DEF Ended, TimedOut
  <2> QED BY <2>1, <2>2, <2>7 DEF Remembered, ShownIn
<1>2. CallInv /\ [BucketNext]_vars =>
        [\A c \in Clients, o \in Ops \ {"get", "clear"} :
           Ends(c, o, "ok") =>
             \E e \in during[c] : /\ e # Nothing
                                  /\ e.rev = result'[c].rev /\ e.by = c]_vars
  BY <1>1
<1> QED BY <1>2, CallInvariance, PTL DEF BucketSpec, SuccessIsMine

-----------------------------------------------------------------------------
(* What a clear has left to do *)

\* A list that is yet to come to e, or was cut short before it did.
Beyond(l, e) == e.rev > l.cursor /\ (l.ended => l.cut)

\* What a clear in state cl with list l, waiting for the answer a, has made of k:
\* its list has not come to k, or k waits in its queue, or the purge of k is out.
Accounted(k, e, cl, l, a) ==
  \/ Beyond(l, e)
  \/ \E i \in 1 .. Len(l.queue) : l.queue[i] = k
  \/ cl.step = "purge" /\ cl.key = k /\ a.kind # "ok"

\* Every value from before the clear that is still there is accounted for.
Outstanding(cl, l, a, B, en) ==
  cl # Idle /\ cl.op = "clear" =>
    \A k \in Keys : Live(en[k]) /\ en[k].rev \in B => Accounted(k, en[k], cl, l, a)

Numbered(en) == \A j, k \in Keys : en[j].rev = en[k].rev /\ en[j].rev # 0 => j = k

Tracked ==
  /\ Numbered(entry)
  /\ \A c \in Clients : \A n \in before[c] : n <= seq
  /\ \A c \in Clients : Outstanding(call[c], list[c], reply[c], before[c], entry)

LEMMA InitTracked == Init => Tracked
BY DEF Init, Tracked, Numbered, Outstanding, Nothing

LEMMA NumberedStays ==
  ASSUME BucketTypeOK, Warranted, Numbered(entry), [BucketNext]_vars
  PROVE  Numbered(entry')
<1>1. seq \in Nat /\ \A k \in Keys : entry[k].rev \in Nat /\ entry[k].rev <= seq
  <2>1. \A k \in Keys : entry[k] \in Entry
    BY DEF BucketTypeOK
  <2> QED BY <2>1, EntryType, MaxRevAssumption DEF BucketTypeOK, Warranted, Revision
<1>2. CASE UNCHANGED serverVars
  BY <1>2 DEF serverVars, Numbered
<1>3. ASSUME NEW k \in Keys, Expire(k) PROVE Numbered(entry')
  <2>1. \A j \in Keys : entry'[j] \in {entry[j], Nothing}
    BY <1>3 DEF Expire, BucketTypeOK
  <2> QED BY <2>1 DEF Numbered, Nothing
<1>4. ASSUME NEW r \in wire, ServeWrite(r) PROVE Numbered(entry')
  <2>1. r.key \in Keys
    BY DEF BucketTypeOK, Request
  <2>2. entry'[r.key].rev = seq + 1 /\ \A j \in Keys : j # r.key => entry'[j] = entry[j]
    BY <1>4, <2>1 DEF ServeWrite, BucketTypeOK
  <2> QED BY <1>1, <2>1, <2>2 DEF Numbered
<1> QED BY <1>2, <1>3, <1>4, ServerActs

\* A value from before a clear that is there after a step was there before it.
LEMMA ValuesStay ==
  ASSUME BucketTypeOK, Tracked, [BucketNext]_vars, NEW c \in Clients, NEW k \in Keys,
         Live(entry'[k]), entry'[k].rev \in before[c]
  PROVE  entry'[k] = entry[k]
<1>1. entry'[k].rev <= seq /\ seq \in Nat
  BY ServerSteps DEF Tracked
<1>2. ~Live(Nothing)
  BY DEF Live, Nothing
<1> QED BY <1>1, <1>2, ServerSteps

LEMMA BeforeStays ==
  ASSUME BucketTypeOK, Warranted, Tracked, [BucketNext]_vars,
         \A c \in Clients : \/ before'[c] \subseteq before[c]
                            \/ before'[c] = {entry[j].rev : j \in {j \in Keys : Live(entry[j])}}
  PROVE  \A c \in Clients : \A n \in before'[c] : n <= seq'
<1>1. seq \in Nat /\ seq' \in Nat /\ seq <= seq'
  BY ServerSteps
<1>2. \A c \in Clients : \A n \in before'[c] : n \in Nat /\ n <= seq
  <2>1. \A j \in Keys : entry[j].rev \in Nat /\ entry[j].rev <= seq
    <3>1. \A j \in Keys : entry[j] \in Entry
      BY DEF BucketTypeOK
    <3> QED BY <3>1, EntryType, MaxRevAssumption DEF Warranted, Revision
  <2>2. \A c \in Clients : \A n \in before[c] : n \in Nat /\ n <= seq
    BY MaxRevAssumption DEF BucketTypeOK, Tracked, Revision
  <2> QED BY <2>1, <2>2
<1> QED BY <1>1, <1>2

\* A step of a client concerns its own list only.
LEMMA OwnList ==
  ASSUME BucketTypeOK, Warranted, Tracked, [BucketNext]_vars, NEW c \in Clients,
         UNCHANGED entry,
         \A d \in Clients : d # c => /\ call'[d] = call[d] /\ reply'[d] = reply[d]
                                     /\ list'[d] = list[d] /\ before'[d] = before[d],
         \/ before'[c] \subseteq before[c]
         \/ before'[c] = {entry[j].rev : j \in {j \in Keys : Live(entry[j])}},
         Outstanding(call'[c], list'[c], reply'[c], before'[c], entry)
  PROVE  Tracked'
<1>1. Numbered(entry')
  BY NumberedStays DEF Tracked
<1>2. \A d \in Clients : \A n \in before'[d] : n <= seq'
  BY BeforeStays
<1>3. \A d \in Clients : Outstanding(call'[d], list'[d], reply'[d], before'[d], entry')
  BY DEF Tracked
<1> QED BY <1>1, <1>2, <1>3 DEF Tracked

LEMMA ServerTracked ==
  ASSUME BucketTypeOK, Coherent, Warranted, Tracked, [BucketNext]_vars,
         UNCHANGED <<call, list, before>>,
         \A c \in Clients, k \in Keys :
           /\ call[c] # Idle /\ call[c].op = "clear" /\ call[c].step = "purge"
           /\ call[c].key = k /\ reply[c].kind # "ok"
           /\ Live(entry'[k]) /\ entry'[k].rev \in before[c]
           => reply'[c].kind # "ok"
  PROVE  Tracked'
<1>1. Numbered(entry')
  BY NumberedStays DEF Tracked
<1>2. \A d \in Clients : \A n \in before'[d] : n <= seq'
  BY BeforeStays
<1>3. ASSUME NEW c \in Clients, call[c] # Idle, call[c].op = "clear", NEW k \in Keys,
             Live(entry'[k]), entry'[k].rev \in before[c]
      PROVE  Accounted(k, entry'[k], call[c], list[c], reply'[c])
  <2>1. entry'[k] = entry[k]
    BY <1>3, ValuesStay
  <2>2. Accounted(k, entry[k], call[c], list[c], reply[c])
    BY <1>3, <2>1 DEF Tracked, Outstanding
  <2> QED BY <1>3, <2>1, <2>2 DEF Accounted
<1>4. \A c \in Clients : Outstanding(call'[c], list'[c], reply'[c], before'[c], entry')
  BY <1>3 DEF Outstanding
<1> QED BY <1>1, <1>2, <1>4 DEF Tracked

LEMMA ServeTracked ==
  ASSUME BucketTypeOK, Coherent, Warranted, Tracked, NEW r \in wire, Serve(r)
  PROVE  Tracked'
<1>1. [BucketNext]_vars /\ UNCHANGED <<call, list, before>>
  BY DEF BucketNext, Serve
<1>2. r.from \in Clients /\ r.key \in Keys
  BY DEF BucketTypeOK, Request
<1>3. ASSUME NEW c \in Clients, NEW k \in Keys,
             call[c] # Idle, call[c].step = "purge", call[c].key = k,
             reply[c].kind # "ok", Live(entry'[k])
      PROVE  reply'[c].kind # "ok"
  <2>1. CASE ~ (r.waiting /\ r.from = c)
    <3>1. reply'[c] = reply[c]
      BY <1>2, <2>1 DEF Serve, ServeRead, ServeWrite, ServeRefusal, ReplyTo, BucketTypeOK
    <3> QED BY <1>3, <3>1
  <2>2. CASE r.waiting /\ r.from = c
    <3>1. r.op = "PURGE" /\ r.key = k
      BY <1>3, <2>2 DEF Coherent, AsCalled
    <3>2. CASE ServeRefusal(r) \/ ServeRead(r)
      BY <1>2, <2>2, <3>2 DEF ServeRefusal, ServeRead, ReplyTo, BucketTypeOK
    <3>3. CASE ServeWrite(r)
      BY <1>2, <1>3, <3>1, <3>3 DEF ServeWrite, Live, BucketTypeOK
    <3> QED BY <3>2, <3>3 DEF Serve
  <2> QED BY <2>1, <2>2
<1> QED BY <1>1, <1>3, ServerTracked

LEMMA ExpireTracked ==
  ASSUME BucketTypeOK, Coherent, Warranted, Tracked, NEW k \in Keys, Expire(k)
  PROVE  Tracked'
<1>1. [BucketNext]_vars /\ UNCHANGED <<call, list, before, reply>>
  BY DEF BucketNext, Expire
<1> QED BY <1>1, ServerTracked

\* What a step of a client leaves of the others' state.
LEMMA ReturnOwn ==
  ASSUME BucketTypeOK, NEW c \in Clients, NEW w, NEW x, Return(c, w, x)
  PROVE  /\ call'[c] = Idle /\ before'[c] = {}
         /\ \A d \in Clients : d # c => /\ call'[d] = call[d] /\ reply'[d] = reply[d]
                                        /\ list'[d] = list[d] /\ before'[d] = before[d]
BY DEF Return, BucketTypeOK

\* A step of a client whose call is, or becomes, none that clears.
LEMMA OtherCall ==
  ASSUME BucketTypeOK, Warranted, Tracked, [BucketNext]_vars, NEW c \in Clients,
         UNCHANGED entry,
         \A d \in Clients : d # c => /\ call'[d] = call[d] /\ reply'[d] = reply[d]
                                     /\ list'[d] = list[d] /\ before'[d] = before[d],
         \/ before'[c] \subseteq before[c]
         \/ before'[c] = {entry[j].rev : j \in {j \in Keys : Live(entry[j])}},
         call'[c] = Idle \/ call'[c].op # "clear"
  PROVE  Tracked'
<1>1. Outstanding(call'[c], list'[c], reply'[c], before'[c], entry)
  BY DEF Outstanding
<1> QED BY <1>1, OwnList

LEMMA ReactTracked ==
  ASSUME BucketTypeOK, Coherent, Warranted, Tracked, [BucketNext]_vars,
         NEW c \in Clients, NEW a \in Answer, Answers(call[c], a), NEW w, React(c, a, w),
         (a = reply[c] /\ a # NoAnswer) \/ a = TimedOut, UNCHANGED serverVars
  PROVE  Tracked'
<1>0. call[c] \in Call /\ call[c] # Idle /\ CallShape(call[c]) /\ UNCHANGED entry
  BY DEF BucketTypeOK, Coherent, Answers, serverVars
<1>1. CASE /\ Refused(c, a)
           /\ Ask(c, w, [call[c] EXCEPT !.step = "look", !.err = a.kind], "READ", Revision)
           /\ UNCHANGED <<list, result, histVars>>
  <2> DEFINE cl == [call[c] EXCEPT !.step = "look", !.err = a.kind]
  <2>1. a.kind \in {"conflict", "timeout"}
    BY <1>1, AnswerType DEF Refused, Answers
  <2>2. cl.op = "create"
    BY <1>0, <1>1, <2>1, LookType DEF Refused
  <2>3. Ask(c, w, cl, "READ", Revision)
    BY <1>1
  <2> HIDE DEF cl
  <2> QED BY <1>0, <1>1, <2>2, <2>3, AskOwn, OtherCall DEF histVars
<1>2. CASE /\ Vacant(c, a)
           /\ Ask(c, w, [call[c] EXCEPT !.step = "retake"], "PUT", {a.rev})
           /\ UNCHANGED <<list, result, histVars>>
  <2> DEFINE cl == [call[c] EXCEPT !.step = "retake"]
  <2>1. cl.op = "create"
    BY <1>0, <1>2, StepType DEF Steps, Vacant, CallShape
  <2>2. Ask(c, w, cl, "PUT", {a.rev})
    BY <1>2
  <2> HIDE DEF cl
  <2> QED BY <1>0, <1>2, <2>1, <2>2, AskOwn, OtherCall DEF histVars
<1>3. CASE /\ call[c].step = "purge" /\ a.kind = "ok"
           /\ call' = [call EXCEPT ![c].step = "list"]
           /\ reply' = [reply EXCEPT ![c] = NoAnswer]
           /\ wire' = w
           /\ UNCHANGED <<list, result, histVars>>
  <2>1. \A d \in Clients : d # c => call'[d] = call[d] /\ reply'[d] = reply[d]
    BY <1>3 DEF BucketTypeOK
  <2>2. a = reply[c]
    BY <1>3 DEF TimedOut
  <2>3. call[c].op = "clear"
    BY <1>0, <1>3 DEF CallShape
  <2>4. Outstanding(call[c], list[c], reply[c], before[c], entry)
    BY DEF Tracked
  <2>5. Outstanding(call'[c], list[c], reply'[c], before[c], entry)
    BY <1>0, <1>3, <2>2, <2>3, <2>4 DEF Outstanding, Accounted
  <2> QED BY <1>0, <1>3, <2>1, <2>5, OwnList DEF histVars
<1>4. CASE Return(c, w, Ended(c, a))
  BY <1>0, <1>4, ReturnOwn, OtherCall
<1> QED BY <1>1, <1>2, <1>3, <1>4 DEF React

LEMMA BeginTracked ==
  ASSUME BucketTypeOK, Warranted, Tracked, NEW c \in Clients, NEW o \in Ops,
         NEW k \in Keys, Begin(c, o, k)
  PROVE  Tracked'
<1> DEFINE cl == NewCall(c, o, k, "first")
<1>1. [BucketNext]_vars
  BY DEF BucketNext, ClientStep
<1>2. cl.op # "clear"
  BY DEF NewCall, Begin
<1>3. Ask(c, wire, cl, FirstOp(o), Expected(c, o)) /\ UNCHANGED <<entry, list>>
  BY DEF Begin, serverVars
<1> HIDE DEF cl
<1>4. /\ before'[c] = {entry[j].rev : j \in {j \in Keys : Live(entry[j])}}
      /\ \A d \in Clients : d # c => before'[d] = before[d]
  BY DEF Begin, Begins, BucketTypeOK
<1> QED BY <1>1, <1>2, <1>3, <1>4, AskOwn, OtherCall

LEMMA BeginClearTracked ==
  ASSUME BucketTypeOK, Coherent, Warranted, Tracked, NEW c \in Clients, BeginClear(c)
  PROVE  Tracked'
<1>1. [BucketNext]_vars
  BY DEF BucketNext, ClientStep
<1>2. UNCHANGED <<entry, reply>>
  BY DEF BeginClear, serverVars
<1>3. /\ list'[c].cursor = 0 /\ list'[c].ended = (After(0) = {})
      /\ \A d \in Clients : d # c => list'[d] = list[d]
  BY DEF BeginClear, BucketTypeOK
<1>4. /\ before'[c] = {entry[j].rev : j \in {j \in Keys : Live(entry[j])}}
      /\ \A d \in Clients : d # c => before'[d] = before[d] /\ call'[d] = call[d]
  BY DEF BeginClear, Begins, BucketTypeOK
<1>5. ASSUME NEW k \in Keys, Live(entry[k])
      PROVE  Beyond(list'[c], entry[k])
  <2>1. entry[k] \in Entry
    BY DEF BucketTypeOK
  <2>2. entry[k].rev \in Nat /\ entry[k].rev # 0
    BY <1>5, <2>1, EntryType, MaxRevAssumption DEF Revision
  <2>3. entry[k].rev > 0 /\ k \in After(0)
    BY <2>2 DEF After
  <2> QED BY <1>3, <2>3 DEF Beyond
<1>6. Outstanding(call'[c], list'[c], reply'[c], before'[c], entry)
  BY <1>5 DEF Outstanding, Accounted
<1> QED BY <1>1, <1>2, <1>3, <1>4, <1>6, OwnList

LEMMA ListedTracked ==
  ASSUME BucketTypeOK, Coherent, Warranted, Tracked, NEW c \in Clients, Listed(c)
  PROVE  Tracked'
<1>1. [BucketNext]_vars /\ UNCHANGED <<entry, reply, call, before>>
  BY DEF BucketNext, ClientStep, Listed, serverVars, histVars
<1>2. PICK k \in After(list[c].cursor) :
        /\ \A j \in After(list[c].cursor) : entry[k].rev <= entry[j].rev
        /\ list' = [list EXCEPT ![c] =
                      [cursor |-> entry[k].rev,
                       queue  |-> IF Live(entry[k]) THEN Append(@.queue, k)
                                  ELSE @.queue,
                       ended  |-> EndsAt(entry[k].rev),
                       cut    |-> FALSE]]
  BY DEF Listed
<1> DEFINE q == list[c].queue
           p == list'[c].queue
<1>3. /\ list'[c].cursor = entry[k].rev /\ list'[c].ended = EndsAt(entry[k].rev)
      /\ p = IF Live(entry[k]) THEN Append(q, k) ELSE q
      /\ \A d \in Clients : d # c => list'[d] = list[d]
  BY <1>2 DEF BucketTypeOK
<1>4. q \in Seq(Keys) /\ k \in Keys /\ \A j \in Keys : entry[j].rev \in Nat
  <2>1. \A j \in Keys : entry[j] \in Entry
    BY DEF BucketTypeOK
  <2> QED BY <2>1, EntryType, ListType, MaxRevAssumption DEF Revision, After
<1>5. \A i \in 1 .. Len(q) : i \in 1 .. Len(p) /\ p[i] = q[i]
  BY <1>3, <1>4, AppendProperties
<1>6. Live(entry[k]) => \E i \in 1 .. Len(p) : p[i] = k
  <2>1. Live(entry[k]) => Len(p) = Len(q) + 1 /\ p[Len(q) + 1] = k /\ Len(q) \in Nat
    BY <1>3, <1>4, AppendProperties, LenProperties
  <2> QED BY <2>1
<1> HIDE DEF q, p
<1>7. ASSUME NEW j \in Keys, Live(entry[j]), Accounted(j, entry[j], call[c], list[c], reply[c])
      PROVE  Accounted(j, entry[j], call[c], list'[c], reply[c])
  <2>1. CASE entry[j].rev > list[c].cursor
    <3>1. j \in After(list[c].cursor)
      BY <2>1 DEF After
    <3>2. entry[k].rev <= entry[j].rev
      BY <1>2, <3>1
    <3>3. CASE j = k
      BY <1>6, <1>7, <3>3 DEF Accounted, p
    <3>4. CASE j # k
      <4>0. entry[k].rev # 0
        BY <1>2, <1>4, ListType, MaxRevAssumption DEF After, Revision
      <4>1. entry[j].rev > entry[k].rev
        BY <1>4, <3>2, <3>4, <4>0 DEF Tracked, Numbered
      <4>2. ~list'[c].ended
        BY <1>3, <4>1 DEF EndsAt, After
      <4> QED BY <1>3, <4>1, <4>2 DEF Accounted, Beyond
    <3> QED BY <3>3, <3>4
  <2>2. CASE \E i \in 1 .. Len(q) : q[i] = j
    <3>1. \E i \in 1 .. Len(p) : p[i] = j
      BY <1>5, <2>2
    <3> QED BY <3>1 DEF Accounted, p
  <2>3. CASE call[c].step = "purge" /\ call[c].key = j /\ reply[c].kind # "ok"
    BY <2>3 DEF Accounted
  <2> QED BY <1>7, <2>1, <2>2, <2>3 DEF Accounted, Beyond, q
<1>8. Outstanding(call'[c], list'[c], reply'[c], before'[c], entry)
  BY <1>1, <1>7 DEF Outstanding, Tracked
<1> QED BY <1>1, <1>3, <1>8, OwnList

LEMMA ListEndsTracked ==
  ASSUME BucketTypeOK, Coherent, Warranted, Tracked, NEW c \in Clients, ListEnds(c)
  PROVE  Tracked'
<1>1. [BucketNext]_vars /\ UNCHANGED <<entry, reply, call, before>>
  BY DEF BucketNext, ClientStep, ListEnds, serverVars, histVars
<1>2. /\ list'[c].queue = list[c].queue /\ list'[c].cursor = list[c].cursor
      /\ list'[c].cut = (After(list[c].cursor) # {})
      /\ \A d \in Clients : d # c => list'[d] = list[d]
  BY DEF ListEnds, BucketTypeOK, Listing
<1>3. ASSUME NEW k \in Keys, Accounted(k, entry[k], call[c], list[c], reply[c])
      PROVE  Accounted(k, entry[k], call[c], list'[c], reply[c])
  <2>1. CASE Beyond(list[c], entry[k])
    <3>1. k \in After(list[c].cursor)
      BY <2>1 DEF Beyond, After
    <3>2. Beyond(list'[c], entry[k])
      BY <1>2, <2>1, <3>1 DEF Beyond
    <3> QED BY <3>2 DEF Accounted
  <2>2. CASE ~Beyond(list[c], entry[k])
    BY <1>2, <1>3, <2>2 DEF Accounted
  <2> QED BY <2>1, <2>2
<1>4. Outstanding(call'[c], list'[c], reply'[c], before'[c], entry)
  BY <1>1, <1>3 DEF Outstanding, Tracked
<1> QED BY <1>1, <1>2, <1>4, OwnList

LEMMA PurgeTracked ==
  ASSUME BucketTypeOK, Coherent, Warranted, Tracked, NEW c \in Clients, PurgeNext(c)
  PROVE  Tracked'
<1> DEFINE cl == [call[c] EXCEPT !.step = "purge", !.key = Head(list[c].queue)]
           q  == list[c].queue
<1>1. [BucketNext]_vars /\ UNCHANGED <<entry, before>> /\ q # << >>
      /\ call[c] # Idle /\ call[c].step = "list"
  BY DEF BucketNext, ClientStep, PurgeNext, serverVars, histVars
<1>2. call[c] \in Call /\ q \in Seq(Keys) /\ CallShape(call[c])
  BY <1>1, ListType DEF BucketTypeOK, Coherent
<1>3. /\ Head(q) \in Keys /\ Head(q) = q[1] /\ Len(q) \in Nat /\ Len(q) # 0
      /\ Len(Tail(q)) = Len(q) - 1
      /\ \A i \in 1 .. Len(Tail(q)) : Tail(q)[i] = q[i + 1]
  BY <1>1, <1>2, HeadTailProperties, LenProperties
<1>4. call[c].op = "clear" /\ cl.op = "clear" /\ cl.step = "purge" /\ cl.key = Head(q)
  BY <1>1, <1>2, <1>3, PurgeType DEF CallShape
<1>5. /\ list'[c].queue = Tail(q) /\ list'[c].cursor = list[c].cursor
      /\ list'[c].ended = list[c].ended /\ list'[c].cut = list[c].cut
      /\ \A d \in Clients : d # c => list'[d] = list[d]
  BY DEF PurgeNext, BucketTypeOK, Listing
<1>6. Ask(c, wire, cl, "PURGE", Revision)
  BY DEF PurgeNext
<1> HIDE DEF cl, q
<1>7. /\ call'[c] = cl /\ reply'[c] = NoAnswer
      /\ \A d \in Clients : d # c => call'[d] = call[d] /\ reply'[d] = reply[d]
  BY <1>6, AskOwn
<1>8. ASSUME NEW k \in Keys, Accounted(k, entry[k], call[c], list[c], reply[c])
      PROVE  Accounted(k, entry[k], cl, list'[c], NoAnswer)
  <2>1. CASE Beyond(list[c], entry[k])
    BY <1>5, <2>1 DEF Accounted, Beyond
  <2>2. CASE \E i \in 1 .. Len(q) : q[i] = k
    <3>1. PICK i \in 1 .. Len(q) : q[i] = k
      BY <2>2
    <3>2. CASE i = 1
      BY <1>3, <1>4, <3>1, <3>2 DEF Accounted, NoAnswer
    <3>3. CASE i # 1
      <4>1. i - 1 \in 1 .. Len(Tail(q)) /\ Tail(q)[i - 1] = k
        BY <1>3, <3>1, <3>3
      <4> QED BY <1>5, <4>1 DEF Accounted
    <3> QED BY <3>2, <3>3
  <2> QED BY <1>1, <1>8, <2>1, <2>2 DEF Accounted, q
<1>9. Outstanding(call'[c], list'[c], reply'[c], before'[c], entry)
  BY <1>1, <1>4, <1>7, <1>8 DEF Outstanding, Tracked
<1> QED BY <1>1, <1>5, <1>7, <1>9, OwnList

LEMMA NextTracked ==
  BucketTypeOK /\ Coherent /\ Warranted /\ Tracked /\ [BucketNext]_vars => Tracked'
<1> SUFFICES ASSUME BucketTypeOK, Coherent, Warranted, Tracked, [BucketNext]_vars
             PROVE  Tracked'
  OBVIOUS
<1>1. ASSUME NEW c \in Clients, Receive(c) \/ TimesOut(c) PROVE Tracked'
  <2>1. PICK a \in Answer, w \in SUBSET Request :
          /\ React(c, a, w) /\ Answers(call[c], a)
          /\ (a = reply[c] /\ a # NoAnswer) \/ a = TimedOut
          /\ UNCHANGED serverVars
    BY <1>1, Continues
  <2> QED BY <2>1, ReactTracked
<1>2. ASSUME NEW c \in Clients, EndClear(c) PROVE Tracked'
  <2>1. Return(c, wire, [kind |-> "ok", rev |-> 0]) /\ UNCHANGED entry
    BY <1>2 DEF EndClear, serverVars
  <2> QED BY <2>1, ReturnOwn, OtherCall
<1>3. CASE UNCHANGED vars
  BY <1>3 DEF vars, serverVars, histVars, Tracked
<1> QED BY <1>1, <1>2, <1>3, ServeTracked, ExpireTracked, BeginTracked, BeginClearTracked,
           ListedTracked, ListEndsTracked, PurgeTracked DEF BucketNext, ClientStep

ClearInv == BucketInv /\ Tracked

\* A clear loses no value its list has delivered, or would have: until the purge
\* of a value is answered, the list has not come to it, or it is queued, or its
\* purge is out; and a list passes over a value only by being cut short.
THEOREM ClearInvariance == BucketSpec => []ClearInv
<1>1. Init => ClearInv
  BY InitTypes, InitWarranted, InitTracked DEF BucketInv, ClearInv
<1>2. ClearInv /\ [BucketNext]_vars => ClearInv'
  BY NextType, NextCoherent, NextWarranted, NextTracked DEF BucketInv, ClearInv
<1> QED BY <1>1, <1>2, PTL DEF BucketSpec

\* When clear succeeds, what is left of what was there when it began lies beyond
\* the point at which its list was cut short, although the list is still read
\* while its keys are purged and others go on writing (makeKeyValueStore.clear).
THEOREM ClearPurgesWhatItLists == BucketSpec => ClearTakesListed
<1>1. ASSUME ClearInv, [BucketNext]_vars, NEW c \in Clients, Ends(c, "clear", "ok"),
             NEW k \in Spared(c)
      PROVE  list[c].cut /\ entry[k].rev > list[c].cursor
  <2>0. k \in Keys /\ Live(entry[k]) /\ entry[k].rev \in before[c]
    BY DEF Spared
  <2>1. BucketTypeOK /\ Coherent /\ Tracked /\ CallShape(call[c])
    BY <1>1 DEF ClearInv, BucketInv, Coherent
  <2>2. call[c] # Idle /\ call[c].op = "clear" /\ call'[c] = Idle /\ result'[c].kind = "ok"
    BY <1>1 DEF Ends
  <2>3. ASSUME NEW a \in Answer, NEW w, Return(c, w, Ended(c, a)), Answers(call[c], a),
               call[c].step = "purge" => a.kind # "ok"
        PROVE  FALSE
    <3>1. Ended(c, a).kind = "ok"
      BY <2>1, <2>2, <2>3, ReturnResult
    <3>2. call[c].step = "purge"
      BY <2>1, <2>2, <2>3 DEF CallShape, Answers
    <3> QED BY <2>2, <2>3, <3>1, <3>2 DEF Ended, Answers
  <2>4. EndClear(c)
    BY <1>1, <2>1, <2>2, <2>3, Endings
  <2>5. list[c].ended /\ Len(list[c].queue) = 0 /\ call[c].step = "list"
    BY <2>4 DEF EndClear
  <2>6. Accounted(k, entry[k], call[c], list[c], reply[c])
    BY <2>0, <2>1, <2>2 DEF Tracked, Outstanding
  <2> QED BY <2>5, <2>6 DEF Accounted, Beyond
<1>2. ClearInv /\ [BucketNext]_vars =>
        [\A c \in Clients : Ends(c, "clear", "ok") =>
           \A k \in Spared(c) : list[c].cut /\ entry[k].rev > list[c].cursor]_vars
  BY <1>1
<1> QED BY <1>2, ClearInvariance, PTL DEF BucketSpec, ClearTakesListed
=============================================================================
