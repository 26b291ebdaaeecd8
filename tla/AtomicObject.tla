---------------------------- MODULE AtomicObject ----------------------------
(***************************************************************************)
(* What an object of an object store promises to those who put, get and    *)
(* delete it at once: each call takes effect at one moment, and not twice. *)
(* A call that reports success took effect between its beginning and its   *)
(* end, and a get that succeeds returns the object of that moment.  A call *)
(* that failed, or that its caller gave up on, took effect at most once,   *)
(* possibly later.  Nothing here mentions chunks, records or requests.     *)
(***************************************************************************)
EXTENDS Naturals

CONSTANT MaxCalls       \* calls, each with a number of its own

Calls  == 1 .. MaxCalls
Object == 0 .. MaxCalls   \* the put that wrote it; 0 is no object

VARIABLES object,       \* what is there
          op,           \* op[j]: what call j does
          effect,       \* effect[j]: whether the call has taken effect
          saw,          \* saw[j]: what a get has seen at that moment
          result        \* result[j]: how the call ended

absVars == <<object, op, effect, saw, result>>

Init ==
  /\ object = 0
  /\ op = [j \in Calls |-> "none"]
  /\ effect = [j \in Calls |-> FALSE]
  /\ saw = [j \in Calls |-> 0]
  /\ result = [j \in Calls |-> "none"]

Begin(j) ==
  /\ op[j] = "none"
  /\ \E o \in {"put", "get", "delete"} : op' = [op EXCEPT ![j] = o]
  /\ UNCHANGED <<object, effect, saw, result>>

\* Only a write outlives the call it was made by.
Write(j) ==
  /\ op[j] \in {"put", "delete"}
  /\ result[j] \in {"none", "failed", "cut"}
  /\ ~effect[j]
  /\ effect' = [effect EXCEPT ![j] = TRUE]
  /\ object' = IF op[j] = "put" THEN j ELSE 0
  /\ UNCHANGED saw

Read(j) ==
  /\ op[j] = "get"
  /\ result[j] = "none"
  /\ ~effect[j]
  /\ effect' = [effect EXCEPT ![j] = TRUE]
  /\ saw' = [saw EXCEPT ![j] = object]
  /\ UNCHANGED object

Return(j, how) ==
  /\ op[j] # "none"
  /\ result[j] = "none"
  /\ how = "ok" => effect'[j] /\ (op[j] = "get" => saw'[j] # 0)
  /\ how = "absent" => op[j] = "get" /\ effect'[j] /\ saw'[j] = 0
  /\ result' = [result EXCEPT ![j] = how]

\* A call takes effect, returns, or does both.
Continue(j) ==
  /\ Write(j) \/ Read(j) \/ UNCHANGED <<object, effect, saw>>
  /\ \/ UNCHANGED result
     \/ \E how \in {"ok", "absent", "failed", "cut"} : Return(j, how)
  /\ UNCHANGED op

\* An object may outlive its time in the bucket.
Vanish ==
  /\ object # 0
  /\ object' = 0
  /\ UNCHANGED <<op, effect, saw, result>>

Next == (\E j \in Calls : Begin(j) \/ Continue(j)) \/ Vanish

Spec == Init /\ [][Next]_absVars
=============================================================================
