---------------------------- MODULE AtLeastOnce ----------------------------
(***************************************************************************)
(* What a durable JetStream consumer promises to the code that processes   *)
(* its messages: every message is attempted a bounded number of times, is  *)
(* taken off the consumer only after some attempt accepted it, is          *)
(* discarded only after some attempt refused it, and is given up on only   *)
(* when the delivery budget is spent.  Nothing here mentions workers,      *)
(* connections, acknowledgement packets or timers.                         *)
(***************************************************************************)
EXTENDS Naturals

CONSTANTS Msgs,         \* the messages of the stream
          MaxDeliver    \* the consumer's max_deliver

VARIABLES fate,         \* fate[m]: "open", "done", "rejected" or "exhausted"
          attempts,     \* attempts[m]: how often m was handed out
          accepted,     \* messages some attempt accepted
          refused       \* messages some attempt refused

absVars == <<fate, attempts, accepted, refused>>

Init ==
  /\ fate = [m \in Msgs |-> "open"]
  /\ attempts = [m \in Msgs |-> 0]
  /\ accepted = {}
  /\ refused = {}

\* A message is handed out; only an open one may be.
Attempt(m) ==
  /\ fate[m] = "open"
  /\ attempts[m] < MaxDeliver
  /\ attempts' = [attempts EXCEPT ![m] = @ + 1]
  /\ UNCHANGED <<fate, accepted, refused>>

\* An attempt reaches a verdict, possibly long after another attempt has
\* already decided the fate of the message.
Accept(m) ==
  /\ attempts[m] > 0
  /\ accepted' = accepted \cup {m}
  /\ UNCHANGED <<fate, attempts, refused>>

Refuse(m) ==
  /\ attempts[m] > 0
  /\ refused' = refused \cup {m}
  /\ UNCHANGED <<fate, attempts, accepted>>

Complete(m) ==
  /\ fate[m] = "open"
  /\ m \in accepted
  /\ fate' = [fate EXCEPT ![m] = "done"]
  /\ UNCHANGED <<attempts, accepted, refused>>

Reject(m) ==
  /\ fate[m] = "open"
  /\ m \in refused
  /\ fate' = [fate EXCEPT ![m] = "rejected"]
  /\ UNCHANGED <<attempts, accepted, refused>>

GiveUp(m) ==
  /\ fate[m] = "open"
  /\ attempts[m] = MaxDeliver
  /\ fate' = [fate EXCEPT ![m] = "exhausted"]
  /\ UNCHANGED <<attempts, accepted, refused>>

Next ==
  \E m \in Msgs : \/ Attempt(m)  \/ Accept(m) \/ Refuse(m)
                  \/ Complete(m) \/ Reject(m) \/ GiveUp(m)

Spec == Init /\ [][Next]_absVars
=============================================================================
