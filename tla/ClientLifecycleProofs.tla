----------------------- MODULE ClientLifecycleProofs -----------------------
(***************************************************************************)
(* Proofs about ClientLifecycle, for any number of messages, losses,       *)
(* attempts and addresses.                                                 *)
(***************************************************************************)
EXTENDS ClientLifecycle, SequenceTheorems, TLAPS

Sent == Msgs \cup {Ping}

\* What is on its way to the server, oldest first.
Line == IF connected THEN wire ELSE outbound

\* A connection that is gone with nobody who dials is gone for good.
Alive == connected \/ dial.at # "none"

\* From the moment it dials an address the client waits for one PONG for each
\* PING on its way; while it is not connected and looks a name up, it may also
\* wait for PONGs of a connection that was lost.
Ordered == connected \/ Attempting

Shape ==
  /\ connected => outbound = << >> /\ dial.at = "none"
  /\ ~connected => wire = << >>
  /\ dial.at \in {"lookup", "connect", "handshake"} => dial.attempts < MaxAttempts

\* Nothing is published behind the PING of a drain; only one flush is called.
Barred ==
  /\ Contains(pongs, "drain") \/ drain \in {"flushed", "done"} => noMorePublishing
  /\ flush = "none" => ~Contains(pongs, "flush")

Safe == received \cup dropped

\* No message is lost unnoticed while the connection can come back.
Accounted ==
  /\ \A n \in Msgs : Contains(Line, n) => n \in accepted
  /\ Alive => \A n \in accepted \ Safe : Contains(Line, n)

\* The messages of B that are not in R are on the line s before place p.
Ahead(s, p, B, R) == \A n \in B \ R : \E i \in 1 .. Len(s) : i < p /\ s[i] = n

\* f tells for each who waits in q where on the line s its PING is.
Matched(f, q, s, A, P, R) ==
  /\ \A i \in 1 .. Len(q) : f[i] \in 1 .. Len(s) /\ s[f[i]] = Ping
  /\ \A i, j \in 1 .. Len(q) : i < j => f[i] < f[j]
  /\ \A p \in 1 .. Len(s) : s[p] = Ping => \E i \in 1 .. Len(q) : f[i] = p
  /\ \A i \in 1 .. Len(q) : /\ q[i] = "drain" => Ahead(s, f[i], A, R)
                            /\ q[i] = "flush" => Ahead(s, f[i], P, R)

Queued(q, s, A, P, R) ==
  \E f \in [1 .. Len(q) -> 1 .. Len(s)] : Matched(f, q, s, A, P, R)

Answered ==
  /\ drain \in {"flushed", "done"} => accepted \subseteq Safe
  /\ flush = "ok" => promised \subseteq Safe

ClientInv ==
  /\ ClientTypeOK
  /\ Shape
  /\ Barred
  /\ Accounted
  /\ Ordered => Queued(pongs, Line, accepted, promised, Safe)
  /\ Answered

-----------------------------------------------------------------------------
(* Who waits and what is on the line *)

LEMMA AppendHolds ==
  ASSUME NEW S, NEW s \in Seq(S), NEW x \in S, NEW n
  PROVE  Contains(Append(s, x), n) <=> Contains(s, n) \/ n = x
<1>1. /\ Len(s) \in Nat /\ Len(Append(s, x)) = Len(s) + 1
      /\ \A i \in 1 .. Len(s) : Append(s, x)[i] = s[i]
      /\ Append(s, x)[Len(s) + 1] = x
  BY AppendProperties, LenProperties
<1>2. CASE Contains(s, n)
  BY <1>1, <1>2 DEF Contains
<1>3. CASE n = x
  BY <1>1, <1>3 DEF Contains
<1>4. ASSUME Contains(Append(s, x), n) PROVE Contains(s, n) \/ n = x
  <2>1. PICK i \in 1 .. Len(s) + 1 : Append(s, x)[i] = n
    BY <1>1, <1>4 DEF Contains
  <2> QED BY <1>1, <2>1 DEF Contains
<1> QED BY <1>2, <1>3, <1>4

LEMMA TailHolds ==
  ASSUME NEW S, NEW s \in Seq(S), s # << >>, NEW n
  PROVE  Contains(s, n) <=> Contains(Tail(s), n) \/ n = Head(s)
<1>1. /\ Len(s) \in Nat /\ Len(s) # 0 /\ Len(Tail(s)) = Len(s) - 1 /\ Head(s) = s[1]
      /\ \A i \in 1 .. Len(Tail(s)) : Tail(s)[i] = s[i + 1]
  BY HeadTailProperties, LenProperties
<1>2. ASSUME Contains(Tail(s), n) PROVE Contains(s, n)
  <2>1. PICK i \in 1 .. Len(Tail(s)) : Tail(s)[i] = n
    BY <1>2 DEF Contains
  <2>2. i + 1 \in 1 .. Len(s) /\ s[i + 1] = n
    BY <1>1, <2>1
  <2> QED BY <2>2 DEF Contains
<1>3. ASSUME Contains(s, n), n # Head(s) PROVE Contains(Tail(s), n)
  <2>1. PICK i \in 1 .. Len(s) : s[i] = n
    BY <1>3 DEF Contains
  <2>2. i - 1 \in 1 .. Len(Tail(s)) /\ Tail(s)[i - 1] = n
    BY <1>1, <1>3, <2>1
  <2> QED BY <2>2 DEF Contains
<1>4. n = Head(s) => Contains(s, n)
  BY <1>1 DEF Contains
<1> QED BY <1>2, <1>3, <1>4

LEMMA QueuedEmpty == \A A, P, R : Queued(<< >>, << >>, A, P, R)
<1> SUFFICES ASSUME NEW A, NEW P, NEW R PROVE Queued(<< >>, << >>, A, P, R)
  OBVIOUS
<1> DEFINE f == [i \in 1 .. 0 |-> 1]
<1>1. Matched(f, << >>, << >>, A, P, R)
  BY DEF Matched
<1>2. f \in [1 .. Len(<< >>) -> 1 .. Len(<< >>)]
  OBVIOUS
<1> QED BY <1>1, <1>2 DEF Queued

\* A message joins the line; nobody waits for a drain.
LEMMA QueuedMessage ==
  ASSUME NEW q \in Seq(Waiters), NEW s \in Seq(Sent), NEW A, NEW P, NEW R,
         Queued(q, s, A, P, R), NEW n \in Msgs, ~Contains(q, "drain")
  PROVE  Queued(q, Append(s, n), A \cup {n}, P, R)
<1> DEFINE t == Append(s, n)
<1>1. /\ Len(s) \in Nat /\ Len(t) = Len(s) + 1 /\ Len(q) \in Nat
      /\ \A i \in 1 .. Len(s) : t[i] = s[i]
      /\ t[Len(s) + 1] = n
  BY AppendProperties, LenProperties DEF Sent
<1>2. n # Ping
  BY DEF Msgs, Ping
<1>3. PICK f \in [1 .. Len(q) -> 1 .. Len(s)] : Matched(f, q, s, A, P, R)
  BY DEF Queued
<1> HIDE DEF t
<1>4. f \in [1 .. Len(q) -> 1 .. Len(t)]
  BY <1>1, <1>3
<1>5. Matched(f, q, t, A \cup {n}, P, R)
  <2>1. \A i \in 1 .. Len(q) : f[i] \in 1 .. Len(t) /\ t[f[i]] = Ping
    BY <1>1, <1>3 DEF Matched
  <2>2. \A i, j \in 1 .. Len(q) : i < j => f[i] < f[j]
    BY <1>3 DEF Matched
  <2>3. \A p \in 1 .. Len(t) : t[p] = Ping => \E i \in 1 .. Len(q) : f[i] = p
    BY <1>1, <1>2, <1>3 DEF Matched
  <2>4. ASSUME NEW i \in 1 .. Len(q) PROVE q[i] # "drain"
    BY DEF Contains
  <2>5. ASSUME NEW i \in 1 .. Len(q), q[i] = "flush" PROVE Ahead(t, f[i], P, R)
    <3>1. Ahead(s, f[i], P, R)
      BY <1>3, <2>5 DEF Matched
    <3> QED BY <1>1, <3>1 DEF Ahead
  <2> QED BY <2>1, <2>2, <2>3, <2>4, <2>5 DEF Matched
<1> QED BY <1>4, <1>5 DEF Queued, t

\* Somebody sends a PING and waits for its PONG.
LEMMA QueuedPing ==
  ASSUME NEW q \in Seq(Waiters), NEW s \in Seq(Sent), NEW A, NEW P, NEW O, NEW R,
         Queued(q, s, A, O, R), NEW who \in Waiters,
         who = "drain" => \A n \in A \ R : Contains(s, n),
         who = "flush" => \A n \in P \ R : Contains(s, n),
         P = O \/ ~Contains(q, "flush")
  PROVE  Queued(Append(q, who), Append(s, Ping), A, P, R)
<1> DEFINE t == Append(s, Ping)
           r == Append(q, who)
<1>1. /\ Len(s) \in Nat /\ Len(t) = Len(s) + 1
      /\ \A i \in 1 .. Len(s) : t[i] = s[i]
      /\ t[Len(s) + 1] = Ping
  BY AppendProperties, LenProperties DEF Sent
<1>2. /\ Len(q) \in Nat /\ Len(r) = Len(q) + 1
      /\ \A i \in 1 .. Len(q) : r[i] = q[i]
      /\ r[Len(q) + 1] = who
  BY AppendProperties, LenProperties
<1>3. PICK f \in [1 .. Len(q) -> 1 .. Len(s)] : Matched(f, q, s, A, O, R)
  BY DEF Queued
<1> HIDE DEF t, r
<1> DEFINE g == [i \in 1 .. Len(r) |-> IF i = Len(r) THEN Len(t) ELSE f[i]]
<1>4. g \in [1 .. Len(r) -> 1 .. Len(t)]
  BY <1>1, <1>2, <1>3
<1>5. g[Len(r)] = Len(t) /\ \A i \in 1 .. Len(q) : g[i] = f[i] /\ f[i] \in 1 .. Len(s)
  BY <1>2, <1>3
<1> HIDE DEF g
<1>6. Matched(g, r, t, A, P, R)
  <2>1. \A i \in 1 .. Len(r) : g[i] \in 1 .. Len(t) /\ t[g[i]] = Ping
    <3>1. \A i \in 1 .. Len(q) : t[g[i]] = Ping
      BY <1>1, <1>3, <1>5 DEF Matched
    <3>2. t[g[Len(r)]] = Ping
      BY <1>1, <1>5
    <3> QED BY <1>2, <1>4, <3>1, <3>2
  <2>2. ASSUME NEW i \in 1 .. Len(r), NEW j \in 1 .. Len(r), i < j PROVE g[i] < g[j]
    <3>1. i \in 1 .. Len(q) /\ g[i] = f[i] /\ f[i] < Len(t)
      BY <1>1, <1>2, <1>5, <2>2
    <3>2. CASE j = Len(r)
      BY <1>5, <3>1, <3>2
    <3>3. CASE j # Len(r)
      <4>1. j \in 1 .. Len(q) /\ g[j] = f[j]
        BY <1>2, <1>5, <3>3
      <4> QED BY <1>3, <2>2, <3>1, <4>1 DEF Matched
    <3> QED BY <3>2, <3>3
  <2>3. \A p \in 1 .. Len(t) : t[p] = Ping => \E i \in 1 .. Len(r) : g[i] = p
    <3>1. ASSUME NEW p \in 1 .. Len(s), t[p] = Ping
          PROVE  \E i \in 1 .. Len(r) : g[i] = p
      <4>1. PICK i \in 1 .. Len(q) : f[i] = p
        BY <1>1, <1>3, <3>1 DEF Matched
      <4>2. i \in 1 .. Len(r) /\ g[i] = p
        BY <1>2, <1>5, <4>1
      <4> QED BY <4>2
    <3>2. Len(r) \in 1 .. Len(r) /\ g[Len(r)] = Len(s) + 1
      BY <1>1, <1>2, <1>5
    <3> QED BY <1>1, <3>1, <3>2
  <2>4. ASSUME NEW B, NEW i \in 1 .. Len(q), Ahead(s, f[i], B, R)
        PROVE  Ahead(t, g[i], B, R)
    BY <1>1, <1>5, <2>4 DEF Ahead
  <2>5. ASSUME NEW B, \A n \in B \ R : Contains(s, n) PROVE Ahead(t, g[Len(r)], B, R)
    BY <1>1, <1>5, <2>5 DEF Ahead, Contains
  <2>6. ASSUME NEW i \in 1 .. Len(r), i # Len(r) 
        PROVE  /\ r[i] = "drain" => Ahead(t, g[i], A, R)
               /\ r[i] = "flush" => Ahead(t, g[i], P, R)
    <3>1. i \in 1 .. Len(q) /\ r[i] = q[i]
      BY <1>2, <2>6
    <3>2. (q[i] = "drain" => Ahead(s, f[i], A, R)) /\ (q[i] = "flush" => Ahead(s, f[i], O, R))
      BY <1>3, <3>1 DEF Matched
    <3>3. q[i] = "flush" => P = O
      BY <3>1 DEF Contains
    <3> QED BY <2>4, <3>1, <3>2, <3>3
  <2>7. /\ r[Len(r)] = "drain" => Ahead(t, g[Len(r)], A, R)
        /\ r[Len(r)] = "flush" => Ahead(t, g[Len(r)], P, R)
    BY <1>2, <2>5
  <2> QED BY <2>1, <2>2, <2>3, <2>6, <2>7 DEF Matched
<1> QED BY <1>4, <1>6 DEF Queued, t, r

\* The server takes a message.
LEMMA QueuedTaken ==
  ASSUME NEW q \in Seq(Waiters), NEW s \in Seq(Sent), NEW A, NEW P, NEW R,
         Queued(q, s, A, P, R), s # << >>, Head(s) # Ping
  PROVE  Queued(q, Tail(s), A, P, R \cup {Head(s)})
<1> DEFINE t == Tail(s)
<1>1. /\ Len(s) \in Nat /\ Len(s) # 0 /\ Len(t) = Len(s) - 1 /\ Head(s) = s[1]
      /\ \A i \in 1 .. Len(t) : t[i] = s[i + 1]
  BY HeadTailProperties, LenProperties
<1>2. PICK f \in [1 .. Len(q) -> 1 .. Len(s)] : Matched(f, q, s, A, P, R)
  BY DEF Queued
<1> HIDE DEF t
<1> DEFINE g == [i \in 1 .. Len(q) |-> f[i] - 1]
<1>3. \A i \in 1 .. Len(q) : f[i] \in 2 .. Len(s) /\ g[i] = f[i] - 1
  BY <1>1, <1>2 DEF Matched
<1>4. g \in [1 .. Len(q) -> 1 .. Len(t)]
  BY <1>1, <1>3
<1> HIDE DEF g
<1>5. Matched(g, q, t, A, P, R \cup {Head(s)})
  <2>1. \A i \in 1 .. Len(q) : g[i] \in 1 .. Len(t) /\ t[g[i]] = Ping
    BY <1>1, <1>2, <1>3 DEF Matched
  <2>2. \A i, j \in 1 .. Len(q) : i < j => g[i] < g[j]
    BY <1>2, <1>3 DEF Matched
  <2>3. \A p \in 1 .. Len(t) : t[p] = Ping => \E i \in 1 .. Len(q) : g[i] = p
    <3>1. ASSUME NEW p \in 1 .. Len(t), t[p] = Ping
          PROVE  \E i \in 1 .. Len(q) : g[i] = p
      <4>1. p + 1 \in 1 .. Len(s) /\ s[p + 1] = Ping
        BY <1>1, <3>1
      <4>2. PICK i \in 1 .. Len(q) : f[i] = p + 1
        BY <1>2, <4>1 DEF Matched
      <4> QED BY <1>3, <4>2
    <3> QED BY <3>1
  <2>4. ASSUME NEW B, NEW i \in 1 .. Len(q), Ahead(s, f[i], B, R)
        PROVE  Ahead(t, g[i], B, R \cup {Head(s)})
    <3> SUFFICES ASSUME NEW n \in B \ (R \cup {Head(s)})
                 PROVE  \E m \in 1 .. Len(t) : m < g[i] /\ t[m] = n
      BY DEF Ahead
    <3>1. PICK m \in 1 .. Len(s) : m < f[i] /\ s[m] = n
      BY <2>4 DEF Ahead
    <3>2. m - 1 \in 1 .. Len(t) /\ m - 1 < g[i] /\ t[m - 1] = n
      BY <1>1, <1>3, <3>1
    <3> QED BY <3>2
  <2> QED BY <1>2, <2>1, <2>2, <2>3, <2>4 DEF Matched
<1> QED BY <1>4, <1>5 DEF Queued, t

\* The server answers a PING.
LEMMA QueuedAnswered ==
  ASSUME NEW q \in Seq(Waiters), NEW s \in Seq(Sent), NEW A \in SUBSET Msgs,
         NEW P \in SUBSET Msgs, NEW R, Queued(q, s, A, P, R), s # << >>, Head(s) = Ping
  PROVE  /\ q # << >>
         /\ Queued(Tail(q), Tail(s), A, P, R)
         /\ Head(q) = "drain" => A \subseteq R
         /\ Head(q) = "flush" => P \subseteq R
<1> DEFINE t == Tail(s)
           r == Tail(q)
<1>1. /\ Len(s) \in Nat /\ Len(s) # 0 /\ Len(t) = Len(s) - 1 /\ Head(s) = s[1]
      /\ \A i \in 1 .. Len(t) : t[i] = s[i + 1]
  BY HeadTailProperties, LenProperties
<1>2. PICK f \in [1 .. Len(q) -> 1 .. Len(s)] : Matched(f, q, s, A, P, R)
  BY DEF Queued
<1>3. Len(q) \in Nat
  BY LenProperties
<1>4. PICK h \in 1 .. Len(q) : f[h] = 1
  BY <1>1, <1>2 DEF Matched
<1>5. q # << >>
  BY <1>4
<1>6. /\ Len(q) # 0 /\ Len(r) = Len(q) - 1 /\ Head(q) = q[1]
      /\ \A i \in 1 .. Len(r) : r[i] = q[i + 1]
  BY <1>3, <1>5, HeadTailProperties, LenProperties
<1> HIDE DEF t, r
<1>7. h = 1 /\ f[1] = 1
  BY <1>1, <1>2, <1>3, <1>4, <1>6 DEF Matched
<1>8. (Head(q) = "drain" => A \subseteq R) /\ (Head(q) = "flush" => P \subseteq R)
  <2>1. ASSUME NEW B, Ahead(s, f[1], B, R) PROVE B \subseteq R
    BY <1>7, <2>1 DEF Ahead
  <2>2. (q[1] = "drain" => Ahead(s, f[1], A, R)) /\ (q[1] = "flush" => Ahead(s, f[1], P, R))
    BY <1>2, <1>4, <1>7 DEF Matched
  <2> QED BY <1>6, <2>1, <2>2
<1> DEFINE g == [i \in 1 .. Len(r) |-> f[i + 1] - 1]
<1>9. \A i \in 1 .. Len(r) : /\ i + 1 \in 1 .. Len(q) /\ f[i + 1] \in 2 .. Len(s)
                             /\ g[i] = f[i + 1] - 1
  BY <1>1, <1>2, <1>3, <1>6, <1>7 DEF Matched
<1>10. g \in [1 .. Len(r) -> 1 .. Len(t)]
  BY <1>1, <1>9
<1> HIDE DEF g
<1>11. Matched(g, r, t, A, P, R)
  <2>1. \A i \in 1 .. Len(r) : g[i] \in 1 .. Len(t) /\ t[g[i]] = Ping
    <3> SUFFICES ASSUME NEW i \in 1 .. Len(r)
                 PROVE  g[i] \in 1 .. Len(t) /\ t[g[i]] = Ping
      OBVIOUS
    <3>1. g[i] \in 1 .. Len(t) /\ g[i] + 1 = f[i + 1]
      BY <1>1, <1>9
    <3>2. s[f[i + 1]] = Ping
      BY <1>2, <1>9 DEF Matched
    <3> QED BY <1>1, <3>1, <3>2
  <2>2. \A i, j \in 1 .. Len(r) : i < j => g[i] < g[j]
    BY <1>2, <1>9 DEF Matched
  <2>3. ASSUME NEW p \in 1 .. Len(t), t[p] = Ping
        PROVE  \E i \in 1 .. Len(r) : g[i] = p
    <3>1. p + 1 \in 1 .. Len(s) /\ s[p + 1] = Ping
      BY <1>1, <2>3
    <3>2. PICK i \in 1 .. Len(q) : f[i] = p + 1
      BY <1>2, <3>1 DEF Matched
    <3>3. i - 1 \in 1 .. Len(r) /\ g[i - 1] = p
      BY <1>3, <1>6, <1>7, <1>9, <3>2
    <3> QED BY <3>3
  <2>4. ASSUME NEW B, NEW i \in 1 .. Len(r), B = A \/ B = P, Ahead(s, f[i + 1], B, R)
        PROVE  Ahead(t, g[i], B, R)
    <3> SUFFICES ASSUME NEW n \in B \ R
                 PROVE  \E m \in 1 .. Len(t) : m < g[i] /\ t[m] = n
      BY DEF Ahead
    <3>1. PICK m \in 1 .. Len(s) : m < f[i + 1] /\ s[m] = n
      BY <2>4 DEF Ahead
    <3>2. CASE m = 1
      BY <1>1, <2>4, <3>1, <3>2 DEF Msgs, Ping
    <3>3. CASE m # 1
      <4>1. m - 1 \in 1 .. Len(t) /\ m - 1 < g[i] /\ t[m - 1] = n
        BY <1>1, <1>9, <3>1, <3>3
      <4> QED BY <4>1
    <3> QED BY <3>2, <3>3
  <2> QED BY <1>2, <1>6, <1>9, <2>1, <2>2, <2>3, <2>4 DEF Matched
<1> QED BY <1>5, <1>8, <1>10, <1>11 DEF Queued, t, r

-----------------------------------------------------------------------------
(* The steps *)

DialState == [at : {"none", "loop", "lookup", "connect", "handshake"},
              attempts : 0 .. MaxAttempts, address : 0 .. NumAddresses,
              aborted : BOOLEAN]

LEMMA DialStates ==
  /\ ClientTypeOK => dial \in DialState
  /\ NotDialling \in DialState
  /\ [NotDialling EXCEPT !.at = "loop"] \in DialState
<1>1. 0 \in 0 .. MaxAttempts /\ 0 \in 0 .. NumAddresses
  BY MaxAttemptsAssumption, NumAddressesAssumption
<1>2. NotDialling \in DialState
  BY <1>1 DEF NotDialling, DialState
<1>3. ASSUME NEW d \in DialState PROVE [d EXCEPT !.at = "loop"] \in DialState
  BY DEF DialState
<1> QED BY <1>2, <1>3 DEF ClientTypeOK, DialState

LEMMA LineType ==
  ASSUME ClientTypeOK
  PROVE  Line \in Seq(Sent) /\ accepted \in SUBSET Msgs /\ promised \in SUBSET Msgs
BY DEF ClientTypeOK, Line, Sent

LEMMA OrderedAlive == Ordered => Alive
BY DEF Ordered, Alive, Attempting

\* Sending appends to the line.
LEMMA SendAppends ==
  ASSUME ClientTypeOK, Shape, NEW x \in Sent, Send(x), UNCHANGED connected
  PROVE  /\ Line' = Append(Line, x)
         /\ wire' \in Seq(Sent) /\ outbound' \in Seq(Sent)
         /\ connected => outbound' = << >>
         /\ ~connected => wire' = << >>
<1>1. wire \in Seq(Sent) /\ outbound \in Seq(Sent)
  BY DEF ClientTypeOK, Sent
<1>2. CASE connected
  <2>1. outbound = << >> /\ wire' = wire \o outbound \o <<x>> /\ outbound' = << >>
    BY <1>2 DEF Shape, Send
  <2>2. wire \o << >> = wire
    BY <1>1, ConcatEmptySeq
  <2>3. wire' = Append(wire, x)
    BY <1>1, <2>1, <2>2, AppendIsConcat
  <2>4. << >> \in Seq(Sent)
    BY EmptySeq
  <2> QED BY <1>1, <1>2, <2>1, <2>3, <2>4, AppendProperties DEF Line
<1>3. CASE ~connected
  <2>1. outbound' = Append(outbound, x) /\ wire' = wire
    BY <1>3 DEF Send
  <2> QED BY <1>1, <1>3, <2>1, AppendProperties DEF Line, Shape
<1> QED BY <1>2, <1>3

\* A PING is sent.
LEMMA AwaitInv ==
  ASSUME ClientInv, NEW who \in Waiters, Await(who),
         UNCHANGED <<connected, dial, accepted, received, dropped>>,
         promised' \subseteq accepted,
         promised' = promised \/ (who = "flush" /\ ~Contains(pongs, "flush"))
  PROVE  /\ wire' \in Seq(Sent) /\ outbound' \in Seq(Sent) /\ pongs' \in Seq(Waiters)
         /\ Shape' /\ Accounted'
         /\ Ordered' => Queued(pongs', Line', accepted, promised', Safe)
         /\ \A w : Contains(pongs', w) <=> Contains(pongs, w) \/ w = who
<1>1. /\ ClientTypeOK /\ Shape /\ Accounted
      /\ Ordered => Queued(pongs, Line, accepted, promised, Safe)
  BY DEF ClientInv
<1>2. Send(Ping) /\ pongs' = Append(pongs, who) /\ pongs \in Seq(Waiters)
  BY <1>1 DEF Await, ClientTypeOK
<1>3. /\ Line' = Append(Line, Ping) /\ wire' \in Seq(Sent) /\ outbound' \in Seq(Sent)
      /\ connected => outbound' = << >>
      /\ ~connected => wire' = << >>
  BY <1>1, <1>2, SendAppends DEF Sent
<1>4. Shape'
  BY <1>1, <1>3 DEF Shape
<1>5. \A n : Contains(Line', n) <=> Contains(Line, n) \/ n = Ping
  BY <1>1, <1>3, LineType, AppendHolds DEF Sent
<1>6. Accounted'
  BY <1>1, <1>5 DEF Accounted, Alive, Safe, Msgs, Ping
<1>7. Ordered' => Queued(pongs', Line', accepted, promised', Safe)
  <2> SUFFICES ASSUME Ordered PROVE Queued(pongs', Line', accepted, promised', Safe)
    BY DEF Ordered, Attempting
  <2>1. \A n \in accepted \ Safe : Contains(Line, n)
    BY <1>1, OrderedAlive DEF Accounted
  <2>2. \A n \in promised' \ Safe : Contains(Line, n)
    BY <2>1
  <2> HIDE DEF Safe
  <2> QED BY <1>1, <1>2, <1>3, <2>1, <2>2, LineType, QueuedPing
<1>8. \A w : Contains(pongs', w) <=> Contains(pongs, w) \/ w = who
  BY <1>2, AppendHolds
<1> QED BY <1>2, <1>3, <1>4, <1>6, <1>7, <1>8, AppendProperties

LEMMA PublishInv ==
  ASSUME ClientInv, Publish
  PROVE  ClientInv'
<1>1. PICK n \in Msgs \ accepted :
        /\ ~closed /\ ~noMorePublishing
        /\ Send(n)
        /\ accepted' = accepted \cup {n}
        /\ UNCHANGED <<connected, flags, pongs, dial, promises, release, promised,
                       received, dropped, losses>>
  BY DEF Publish
<1>2. ClientTypeOK /\ Shape /\ Barred /\ Accounted /\ Answered
  BY DEF ClientInv
<1>3. /\ Line' = Append(Line, n) /\ wire' \in Seq(Sent) /\ outbound' \in Seq(Sent)
      /\ connected => outbound' = << >>
      /\ ~connected => wire' = << >>
  BY <1>1, <1>2, SendAppends DEF Sent
<1>4. ClientTypeOK'
  BY <1>1, <1>2, <1>3 DEF ClientTypeOK, flags, promises, Sent
<1>5. Shape' /\ Barred'
  BY <1>1, <1>2, <1>3 DEF Shape, Barred, flags, promises
<1>6. Accounted'
  <2>1. \A m : Contains(Line', m) <=> Contains(Line, m) \/ m = n
    BY <1>1, <1>2, <1>3, LineType, AppendHolds DEF Sent
  <2> QED BY <1>1, <1>2, <2>1 DEF Accounted, Alive, Safe
<1>7. Ordered' => Queued(pongs', Line', accepted', promised', Safe')
  <2> SUFFICES ASSUME Ordered PROVE Queued(pongs, Line', accepted', promised, Safe)
    BY <1>1 DEF Ordered, Attempting, Safe
  <2>1. ~Contains(pongs, "drain") /\ pongs \in Seq(Waiters)
    BY <1>1, <1>2 DEF Barred, ClientTypeOK
  <2>2. Queued(pongs, Line, accepted, promised, Safe)
    BY DEF ClientInv
  <2> QED BY <1>1, <1>2, <1>3, <2>1, <2>2, LineType, QueuedMessage
<1>8. Answered'
  BY <1>1, <1>2 DEF Answered, Barred, Safe, promises
<1> QED BY <1>4, <1>5, <1>6, <1>7, <1>8 DEF ClientInv

LEMMA FlushInv ==
  ASSUME ClientInv, Flush
  PROVE  ClientInv'
<1>1. ClientTypeOK /\ Shape /\ Barred /\ Accounted /\ Answered
  BY DEF ClientInv
<1>2. /\ flush = "none" /\ flush' = "waiting" /\ promised' = accepted /\ Await("flush")
      /\ UNCHANGED <<connected, flags, dial, sub, drain, release, accepted, dropped,
                     received, losses>>
  BY DEF Flush
<1>3. /\ wire' \in Seq(Sent) /\ outbound' \in Seq(Sent) /\ pongs' \in Seq(Waiters)
      /\ Shape' /\ Accounted'
      /\ Ordered' => Queued(pongs', Line', accepted, promised', Safe)
      /\ \A w : Contains(pongs', w) <=> Contains(pongs, w) \/ w = "flush"
  BY <1>1, <1>2, AwaitInv DEF Barred, Waiters
<1>4. ClientTypeOK'
  BY <1>1, <1>2, <1>3 DEF ClientTypeOK, flags, Promise, Sent
<1>5. Barred' /\ Answered'
  BY <1>1, <1>2, <1>3 DEF Barred, Answered, flags, Safe
<1> QED BY <1>2, <1>3, <1>4, <1>5 DEF ClientInv, Safe

LEMMA DrainInv ==
  ASSUME ClientInv, BeginDrain, ~draining,
         UNCHANGED <<connected, closed, noMorePublishing, dial, flush, history,
                     received, losses>>,
         release' \in {release, "draining"}
  PROVE  ClientInv'
<1>1. /\ ClientTypeOK /\ Shape /\ Barred /\ Accounted /\ Answered
      /\ Ordered => Queued(pongs, Line, accepted, promised, Safe)
  BY DEF ClientInv
<1>2. draining' = TRUE /\ drain' = "subscriptions" /\ UNCHANGED <<accepted, promised, dropped>>
  BY DEF BeginDrain, history
<1>3. CASE sub = "open" /\ sub' = "draining" /\ Await("sub")
  <2>1. promised \subseteq accepted
    BY <1>1 DEF ClientTypeOK
  <2>2. /\ wire' \in Seq(Sent) /\ outbound' \in Seq(Sent) /\ pongs' \in Seq(Waiters)
        /\ Shape' /\ Accounted'
        /\ Ordered' => Queued(pongs', Line', accepted, promised', Safe)
        /\ \A w : Contains(pongs', w) <=> Contains(pongs, w) \/ w = "sub"
    BY <1>2, <1>3, <2>1, AwaitInv DEF Waiters
  <2>3. ClientTypeOK'
    BY <1>1, <1>2, <1>3, <2>2 DEF ClientTypeOK, Sent
  <2>4. Barred' /\ Answered'
    BY <1>1, <1>2, <2>2 DEF Barred, Answered, Safe
  <2> QED BY <1>2, <2>2, <2>3, <2>4 DEF ClientInv, Safe
<1>4. CASE UNCHANGED <<sub, buffers>>
  <2>1. ClientTypeOK'
    BY <1>1, <1>2, <1>4 DEF ClientTypeOK, buffers
  <2>2. Shape' /\ Barred' /\ Accounted' /\ Answered'
    BY <1>1, <1>2, <1>4 DEF Shape, Barred, Accounted, Answered, Safe, Line, Alive, buffers
  <2>3. Ordered' => Queued(pongs', Line', accepted', promised', Safe')
    BY <1>1, <1>2, <1>4 DEF Ordered, Attempting, Line, Safe, buffers
  <2> QED BY <2>1, <2>2, <2>3 DEF ClientInv
<1> QED BY <1>3, <1>4 DEF BeginDrain

LEMMA SubscriptionsDrainedInv ==
  ASSUME ClientInv, SubscriptionsDrained
  PROVE  ClientInv'
<1>1. ClientTypeOK /\ Shape /\ Barred /\ Accounted /\ Answered
  BY DEF ClientInv
<1>2. /\ noMorePublishing' = TRUE /\ drain' = "flushing" /\ Await("drain")
      /\ UNCHANGED <<connected, closed, draining, dial, sub, flush, release, accepted,
                     promised, dropped, received, losses>>
  BY DEF SubscriptionsDrained, history
<1>3. promised \subseteq accepted
  BY <1>1 DEF ClientTypeOK
<1>4. /\ wire' \in Seq(Sent) /\ outbound' \in Seq(Sent) /\ pongs' \in Seq(Waiters)
      /\ Shape' /\ Accounted'
      /\ Ordered' => Queued(pongs', Line', accepted, promised', Safe)
      /\ \A w : Contains(pongs', w) <=> Contains(pongs, w) \/ w = "drain"
  BY <1>2, <1>3, AwaitInv DEF Waiters
<1>5. ClientTypeOK'
  BY <1>1, <1>2, <1>4 DEF ClientTypeOK, Sent
<1>6. Barred' /\ Answered'
  BY <1>1, <1>2, <1>4 DEF Barred, Answered, Safe
<1> QED BY <1>2, <1>4, <1>5, <1>6 DEF ClientInv, Safe

\* A step that concerns the flags, the loop or the finalizer only.
LEMMA QuietInv ==
  ASSUME ClientInv, ClientTypeOK',
         UNCHANGED <<connected, noMorePublishing, buffers, drain, flush, history, received>>,
         Ordered' => Ordered, Alive' => Alive,
         connected => dial'.at = "none",
         dial'.at \in {"lookup", "connect", "handshake"} => dial'.attempts < MaxAttempts
  PROVE  ClientInv'
<1>1. /\ Shape /\ Barred /\ Accounted /\ Answered
      /\ Ordered => Queued(pongs, Line, accepted, promised, Safe)
  BY DEF ClientInv
<1>2. Shape' /\ Barred' /\ Answered'
  BY <1>1 DEF Shape, Barred, Answered, Safe, buffers, history
<1>3. Accounted'
  BY <1>1 DEF Accounted, Line, Safe, buffers, history
<1>4. Ordered' => Queued(pongs', Line', accepted', promised', Safe')
  BY <1>1 DEF Line, Safe, buffers, history
<1> QED BY <1>2, <1>3, <1>4 DEF ClientInv

LEMMA ReleaseInv ==
  ASSUME ClientInv, CallerDrains \/ Release \/ ReleaseGivesUp
  PROVE  ClientInv'
<1>1. CASE CallerDrains
  BY <1>1, DrainInv DEF CallerDrains
<1>2. CASE Release /\ ~(closed \/ draining)
  <2>1. /\ BeginDrain /\ ~draining /\ release' = "draining"
        /\ UNCHANGED <<connected, closed, noMorePublishing, dial, flush, history,
                       received, losses>>
    BY <1>2 DEF Release
  <2> QED BY <2>1, DrainInv
<1>3. CASE ReleaseGivesUp \/ (Release /\ (closed \/ draining))
  <2>1. /\ release' = "closing"
        /\ UNCHANGED <<connected, flags, buffers, dial, promises, history, received,
                       losses>>
    BY <1>3 DEF ReleaseGivesUp, Release, flags, promises
  <2>2. ClientTypeOK'
    BY <2>1 DEF ClientInv, ClientTypeOK, flags, buffers, promises, history
  <2> QED BY <2>1, <2>2, QuietInv
          DEF ClientInv, Shape, Ordered, Attempting, Alive, flags, promises
<1> QED BY <1>1, <1>2, <1>3

\* What the loop does without touching the buffers.
LEMMA LoopInv ==
  ASSUME ClientInv, NextAttempt \/ LookUpFails \/ SocketOpens \/ DialFails \/ GiveUp
  PROVE  ClientInv'
<1>0. /\ ClientTypeOK /\ Shape /\ dial \in DialState
      /\ MaxAttempts \in Nat /\ NumAddresses \in Nat /\ NumAddresses # 0
  BY MaxAttemptsAssumption, NumAddressesAssumption, DialStates DEF ClientInv
<1>1. CASE NextAttempt
  <2>1. /\ dial.at = "loop" /\ dial.attempts < MaxAttempts
        /\ dial' = [dial EXCEPT !.at = "lookup", !.address = 1]
        /\ UNCHANGED <<connected, flags, buffers, promises, release, history, received,
                       losses>>
    BY <1>1 DEF NextAttempt
  <2>2. dial'.at = "lookup" /\ dial'.attempts = dial.attempts /\ dial' \in DialState
    <3>1. 1 \in 0 .. NumAddresses
      BY <1>0
    <3> QED BY <1>0, <2>1, <3>1 DEF DialState
  <2>3. ClientTypeOK'
    BY <1>0, <2>1, <2>2 DEF ClientTypeOK, DialState, flags, buffers, promises, history
  <2> QED BY <1>0, <2>1, <2>2, <2>3, QuietInv
          DEF Shape, Ordered, Attempting, Alive, flags, promises
<1>2. CASE SocketOpens
  <2>1. /\ dial.at = "connect"
        /\ dial' = [dial EXCEPT !.at = "handshake"]
        /\ UNCHANGED <<connected, flags, buffers, promises, release, history, received,
                       losses>>
    BY <1>2 DEF SocketOpens
  <2>2. dial' \in DialState /\ dial'.at = "handshake" /\ dial'.attempts = dial.attempts
    BY <1>0, <2>1 DEF DialState
  <2>3. ClientTypeOK'
    BY <1>0, <2>1, <2>2 DEF ClientTypeOK, DialState, flags, buffers, promises, history
  <2> QED BY <1>0, <2>1, <2>2, <2>3, QuietInv
          DEF Shape, Ordered, Attempting, Alive, flags, promises
<1>3. CASE LookUpFails \/ DialFails
  <2>1. /\ dial.at \in {"lookup", "connect", "handshake"}
        /\ \/ dial' = [dial EXCEPT !.at = "lookup", !.address = @ + 1]
              /\ dial.address < NumAddresses
           \/ dial' = [dial EXCEPT !.at = "loop", !.attempts = @ + 1]
        /\ UNCHANGED <<connected, flags, buffers, promises, release, history, received,
                       losses>>
    BY <1>3 DEF LookUpFails, DialFails, Attempting, AttemptFailed
  <2>2. dial.attempts < MaxAttempts
    BY <1>0, <2>1 DEF Shape
  <2>3. /\ dial' \in DialState /\ dial'.at \in {"lookup", "loop"}
        /\ dial'.at = "lookup" => dial'.attempts = dial.attempts
    <3>1. dial.address \in 0 .. NumAddresses /\ dial.attempts + 1 \in 0 .. MaxAttempts
      BY <1>0, <2>2 DEF DialState
    <3>2. CASE /\ dial' = [dial EXCEPT !.at = "lookup", !.address = @ + 1]
               /\ dial.address < NumAddresses
      <4>1. dial.address + 1 \in 0 .. NumAddresses
        BY <1>0, <3>1, <3>2 DEF DialState
      <4> QED BY <1>0, <3>2, <4>1 DEF DialState
    <3>3. CASE dial' = [dial EXCEPT !.at = "loop", !.attempts = @ + 1]
      BY <1>0, <3>1, <3>3 DEF DialState
    <3> QED BY <2>1, <3>2, <3>3
  <2>4. ClientTypeOK'
    BY <1>0, <2>1, <2>3 DEF ClientTypeOK, DialState, flags, buffers, promises, history
  <2> QED BY <1>0, <2>1, <2>2, <2>3, <2>4, QuietInv
          DEF Shape, Ordered, Attempting, Alive, flags, promises
<1>4. CASE GiveUp
  <2>1. /\ dial.at = "loop" /\ closed' = TRUE /\ sub' = "closed" /\ dial' = NotDialling
        /\ UNCHANGED <<connected, draining, noMorePublishing, buffers, drain, flush,
                       release, history, received, losses>>
    BY <1>4 DEF GiveUp
  <2>2. dial' \in DialState /\ dial'.at = "none"
    BY <1>0, <2>1, DialStates DEF NotDialling
  <2>3. ClientTypeOK'
    BY <1>0, <2>1, <2>2 DEF ClientTypeOK, DialState, buffers, history
  <2> QED BY <2>1, <2>2, <2>3, QuietInv DEF Ordered, Attempting, Alive
<1> QED BY <1>1, <1>2, <1>3, <1>4

LEMMA CloseInv ==
  ASSUME ClientInv, Close,
         UNCHANGED <<draining, noMorePublishing, outbound, pongs, flush, history, received,
                     losses>>,
         drain' = drain \/ (drain = "flushed" /\ drain' = "done"),
         release' \in {release, "closed"}
  PROVE  ClientInv'
<1>1. /\ ClientTypeOK /\ Shape /\ Barred /\ Accounted /\ Answered
      /\ Ordered => Queued(pongs, Line, accepted, promised, Safe)
  BY DEF ClientInv
<1>2. Barred' /\ Answered' /\ UNCHANGED <<accepted, promised, dropped>>
  BY <1>1 DEF Barred, Answered, Safe, history
<1>3. CASE UNCHANGED <<closed, sub, connected, wire, dial>>
  <2>1. ClientTypeOK'
    BY <1>1, <1>2, <1>3 DEF ClientTypeOK
  <2>2. Shape' /\ Accounted'
    BY <1>1, <1>2, <1>3 DEF Shape, Accounted, Alive, Line, Safe
  <2>3. Ordered' => Queued(pongs', Line', accepted', promised', Safe')
    BY <1>1, <1>2, <1>3 DEF Ordered, Attempting, Line, Safe
  <2> QED BY <1>2, <2>1, <2>2, <2>3 DEF ClientInv
<1>4. CASE /\ closed' = TRUE /\ sub' = "closed" /\ connected' = FALSE /\ wire' = << >>
           /\ dial' = [dial EXCEPT !.aborted = Attempting]
  <2>1. dial'.at = dial.at /\ dial'.attempts = dial.attempts
    BY <1>1, <1>4 DEF ClientTypeOK
  <2>2. ClientTypeOK'
    <3>1. wire' \in Seq(Msgs \cup {Ping})
      BY <1>4, EmptySeq
    <3>2. Attempting \in BOOLEAN
      BY DEF Attempting
    <3>3. dial' \in DialState
      BY <1>1, <1>4, <3>2, DialStates DEF DialState
    <3> QED BY <1>1, <1>2, <1>4, <3>1, <3>3 DEF ClientTypeOK, DialState
  <2>3. Shape'
    BY <1>1, <1>4, <2>1 DEF Shape
  <2>4. CASE connected
    <3>1. Line' = << >> /\ ~Alive' /\ ~Ordered'
      BY <1>1, <1>4, <2>1, <2>4 DEF Line, Alive, Ordered, Attempting, Shape
    <3>2. Accounted'
      BY <3>1 DEF Accounted, Contains
    <3> QED BY <1>2, <2>2, <2>3, <3>1, <3>2 DEF ClientInv
  <2>5. CASE ~connected
    <3>1. Line' = Line /\ Alive' = Alive /\ Ordered' = Ordered /\ Safe' = Safe
      BY <1>2, <1>4, <2>1, <2>5 DEF Line, Alive, Ordered, Attempting, Safe
    <3>2. Accounted'
      BY <1>1, <1>2, <3>1 DEF Accounted
    <3> QED BY <1>1, <1>2, <2>2, <2>3, <3>1, <3>2 DEF ClientInv
  <2> QED BY <2>4, <2>5
<1> QED BY <1>3, <1>4 DEF Close

LEMMA ServerTakesInv ==
  ASSUME ClientInv, ServerTakes
  PROVE  ClientInv'
<1>1. /\ ClientTypeOK /\ Shape /\ Barred /\ Accounted /\ Answered /\ Ordered
      /\ Queued(pongs, Line, accepted, promised, Safe)
  BY DEF ClientInv, ServerTakes, Ordered
<1>2. /\ connected /\ Line = wire /\ Line' = Tail(wire) /\ wire # << >>
      /\ wire \in Seq(Sent) /\ pongs \in Seq(Waiters) /\ wire' = Tail(wire)
      /\ UNCHANGED <<connected, flags, outbound, dial, release, history, losses>>
  BY <1>1 DEF ServerTakes, Line, ClientTypeOK, Sent
<1>3. /\ Head(wire) \in Sent /\ wire' \in Seq(Sent)
      /\ \A n : Contains(Line, n) <=> Contains(Line', n) \/ n = Head(wire)
  BY <1>2, HeadTailProperties, TailHolds
<1>4. Shape'
  BY <1>1, <1>2 DEF Shape
<1>5. CASE Head(wire) = Ping
  <2>1. /\ pongs' = Tail(pongs) /\ Settle({Head(pongs)}, TRUE) /\ UNCHANGED received
        /\ UNCHANGED <<accepted, promised, dropped>>
    BY <1>2, <1>5 DEF ServerTakes, history
  <2>2. /\ pongs # << >>
        /\ Queued(Tail(pongs), Tail(wire), accepted, promised, Safe)
        /\ Head(pongs) = "drain" => accepted \subseteq Safe
        /\ Head(pongs) = "flush" => promised \subseteq Safe
    BY <1>1, <1>2, <1>5, LineType, QueuedAnswered
  <2>3. /\ Head(pongs) \in Waiters /\ pongs' \in Seq(Waiters)
        /\ \A w : Contains(pongs, w) <=> Contains(pongs', w) \/ w = Head(pongs)
    BY <1>2, <2>1, <2>2, HeadTailProperties, TailHolds
  <2>4. /\ sub' \in {sub, "closed"}
        /\ drain' = IF Head(pongs) = "drain" THEN "flushed" ELSE drain
        /\ flush' = IF Head(pongs) = "flush" THEN "ok" ELSE flush
    BY <2>1 DEF Settle
  <2>5. ClientTypeOK'
    BY <1>1, <1>2, <1>3, <2>1, <2>3, <2>4 DEF ClientTypeOK, flags, Sent, Promise
  <2>6. Barred' /\ Answered'
    BY <1>1, <1>2, <2>1, <2>2, <2>3, <2>4 DEF Barred, Answered, Safe, flags
  <2>7. Accounted'
    BY <1>1, <1>2, <1>3, <1>5, <2>1 DEF Accounted, Alive, Safe, Msgs, Ping, ClientTypeOK
  <2> QED BY <1>2, <1>4, <2>1, <2>2, <2>5, <2>6, <2>7 DEF ClientInv, Safe
<1>6. CASE Head(wire) # Ping
  <2>1. /\ received' = received \cup {Head(wire)} /\ UNCHANGED <<pongs, promises>>
        /\ UNCHANGED <<accepted, promised, dropped>>
    BY <1>2, <1>6 DEF ServerTakes, history
  <2>2. Head(wire) \in accepted
    BY <1>1, <1>3, <1>6 DEF Accounted, Sent
  <2>3. Safe' = Safe \cup {Head(wire)}
    BY <2>1 DEF Safe
  <2>4. ClientTypeOK'
    BY <1>1, <1>2, <1>3, <2>1, <2>2 DEF ClientTypeOK, flags, promises, Sent
  <2>5. Barred' /\ Answered'
    BY <1>1, <1>2, <2>1, <2>3 DEF Barred, Answered, flags, promises
  <2>6. Accounted'
    BY <1>1, <1>2, <1>3, <2>1, <2>3 DEF Accounted, Alive
  <2>7. Queued(pongs, Tail(wire), accepted, promised, Safe \cup {Head(wire)})
    BY <1>1, <1>2, <1>6, QueuedTaken
  <2> QED BY <1>2, <1>4, <2>1, <2>3, <2>4, <2>5, <2>6, <2>7 DEF ClientInv
<1> QED BY <1>5, <1>6

LEMMA ConnectionLostInv ==
  ASSUME ClientInv, ConnectionLost
  PROVE  ClientInv'
<1>1. ClientTypeOK /\ Shape /\ Barred /\ Accounted /\ Answered
  BY DEF ClientInv
<1>2. /\ connected /\ connected' = FALSE /\ wire' = << >> /\ losses' = losses + 1
      /\ losses < MaxLosses /\ dropped' = dropped \cup Published(wire)
      /\ UNCHANGED <<flags, outbound, pongs, promises, release, accepted, promised,
                     received>>
  BY DEF ConnectionLost
<1>3. dial'.at \in {"none", "loop"} /\ Line = wire /\ Line' = << >> /\ dial' \in DialState
  <2>1. dial' = IF closed THEN dial ELSE [NotDialling EXCEPT !.at = "loop"]
    BY DEF ConnectionLost
  <2>2. [NotDialling EXCEPT !.at = "loop"].at = "loop"
    BY DEF NotDialling
  <2> QED BY <1>1, <1>2, <2>1, <2>2, DialStates DEF Shape, Line
<1>4. \A n \in Msgs : n \in Published(wire) <=> Contains(Line, n)
  BY <1>3 DEF Published
<1>5. Published(wire) \subseteq accepted /\ accepted \subseteq Safe'
  <2>1. accepted \subseteq Msgs /\ Published(wire) \subseteq Msgs
    BY <1>1 DEF ClientTypeOK, Published
  <2> QED BY <1>1, <1>2, <1>4, <2>1 DEF Accounted, Alive, Safe
<1>6. ClientTypeOK'
  <2>1. wire' \in Seq(Msgs \cup {Ping})
    BY <1>2, EmptySeq
  <2>2. losses' \in 0 .. MaxLosses
    BY <1>1, <1>2, MaxLossesAssumption DEF ClientTypeOK
  <2>3. dropped' \subseteq accepted
    BY <1>1, <1>2, <1>5 DEF ClientTypeOK
  <2> QED BY <1>1, <1>2, <1>3, <2>1, <2>2, <2>3 DEF ClientTypeOK, DialState, flags, promises
<1>7. Shape' /\ Barred' /\ ~Ordered'
  BY <1>1, <1>2, <1>3 DEF Shape, Barred, Ordered, Attempting, flags, promises
<1>8. Accounted'
  BY <1>2, <1>3, <1>5 DEF Accounted, Contains
<1>9. Answered'
  BY <1>1, <1>2 DEF Answered, Safe, promises
<1> QED BY <1>6, <1>7, <1>8, <1>9 DEF ClientInv

LEMMA DialInv ==
  ASSUME ClientInv, Dial
  PROVE  ClientInv'
<1>1. ClientTypeOK /\ Shape /\ Barred /\ Accounted /\ Answered
  BY DEF ClientInv
<1>2. /\ dial.at = "lookup" /\ dial' = [dial EXCEPT !.at = "connect", !.aborted = FALSE]
      /\ outbound' = << >> /\ pongs' = << >>
      /\ dropped' = dropped \cup Published(outbound)
      /\ Settle(ToSet(pongs), FALSE)
      /\ UNCHANGED <<connected, flags, wire, release, accepted, promised, received,
                     losses>>
  BY DEF Dial
<1>3. ~connected /\ Line = outbound /\ Line' = << >> /\ Alive
  BY <1>1, <1>2 DEF Shape, Line, Alive
<1>4. /\ sub' \in {sub, "closed"} /\ drain' \in {drain, "failed"}
      /\ flush' \in {flush, "failed"}
  BY <1>2 DEF Settle
<1>5. \A n \in Msgs : n \in Published(outbound) <=> Contains(Line, n)
  BY <1>3 DEF Published
<1>6. Published(outbound) \subseteq accepted /\ accepted \subseteq Safe'
  <2>1. accepted \subseteq Msgs /\ Published(outbound) \subseteq Msgs
    BY <1>1 DEF ClientTypeOK, Published
  <2> QED BY <1>1, <1>2, <1>3, <1>5, <2>1 DEF Accounted, Safe
<1>7. /\ dial'.at = "connect" /\ dial'.attempts = dial.attempts
      /\ dial' \in DialState
  BY <1>1, <1>2, DialStates DEF DialState
<1>8. ClientTypeOK'
  <2>1. outbound' \in Seq(Msgs \cup {Ping}) /\ pongs' \in Seq(Waiters)
    BY <1>2, EmptySeq
  <2>2. dropped' \subseteq accepted
    BY <1>1, <1>2, <1>6 DEF ClientTypeOK
  <2> QED BY <1>1, <1>2, <1>4, <1>7, <2>1, <2>2 DEF ClientTypeOK, DialState, flags, Promise
<1>9. Shape' /\ Barred' /\ Answered'
  BY <1>1, <1>2, <1>3, <1>4, <1>7 DEF Shape, Barred, Answered, Safe, Contains, flags
<1>10. Accounted'
  BY <1>2, <1>3, <1>6 DEF Accounted, Contains
<1>11. Queued(pongs', Line', accepted', promised', Safe')
  BY <1>2, <1>3, QueuedEmpty
<1> QED BY <1>8, <1>9, <1>10, <1>11 DEF ClientInv

LEMMA ConnectedInv ==
  ASSUME ClientInv, Connected
  PROVE  ClientInv'
<1>1. ClientTypeOK /\ Shape /\ Barred /\ Accounted /\ Answered
  BY DEF ClientInv
<1>2. /\ dial.at = "handshake" /\ dial' = NotDialling /\ connected' = TRUE
      /\ wire' = outbound /\ outbound' = << >>
      /\ UNCHANGED <<flags, pongs, promises, release, history, received, losses>>
  BY DEF Connected
<1>3. ~connected /\ Line' = Line /\ Ordered /\ Alive
  BY <1>1, <1>2 DEF Shape, Line, Ordered, Attempting, Alive
<1>4. ClientTypeOK'
  <2>1. << >> \in Seq(Msgs \cup {Ping})
    BY EmptySeq
  <2> QED BY <1>1, <1>2, <2>1, DialStates
          DEF ClientTypeOK, DialState, flags, promises, history
<1>5. Shape' /\ Barred' /\ Answered'
  BY <1>1, <1>2 DEF Shape, Barred, Answered, Safe, NotDialling, flags, promises, history
<1>6. Accounted'
  BY <1>1, <1>2, <1>3 DEF Accounted, Safe, history
<1>7. Queued(pongs', Line', accepted', promised', Safe')
  BY <1>2, <1>3 DEF ClientInv, Safe, history
<1> QED BY <1>4, <1>5, <1>6, <1>7 DEF ClientInv

LEMMA InitInv == Init => ClientInv
<1> SUFFICES ASSUME Init PROVE ClientInv
  OBVIOUS
<1>1. ClientTypeOK
  <2>1. << >> \in Seq(Msgs \cup {Ping}) /\ << >> \in Seq(Waiters)
    BY EmptySeq
  <2>2. 0 \in 0 .. MaxLosses
    BY MaxLossesAssumption
  <2> QED BY <2>1, <2>2, DialStates DEF Init, ClientTypeOK, DialState, Promise
<1>2. Shape /\ Barred /\ Accounted /\ Answered /\ Line = << >>
  BY DEF Init, Shape, Barred, Accounted, Answered, Line, Contains, NotDialling
<1>3. Queued(pongs, Line, accepted, promised, Safe)
  BY <1>2, QueuedEmpty DEF Init
<1> QED BY <1>1, <1>2, <1>3 DEF ClientInv

LEMMA NextInv == ClientInv /\ [Next]_vars => ClientInv'
<1> SUFFICES ASSUME ClientInv, [Next]_vars PROVE ClientInv'
  OBVIOUS
<1>1. CASE DrainCloses \/ ReleaseCloses
  <2>1. DrainCloses => drain = "flushed" /\ drain' = "done"
    BY DEF DrainCloses
  <2> QED BY <1>1, <2>1, CloseInv DEF DrainCloses, ReleaseCloses
<1>2. CASE UNCHANGED vars
  <2>1. UNCHANGED <<connected, closed, draining, noMorePublishing, outbound, wire, pongs,
                    dial, sub, drain, flush, release, accepted, promised, dropped,
                    received, losses>>
    BY <1>2 DEF vars, flags, buffers, promises, history
  <2>2. ClientTypeOK'
    BY <2>1 DEF ClientInv, ClientTypeOK
  <2> QED BY <2>1, <2>2, QuietInv
          DEF ClientInv, Shape, Ordered, Attempting, Alive, buffers, history
<1> QED BY <1>1, <1>2, PublishInv, FlushInv, ReleaseInv, ServerTakesInv,
           ConnectionLostInv, SubscriptionsDrainedInv, LoopInv, DialInv, ConnectedInv
        DEF Next, Drain, Finish, Loop, Attempt

\* Each PONG is for the oldest PING on the line, and no message gets lost unnoticed
\* while the connection can still come back.
THEOREM ClientInvariance == Spec => []ClientInv
<1> QED BY InitInv, NextInv, PTL DEF Spec

\* The state of a connection is what its fields are declared to hold; above all,
\* the server never answers a PING that nobody waits for.
THEOREM ClientTypeCorrect == Spec => []ClientTypeOK
<1>1. ClientInv => ClientTypeOK
  BY DEF ClientInv
<1> QED BY <1>1, ClientInvariance, PTL

\* When drain() or flush() is answered, the server has the messages it is about,
\* whatever connections were lost, dialled and closed meanwhile (publish, drain,
\* flush).
THEOREM ClosingLosesNothing == Spec => []AnsweredMeansReceived
<1>1. ClientInv => AnsweredMeansReceived
  BY DEF ClientInv, Answered, Safe, AnsweredMeansReceived
<1> QED BY <1>1, ClientInvariance, PTL
=============================================================================
