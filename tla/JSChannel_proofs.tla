---------------------------- MODULE JSChannel_proofs ----------------------------
(***************************************************************************)
(* Proofs about jschannel: between a page and a frame, whatever they send  *)
(* and however often they call, no call ends twice, nothing goes before    *)
(* the handshake, and an answer comes after the callbacks it owes.         *)
(*                                                                         *)
(* ChannelInv says of each direction what is on its way and what is kept:  *)
(* its order, the calls that its requests and answers belong to, and that  *)
(* they were made once.  The module is about MCExchanges, where the        *)
(* channel is one of the parts.                                            *)
(***************************************************************************)
EXTENDS Integers, Sequences, MCExchanges, FiniteSetTheorems, TLAPS
--------------------------------------------------------------------------------
\* What travels between the page and its frame.
Args == {"ping", "pong", "method", "setState", "getGrade", "getState", "result", "error", "timeout", ""} \cup Int
Messages == [kind : {"ready", "request", "callback", "answer"}, id : Int, arg : Args]
Queues == Seq(Messages)

\* The messages of a queue; no two of its requests have the same id; one of A comes before each of B.
In(q) == {q[i] : i \in DOMAIN q}
\* The order of messages, and the ids of those of a kind.
Once(q, kind) ==
    \A i, j \in DOMAIN q : i # j /\ q[i].kind = kind /\ q[j].kind = kind => q[i].id # q[j].id
Ids(q, kind) == {m.id : m \in {n \in In(q) : n.kind = kind}}
Before(q, A, B) == \E i \in DOMAIN q : q[i] \in A /\ \A j \in DOMAIN q : q[j] \in B => i < j
--------------------------------------------------------------------------------
\* What a queue has when a message was appended.
LEMMA Appended ==
    ASSUME NEW q \in Queues, NEW m \in Messages
    PROVE  LET d == Append(q, m)
           IN  /\ d \in Queues /\ d # <<>> /\ In(d) = In(q) \cup {m}
               /\ Head(d) = IF q = <<>> THEN m ELSE Head(q)
               /\ Ids(d, m.kind) = Ids(q, m.kind) \cup {m.id}
               /\ \A kind : kind # m.kind => Ids(d, kind) = Ids(q, kind)
               /\ \A kind : Once(q, kind) /\ (m.kind = kind => m.id \notin Ids(q, kind)) => Once(d, kind)
<1> DEFINE d == Append(q, m)
<1>1. /\ d \in Queues /\ d # <<>> /\ Len(d) = Len(q) + 1 /\ d[Len(q) + 1] = m
      /\ \A i \in 1 .. Len(q) : d[i] = q[i]
      /\ DOMAIN d = 1 .. Len(d) /\ DOMAIN q = 1 .. Len(q) /\ Len(q) \in Nat
  BY DEF Queues
<1> HIDE DEF d
<1>2. In(d) = In(q) \cup {m}
  <2>1. ASSUME NEW n \in In(d)
        PROVE  n \in In(q) \cup {m}
    BY <1>1 DEF In
  <2>2. ASSUME NEW n \in In(q) \cup {m}
        PROVE  n \in In(d)
    BY <1>1 DEF In
  <2> QED
    BY <2>1, <2>2
<1>3. Head(d) = IF q = <<>> THEN m ELSE Head(q)
  <2>1. CASE q = <<>>
    BY <1>1, <2>1 DEF Queues
  <2>2. CASE q # <<>>
    BY <1>1, <2>2 DEF Queues
  <2> QED
    BY <2>1, <2>2
<1>4. ASSUME NEW kind, Once(q, kind), m.kind = kind => m.id \notin Ids(q, kind)
      PROVE  Once(d, kind)
  <2>1. \A i \in 1 .. Len(q) : q[i].kind = kind => q[i].id \in Ids(q, kind)
    BY <1>1 DEF Ids, In
  <2> QED
    BY <1>1, <1>4, <2>1 DEF Once
<1>5. Ids(d, m.kind) = Ids(q, m.kind) \cup {m.id} /\ \A kind : kind # m.kind => Ids(d, kind) = Ids(q, kind)
  BY <1>2 DEF Ids
<1> QED
  BY <1>1, <1>2, <1>3, <1>4, <1>5 DEF d

\* What comes before something else still does, and a new message comes after all the others.
LEMMA AppendedBefore ==
    ASSUME NEW q \in Queues, NEW m \in Messages, NEW A, NEW B
    PROVE  /\ Before(q, A, B) => Before(Append(q, m), A, B)
           /\ m \in A /\ m \notin B /\ In(q) \cap B = {} => Before(Append(q, m), A, B)
           /\ m \in B /\ In(q) \cap B = {} /\ In(q) \cap A # {} => Before(Append(q, m), A, B)
<1> DEFINE d == Append(q, m)
<1>1. /\ Len(d) = Len(q) + 1 /\ d[Len(q) + 1] = m
      /\ \A i \in 1 .. Len(q) : d[i] = q[i]
      /\ DOMAIN d = 1 .. Len(d) /\ DOMAIN q = 1 .. Len(q) /\ Len(q) \in Nat
  BY DEF Queues
<1> HIDE DEF d
<1>2. ASSUME Before(q, A, B)
      PROVE  Before(d, A, B)
  <2>1. PICK i \in DOMAIN q : q[i] \in A /\ \A j \in DOMAIN q : q[j] \in B => i < j
    BY <1>2 DEF Before
  <2>2. i \in DOMAIN d /\ d[i] \in A
    BY <1>1, <2>1
  <2>3. ASSUME NEW j \in DOMAIN d, d[j] \in B
        PROVE  i < j
    BY <1>1, <2>1, <2>3
  <2> QED
    BY <2>2, <2>3 DEF Before
<1>3. ASSUME m \in A, m \notin B, In(q) \cap B = {}
      PROVE  Before(d, A, B)
  <2>1. \A j \in DOMAIN d : d[j] \notin B
    BY <1>1, <1>3 DEF In
  <2>2. Len(q) + 1 \in DOMAIN d /\ d[Len(q) + 1] \in A
    BY <1>1, <1>3
  <2> QED
    BY <2>1, <2>2 DEF Before
<1>4. ASSUME m \in B, In(q) \cap B = {}, In(q) \cap A # {}
      PROVE  Before(d, A, B)
  <2>1. PICK i \in DOMAIN q : q[i] \in A
    BY <1>4 DEF In
  <2>2. i \in DOMAIN d /\ d[i] \in A
    BY <1>1, <2>1
  <2>3. ASSUME NEW j \in DOMAIN d, d[j] \in B
        PROVE  i < j
    <3>1. j = Len(q) + 1
      BY <1>1, <1>4, <2>3 DEF In
    <3> QED
      BY <1>1, <3>1
  <2> QED
    BY <2>2, <2>3 DEF Before
<1> QED
  BY <1>2, <1>3, <1>4 DEF d

\* The first message is taken: the others stay in their order.
LEMMA Taken ==
    ASSUME NEW q \in Queues, q # <<>>
    PROVE  LET d == Tail(q)
           IN  /\ d \in Queues /\ Head(q) \in Messages /\ Head(q) \in In(q)
               /\ In(q) = In(d) \cup {Head(q)}
               /\ Head(q).id \in Ids(q, Head(q).kind)
               /\ \A kind : Ids(d, kind) \subseteq Ids(q, kind)
               /\ \A kind : Once(q, kind) =>
                    Once(d, kind) /\ (Head(q).kind = kind => Head(q).id \notin Ids(d, kind))
<1> DEFINE d == Tail(q)
<1>1. /\ d \in Queues /\ Head(q) \in Messages /\ Len(q) \in Nat \ {0} /\ Len(d) = Len(q) - 1
      /\ Head(q) = q[1] /\ \A i \in 1 .. Len(d) : d[i] = q[i + 1]
      /\ DOMAIN d = 1 .. Len(d) /\ DOMAIN q = 1 .. Len(q)
  BY DEF Queues
<1> HIDE DEF d
<1>2. Head(q) \in In(q)
  BY <1>1 DEF In
<1>3. In(q) = In(d) \cup {Head(q)}
  <2>1. ASSUME NEW n \in In(q)
        PROVE  n \in In(d) \cup {Head(q)}
    <3>1. PICK i \in 1 .. Len(q) : n = q[i]
      BY <1>1 DEF In
    <3>2. CASE i = 1
      BY <1>1, <3>1, <3>2
    <3>3. CASE i # 1
      <4>1. i - 1 \in 1 .. Len(d) /\ d[i - 1] = q[i]
        BY <1>1, <3>1, <3>3
      <4> QED
        BY <1>1, <3>1, <4>1 DEF In
    <3> QED
      BY <3>2, <3>3
  <2>2. ASSUME NEW n \in In(d)
        PROVE  n \in In(q)
    <3>1. PICK i \in 1 .. Len(d) : n = d[i]
      BY <1>1, <2>2 DEF In
    <3>2. i + 1 \in 1 .. Len(q) /\ q[i + 1] = n
      BY <1>1, <3>1
    <3> QED
      BY <1>1, <3>2 DEF In
  <2> QED
    BY <1>2, <2>1, <2>2
<1>4. ASSUME NEW kind, Once(q, kind)
      PROVE  Once(d, kind) /\ (Head(q).kind = kind => Head(q).id \notin Ids(d, kind))
  <2>1. Once(d, kind)
    <3> SUFFICES ASSUME NEW i \in DOMAIN d, NEW j \in DOMAIN d,
                        i # j, d[i].kind = kind, d[j].kind = kind
                 PROVE  d[i].id # d[j].id
      BY DEF Once
    <3>1. /\ i + 1 \in DOMAIN q /\ j + 1 \in DOMAIN q /\ i + 1 # j + 1
          /\ d[i] = q[i + 1] /\ d[j] = q[j + 1]
      BY <1>1
    <3> QED
      BY <1>4, <3>1 DEF Once
  <2>2. ASSUME Head(q).kind = kind, Head(q).id \in Ids(d, kind)
        PROVE  FALSE
    <3>1. PICK i \in 1 .. Len(d) : d[i].kind = kind /\ d[i].id = Head(q).id
      BY <1>1, <2>2 DEF Ids, In
    <3>2. /\ i + 1 \in DOMAIN q /\ 1 \in DOMAIN q /\ i + 1 # 1
          /\ d[i] = q[i + 1] /\ Head(q) = q[1]
      BY <1>1, <3>1
    <3> QED
      BY <1>4, <2>2, <3>1, <3>2 DEF Once
  <2> QED
    BY <2>1, <2>2
<1>5. Head(q).id \in Ids(q, Head(q).kind) /\ \A kind : Ids(d, kind) \subseteq Ids(q, kind)
  BY <1>2, <1>3 DEF Ids
<1> QED
  BY <1>1, <1>2, <1>3, <1>4, <1>5 DEF d

\* What comes before something else still does when the first message was taken, unless it was that one.
LEMMA TakenBefore ==
    ASSUME NEW q \in Queues, q # <<>>, NEW A, NEW B, Before(q, A, B)
    PROVE  /\ Head(q) \notin B
           /\ Head(q) \notin A => Before(Tail(q), A, B)
<1> DEFINE d == Tail(q)
<1>1. /\ Len(q) \in Nat \ {0} /\ Len(d) = Len(q) - 1
      /\ Head(q) = q[1] /\ \A i \in 1 .. Len(d) : d[i] = q[i + 1]
      /\ DOMAIN d = 1 .. Len(d) /\ DOMAIN q = 1 .. Len(q)
  BY DEF Queues
<1> HIDE DEF d
<1>2. PICK i \in DOMAIN q : q[i] \in A /\ \A j \in DOMAIN q : q[j] \in B => i < j
  BY DEF Before
<1>3. Head(q) \notin B
  BY <1>1, <1>2
<1>4. ASSUME Head(q) \notin A
      PROVE  Before(d, A, B)
  <2>1. i # 1 /\ i - 1 \in 1 .. Len(d) /\ d[i - 1] = q[i]
    BY <1>1, <1>2, <1>4
  <2>2. ASSUME NEW j \in DOMAIN d, d[j] \in B
        PROVE  i - 1 < j
    <3>1. j + 1 \in DOMAIN q /\ q[j + 1] \in B
      BY <1>1, <2>2
    <3> QED
      BY <1>1, <1>2, <3>1
  <2> QED
    BY <1>1, <1>2, <2>1, <2>2 DEF Before
<1> QED
  BY <1>3, <1>4 DEF d

\* What was queued is sent, the last first.
LEMMA Flushed ==
    ASSUME NEW q \in Queues, NEW p \in Queues
    PROVE  LET d == q \o Channel!Reverse(p)
           IN  /\ d \in Queues /\ In(d) = In(q) \cup In(p)
               /\ q # <<>> => d # <<>> /\ Head(d) = Head(q)
               /\ \A kind : Ids(d, kind) = Ids(q, kind) \cup Ids(p, kind)
               /\ \A kind : Once(q, kind) /\ Once(p, kind) /\ Ids(q, kind) \cap Ids(p, kind) = {}
                                => Once(d, kind)
<1> DEFINE r == Channel!Reverse(p)
           d == q \o r
<1>1. /\ r \in Queues /\ Len(r) = Len(p) /\ DOMAIN r = 1 .. Len(p) /\ DOMAIN p = 1 .. Len(p)
      /\ Len(p) \in Nat /\ \A i \in 1 .. Len(p) : r[i] = p[Len(p) - i + 1]
  BY DEF Queues, Channel!Reverse
<1> HIDE DEF r
<1>2. /\ d \in Queues /\ Len(d) = Len(q) + Len(p) /\ DOMAIN d = 1 .. Len(d) /\ DOMAIN q = 1 .. Len(q)
      /\ Len(q) \in Nat /\ \A i \in 1 .. Len(q) : d[i] = q[i]
      /\ \A i \in 1 .. Len(p) : d[Len(q) + i] = r[i]
  <2>1. d = q \o r /\ r \in Queues
    BY <1>1
  <2>2. d \in Queues /\ Len(q) \in Nat /\ Len(d) = Len(q) + Len(r)
    BY <2>1 DEF Queues
  <2>3. ASSUME NEW i \in 1 .. Len(q)
        PROVE  d[i] = q[i]
    BY <2>1 DEF Queues
  <2>4. ASSUME NEW i \in 1 .. Len(p)
        PROVE  d[Len(q) + i] = r[i]
    BY <1>1, <2>1 DEF Queues
  <2>5. DOMAIN d = 1 .. Len(d) /\ DOMAIN q = 1 .. Len(q)
    BY <2>2 DEF Queues
  <2> QED
    BY <1>1, <2>2, <2>3, <2>4, <2>5
<1> HIDE DEF d
<1>3. /\ \A i \in 1 .. Len(p) : d[Len(q) + Len(p) - i + 1] = p[i]
      /\ \A i \in Len(q) + 1 .. Len(d) : d[i] = p[Len(d) - i + 1] /\ Len(d) - i + 1 \in 1 .. Len(p)
  <2>1. ASSUME NEW i \in 1 .. Len(p)
        PROVE  d[Len(q) + Len(p) - i + 1] = p[i]
    <3>1. Len(p) - i + 1 \in 1 .. Len(p) /\ Len(p) - (Len(p) - i + 1) + 1 = i
      BY <1>1
    <3>2. r[Len(p) - i + 1] = p[i]
      BY <1>1, <3>1
    <3>3. d[Len(q) + (Len(p) - i + 1)] = r[Len(p) - i + 1]
      BY <1>2, <3>1
    <3>4. Len(q) + (Len(p) - i + 1) = Len(q) + Len(p) - i + 1
      BY <1>1, <1>2
    <3> QED
      BY <3>2, <3>3, <3>4
  <2>2. ASSUME NEW i \in Len(q) + 1 .. Len(d)
        PROVE  d[i] = p[Len(d) - i + 1] /\ Len(d) - i + 1 \in 1 .. Len(p)
    <3>1. /\ Len(d) - i + 1 \in 1 .. Len(p)
          /\ Len(q) + Len(p) - (Len(d) - i + 1) + 1 = i
      BY <1>1, <1>2
    <3> QED
      BY <2>1, <3>1
  <2> QED
    BY <2>1, <2>2
<1>4. In(d) = In(q) \cup In(p)
  <2>1. ASSUME NEW n \in In(d)
        PROVE  n \in In(q) \cup In(p)
    <3>1. PICK i \in 1 .. Len(d) : n = d[i]
      BY <1>2 DEF In
    <3>2. CASE i \in 1 .. Len(q)
      BY <1>2, <3>1, <3>2 DEF In
    <3>3. CASE i \notin 1 .. Len(q)
      <4>1. i \in Len(q) + 1 .. Len(d)
        BY <1>2, <3>1, <3>3
      <4> QED
        BY <1>1, <1>3, <3>1, <4>1 DEF In
    <3> QED
      BY <3>2, <3>3
  <2>2. ASSUME NEW n \in In(q)
        PROVE  n \in In(d)
    <3>1. PICK i \in 1 .. Len(q) : n = q[i]
      BY <1>2 DEF In
    <3>2. i \in 1 .. Len(d) /\ d[i] = n
      BY <1>1, <1>2, <3>1
    <3> QED
      BY <1>2, <3>2 DEF In
  <2>3. ASSUME NEW n \in In(p)
        PROVE  n \in In(d)
    <3>1. PICK i \in 1 .. Len(p) : n = p[i]
      BY <1>1 DEF In
    <3>2. Len(q) + Len(p) - i + 1 \in 1 .. Len(d)
      BY <1>1, <1>2, <3>1
    <3> QED
      BY <1>2, <1>3, <3>1, <3>2 DEF In
  <2> QED
    BY <2>1, <2>2, <2>3
<1>5. ASSUME q # <<>>
      PROVE  d # <<>> /\ Head(d) = Head(q)
  <2>1. Len(q) >= 1 /\ Head(q) = q[1]
    BY <1>5 DEF Queues
  <2>2. Len(d) >= 1 /\ d[1] = q[1]
    BY <1>1, <1>2, <2>1
  <2> QED
    BY <1>2, <2>1, <2>2 DEF Queues
<1>6. ASSUME NEW kind, Once(q, kind), Once(p, kind), Ids(q, kind) \cap Ids(p, kind) = {}
      PROVE  Once(d, kind)
  <2>1. \A i \in 1 .. Len(q) : q[i].kind = kind => q[i].id \in Ids(q, kind)
    BY <1>2 DEF Ids, In
  <2>2. \A i \in 1 .. Len(p) : p[i].kind = kind => p[i].id \in Ids(p, kind)
    BY <1>1 DEF Ids, In
  <2> SUFFICES ASSUME NEW i \in 1 .. Len(d), NEW j \in 1 .. Len(d),
                      i # j, d[i].kind = kind, d[j].kind = kind
               PROVE  d[i].id # d[j].id
    BY <1>2 DEF Once
  <2>3. CASE i \in 1 .. Len(q) /\ j \in 1 .. Len(q)
    BY <1>2, <1>6, <2>3 DEF Once
  <2>4. CASE i \in Len(q) + 1 .. Len(d) /\ j \in Len(q) + 1 .. Len(d)
    <3> DEFINE a == Len(d) - i + 1
               b == Len(d) - j + 1
    <3>1. a # b
      BY <1>1, <1>2
    <3>2. a \in DOMAIN p /\ b \in DOMAIN p /\ d[i] = p[a] /\ d[j] = p[b]
      BY <1>1, <1>3, <2>4
    <3> HIDE DEF a, b
    <3> QED
      BY <1>6, <3>1, <3>2 DEF Once
  <2>5. CASE i \in 1 .. Len(q) /\ j \in Len(q) + 1 .. Len(d)
    <3>1. d[i].id \in Ids(q, kind)
      BY <1>2, <2>1, <2>5
    <3>2. d[j].id \in Ids(p, kind)
      BY <1>3, <2>2, <2>5
    <3> QED
      BY <1>6, <3>1, <3>2
  <2>6. CASE j \in 1 .. Len(q) /\ i \in Len(q) + 1 .. Len(d)
    <3>1. d[j].id \in Ids(q, kind)
      BY <1>2, <2>1, <2>6
    <3>2. d[i].id \in Ids(p, kind)
      BY <1>3, <2>2, <2>6
    <3> QED
      BY <1>6, <3>1, <3>2
  <2>7. /\ i \in 1 .. Len(q) \/ i \in Len(q) + 1 .. Len(d)
        /\ j \in 1 .. Len(q) \/ j \in Len(q) + 1 .. Len(d)
    BY <1>1, <1>2
  <2> QED
    BY <2>3, <2>4, <2>5, <2>6, <2>7
<1>7. \A kind : Ids(d, kind) = Ids(q, kind) \cup Ids(p, kind)
  BY <1>4 DEF Ids
<1> QED
  BY <1>2, <1>4, <1>5, <1>6, <1>7 DEF d, r

\* What comes before something else still does when what was queued is sent after them.
LEMMA FlushedBefore ==
    ASSUME NEW q \in Queues, NEW p \in Queues, NEW A, NEW B, Before(q, A, B)
    PROVE  Before(q \o Channel!Reverse(p), A, B)
<1> DEFINE r == Channel!Reverse(p)
           d == q \o r
<1>1. r \in Queues /\ Len(r) \in Nat
  BY DEF Queues, Channel!Reverse
<1> HIDE DEF r
<1>2. /\ Len(d) = Len(q) + Len(r) /\ DOMAIN d = 1 .. Len(d) /\ DOMAIN q = 1 .. Len(q)
      /\ Len(q) \in Nat /\ \A i \in 1 .. Len(q) : d[i] = q[i]
  BY <1>1 DEF Queues
<1> HIDE DEF d
<1>3. PICK i \in 1 .. Len(q) : q[i] \in A /\ \A j \in DOMAIN q : q[j] \in B => i < j
  BY <1>2 DEF Before
<1>4. i \in DOMAIN d /\ d[i] \in A
  BY <1>1, <1>2, <1>3
<1>5. ASSUME NEW j \in DOMAIN d, d[j] \in B
      PROVE  i < j
  <2>1. CASE j \in 1 .. Len(q)
    BY <1>2, <1>3, <1>5, <2>1
  <2>2. CASE j \notin 1 .. Len(q)
    BY <1>1, <1>2, <1>3, <2>2
  <2> QED
    BY <2>1, <2>2
<1>6. Before(d, A, B)
  BY <1>4, <1>5 DEF Before
<1> QED
  BY <1>6 DEF d, r
--------------------------------------------------------------------------------
Sides == Channel!Sides
\* The windows of the channel, the histories, and a channel whose parts are these.
Windows == [bound : BOOLEAN, pinged : BOOLEAN, ready : BOOLEAN, registered : BOOLEAN,
            pendingQueue : Queues, outTbl : SUBSET Int, inTbl : SUBSET Int, s_curTranId : Int,
            s_transIds : SUBSET Int, timers : SUBSET Int]
Logs == [asked : SUBSET Int, ended : Seq(Int \X Args), invoked : SUBSET Int, heard : SUBSET Int]
Wired(s) ==
    /\ {"page", "frame", "to", "log"} \subseteq DOMAIN s
    /\ s.to \in [Sides -> Queues] /\ s.log \in [Sides -> Logs]
    /\ \A w \in Sides : s[w] \in Windows

\* What is kept beside the windows, the queues and the histories.
Beside(s, d) == DOMAIN d = DOMAIN s /\ \A f \in DOMAIN s \ {"page", "frame", "to", "log"} : d[f] = s[f]

\* A side's window, what is on its way to it and to the other, and its history.
Changed(s, w, x, p, q, l) ==
    [s EXCEPT ![w] = x, !.to = [v \in Sides |-> IF v = w THEN p ELSE q], !.log[w] = l]

\* The two sides of a channel.
LEMMA OtherSide ==
    ASSUME NEW w \in Sides
    PROVE  /\ Channel!Other(w) \in Sides /\ Channel!Other(w) # w
           /\ Channel!Other(Channel!Other(w)) = w /\ Sides = {w, Channel!Other(w)}
           /\ w # "to" /\ w # "log"
BY DEF Sides, Channel!Sides, Channel!Other

\* One side's window, the two queues and its history change: the rest of the channel stays.
LEMMA Changes ==
    ASSUME NEW s, Wired(s), NEW w \in Sides, NEW x \in Windows, NEW p \in Queues, NEW q \in Queues, NEW l \in Logs
    PROVE  LET d == Changed(s, w, x, p, q, l)
               o == Channel!Other(w)
           IN  /\ Wired(d) /\ Beside(s, d)
               /\ d[w] = x /\ d.to[w] = p /\ d.to[o] = q /\ d.log[w] = l
               /\ d[o] = s[o] /\ d.log[o] = s.log[o]
<1> DEFINE o == Channel!Other(w)
           d == Changed(s, w, x, p, q, l)
<1>1. o \in Sides /\ o # w /\ w # "to" /\ w # "log" /\ Sides = {w, o} /\ o # "to" /\ o # "log"
      /\ Sides = {"page", "frame"}
  BY OtherSide DEF Sides, Channel!Sides
<1>2. s[o] \in Windows /\ w \in DOMAIN s /\ o \in DOMAIN s /\ s.log[o] \in Logs
  BY <1>1 DEF Wired
<1> HIDE DEF o
<1>3. d.to = [v \in Sides |-> IF v = w THEN p ELSE q] /\ d.log = [s.log EXCEPT ![w] = l]
      /\ d[o] = s[o] /\ d[w] = x /\ DOMAIN d = DOMAIN s
  BY <1>1, <1>2 DEF Wired, Changed
<1>4. Beside(s, d)
  BY <1>1 DEF Beside, Changed
<1> HIDE DEF d
<1>5. d.to[w] = p /\ d.to[o] = q /\ d.log[w] = l /\ d.log[o] = s.log[o]
  BY <1>1, <1>2, <1>3 DEF Wired
<1>6. Wired(d)
  <2>1. d.to \in [Sides -> Queues] /\ d.log \in [Sides -> Logs]
    BY <1>1, <1>3 DEF Wired
  <2>2. \A v \in Sides : d[v] \in Windows
    BY <1>1, <1>2, <1>3
  <2> QED
    BY <1>3, <2>1, <2>2 DEF Wired
<1> QED
  BY <1>3, <1>4, <1>5, <1>6 DEF o, d

\* The parts of a channel.
LEMMA Parts ==
    ASSUME NEW s, Wired(s), NEW w \in Sides
    PROVE  /\ s[w] \in Windows /\ s.to[w] \in Queues /\ s.to[Channel!Other(w)] \in Queues
           /\ s[Channel!Other(w)] \in Windows
           /\ s.log[w] \in Logs /\ s.log[Channel!Other(w)] \in Logs /\ w \in DOMAIN s
BY OtherSide DEF Wired, Sides, Channel!Sides

\* Of two changes of the same things the last one counts.
LEMMA ChangedTwice ==
    ASSUME NEW s, Wired(s), NEW w \in Sides, NEW x, NEW p, NEW q, NEW l, NEW y, NEW u, NEW v, NEW k
    PROVE  Changed(Changed(s, w, x, p, q, l), w, y, u, v, k) = Changed(s, w, y, u, v, k)
<1>1. w \in DOMAIN s /\ w # "to" /\ w # "log" /\ "to" \in DOMAIN s /\ "log" \in DOMAIN s /\ w \in DOMAIN s.log
  BY OtherSide DEF Wired, Sides, Channel!Sides
<1> QED
  BY <1>1 DEF Changed
--------------------------------------------------------------------------------
\* A message that is posted waits, or is on its way.
Waiting(x, m) == IF x.ready THEN x ELSE [x EXCEPT !.pendingQueue = Append(@, m)]
Going(x, q, m) == IF x.ready THEN Append(q, m) ELSE q

\* build, as a change of one side.
LEMMA Builds ==
    ASSUME NEW s, Wired(s), NEW w \in Sides
    PROVE  Channel!build(s, w) =
             Changed(s, w, [s[w] EXCEPT !.bound = TRUE, !.registered = TRUE, !.ready = FALSE],
                     s.to[w], s.to[Channel!Other(w)], s.log[w])
<1> DEFINE o == Channel!Other(w)
<1>1. w \in DOMAIN s /\ w # "to" /\ w # "log" /\ Sides = {w, o} /\ o # w /\ s[w] \in Windows
      /\ DOMAIN s.to = Sides /\ DOMAIN s.log = Sides
  BY OtherSide, Parts DEF Wired
<1> HIDE DEF o
<1>2. s.to = [v \in Sides |-> IF v = w THEN s.to[w] ELSE s.to[o]]
  BY <1>1 DEF Wired
<1>3. s.log = [s.log EXCEPT ![w] = s.log[w]]
  BY <1>1 DEF Wired
<1> QED
  BY <1>1, <1>2, <1>3 DEF Channel!build, Changed, o, Windows

\* A queue to each side.
LEMMA TwoSided ==
    ASSUME NEW w \in Sides, NEW t \in [Sides -> Queues], NEW q
    PROVE  [t EXCEPT ![Channel!Other(w)] = q] = [v \in Sides |-> IF v = w THEN t[w] ELSE q]
<1> DEFINE o == Channel!Other(w)
<1>1. o \in Sides /\ o # w /\ Sides = {w, o}
  BY OtherSide
<1> HIDE DEF o
<1>2. [t EXCEPT ![o] = q] = [v \in Sides |-> IF v = w THEN t[w] ELSE q]
  BY <1>1
<1> QED
  BY <1>2 DEF o

\* transmit, as a change of one side.
LEMMA Transmits ==
    ASSUME NEW s, Wired(s), NEW w \in Sides, NEW m
    PROVE  Channel!transmit(s, w, m) =
             Changed(s, w, s[w], s.to[w], Append(s.to[Channel!Other(w)], m), s.log[w])
<1> DEFINE o == Channel!Other(w)
<1>1. w \in DOMAIN s /\ w # "to" /\ w # "log" /\ Sides = {w, o} /\ o # w /\ s[w] \in Windows
      /\ DOMAIN s.to = Sides /\ DOMAIN s.log = Sides
  BY OtherSide, Parts DEF Wired
<1>4. Channel!transmit(s, w, m) = [s EXCEPT !.to[o] = Append(@, m)]
  BY DEF Channel!transmit
<1> HIDE DEF o
<1>2. [s.to EXCEPT ![o] = Append(@, m)] = [v \in Sides |-> IF v = w THEN s.to[w] ELSE Append(s.to[o], m)]
  BY <1>1 DEF Wired
<1>3. s.log = [s.log EXCEPT ![w] = s.log[w]]
  BY <1>1 DEF Wired
<1> QED
  BY <1>1, <1>2, <1>3, <1>4 DEF Changed, o
\* postMessage, as a change of one side.
LEMMA Posts ==
    ASSUME NEW s, Wired(s), NEW w \in Sides, NEW m
    PROVE  Channel!postMessage(s, w, m) =
             Changed(s, w, Waiting(s[w], m), s.to[w], Going(s[w], s.to[Channel!Other(w)], m), s.log[w])
<1> DEFINE o == Channel!Other(w)
<1>1. w \in DOMAIN s /\ w # "to" /\ w # "log" /\ Sides = {w, o} /\ o # w /\ s[w] \in Windows
      /\ DOMAIN s.to = Sides /\ DOMAIN s.log = Sides /\ DOMAIN s[w] = DOMAIN [s[w] EXCEPT !.pendingQueue = 0]
  BY OtherSide, Parts DEF Wired
<1>2. CASE s[w].ready
  BY <1>2, Transmits DEF Channel!postMessage, Waiting, Going
<1>3. CASE ~s[w].ready
  <2> HIDE DEF o
  <2>1. s.to = [v \in Sides |-> IF v = w THEN s.to[w] ELSE s.to[o]]
    BY <1>1 DEF Wired
  <2>2. s.log = [s.log EXCEPT ![w] = s.log[w]]
    BY <1>1 DEF Wired
  <2>3. Channel!postMessage(s, w, m) = [s EXCEPT ![w] = [s[w] EXCEPT !.pendingQueue = Append(@, m)]]
    BY <1>1, <1>3 DEF Channel!postMessage, Windows
  <2> QED
    BY <1>1, <1>3, <2>1, <2>2, <2>3 DEF Changed, o, Waiting, Going
<1> QED
  BY <1>2, <1>3

\* The types of what is posted.
LEMMA PostedTypes ==
    ASSUME NEW x \in Windows, NEW q \in Queues, NEW m \in Messages
    PROVE  Waiting(x, m) \in Windows /\ Going(x, q, m) \in Queues
<1>1. Append(x.pendingQueue, m) \in Queues /\ Append(q, m) \in Queues
  BY DEF Windows, Queues
<1> QED
  BY <1>1 DEF Waiting, Going, Windows

\* What is posted after other changes.
LEMMA PostsChanged ==
    ASSUME NEW s, Wired(s), NEW w \in Sides, NEW x \in Windows, NEW p \in Queues, NEW q \in Queues, NEW l \in Logs,
           NEW m
    PROVE  Channel!postMessage(Changed(s, w, x, p, q, l), w, m) = Changed(s, w, Waiting(x, m), p, Going(x, q, m), l)
<1> DEFINE d == Changed(s, w, x, p, q, l)
<1>1. /\ Wired(d) /\ d[w] = x /\ d.to[w] = p /\ d.to[Channel!Other(w)] = q /\ d.log[w] = l
  BY Changes
<1>2. Channel!postMessage(d, w, m) = Changed(d, w, Waiting(x, m), p, Going(x, q, m), l)
  <2> HIDE DEF d
  <2> QED
    BY <1>1, Posts
<1> QED
  BY <1>2, ChangedTwice

\* A window when its peer is ready.
Opened(x) == [x EXCEPT !.registered = FALSE, !.ready = TRUE, !.pendingQueue = <<>>]

\* onReady, as a change of one side.
LEMMA Readies ==
    ASSUME NEW s, Wired(s), NEW w \in Sides, NEW type
    PROVE  Channel!onReady(s, w, type) =
             Changed(s, w, Opened(s[w]), s.to[w],
                     (IF type = "ping" THEN Append(s.to[Channel!Other(w)], Channel!Ready("pong"))
                                       ELSE s.to[Channel!Other(w)]) \o Channel!Reverse(s[w].pendingQueue),
                     s.log[w])
<1> DEFINE o == Channel!Other(w)
           x == s[w]
           y == [x EXCEPT !.registered = FALSE, !.ready = TRUE]
           q == IF type = "ping" THEN Append(s.to[o], Channel!Ready("pong")) ELSE s.to[o]
           open == [s EXCEPT ![w].registered = FALSE, ![w].ready = TRUE]
           e == IF type = "ping" THEN Channel!transmit(open, w, Channel!Ready("pong")) ELSE open
<1>1. w \in DOMAIN s /\ w # "to" /\ w # "log" /\ Sides = {w, o} /\ o # w /\ s[w] \in Windows
      /\ DOMAIN s.to = Sides /\ DOMAIN s.log = Sides
  BY OtherSide, Parts DEF Wired
<1>2. Channel!onReady(s, w, type) = Channel!flush(e, w)
  BY DEF Channel!onReady
<1>3. y \in Windows /\ y.pendingQueue = x.pendingQueue /\ DOMAIN y = DOMAIN x
  BY <1>1 DEF Windows
<1>4. open = [s EXCEPT ![w] = y]
  BY <1>1 DEF Windows
<1>5. open = Changed(s, w, y, s.to[w], s.to[o], s.log[w])
  <2> HIDE DEF o, y, open
  <2>1. s.to = [v \in Sides |-> IF v = w THEN s.to[w] ELSE s.to[o]]
    BY <1>1 DEF Wired
  <2>2. s.log = [s.log EXCEPT ![w] = s.log[w]]
    BY <1>1 DEF Wired
  <2> QED
    BY <1>1, <1>4, <2>1, <2>2 DEF Changed
<1>6. e = Changed(s, w, y, s.to[w], q, s.log[w])
  <2>1. CASE type = "ping"
    <3> HIDE DEF open, y
    <3>1. Wired(open) /\ open[w] = y /\ open.to[w] = s.to[w] /\ open.to[o] = s.to[o] /\ open.log[w] = s.log[w]
      BY <1>3, <1>5, Changes, Parts
    <3>2. e = Changed(open, w, y, s.to[w], q, s.log[w])
      BY <2>1, <3>1, Transmits
    <3> QED
      BY <1>5, <3>2, ChangedTwice
  <2>2. CASE type # "ping"
    BY <1>5, <2>2
  <2> QED
    BY <2>1, <2>2
<1>7. Channel!flush(e, w) = [e EXCEPT !.to[o] = @ \o Channel!Reverse(e[w].pendingQueue), ![w].pendingQueue = <<>>]
  BY DEF Channel!flush
<1>8. Append(s.to[o], Channel!Ready("pong")) \in Queues
  <2>1. Channel!Ready("pong") \in Messages
    BY DEF Channel!Ready, Channel!Message, Messages, Args
  <2> QED
    BY <2>1, Parts DEF Queues
<1>9. q \in Queues /\ s.to[w] \in Queues /\ s.log[w] \in Logs
  BY <1>8, Parts
<1> HIDE DEF e, q, y, open
<1>10. Wired(e) /\ e[w] = y /\ e.to[w] = s.to[w] /\ e.to[o] = q /\ e.log[w] = s.log[w]
  BY <1>3, <1>6, <1>9, Changes
<1>11. Channel!flush(e, w) = Changed(e, w, [y EXCEPT !.pendingQueue = <<>>], s.to[w],
                                    q \o Channel!Reverse(x.pendingQueue), s.log[w])
  <2> DEFINE r == Channel!Reverse(x.pendingQueue)
             z == [y EXCEPT !.pendingQueue = <<>>]
  <2>1. w \in DOMAIN e /\ DOMAIN e.to = Sides /\ DOMAIN e.log = Sides
    BY <1>10, Parts DEF Wired
  <2>2. Channel!flush(e, w) = [e EXCEPT !.to[o] = @ \o r, ![w].pendingQueue = <<>>]
    BY <1>3, <1>7, <1>10
  <2> HIDE DEF r, o
  <2>3. [e EXCEPT !.to[o] = @ \o r, ![w].pendingQueue = <<>>] = [e EXCEPT !.to[o] = @ \o r, ![w] = z]
    BY <1>1, <1>10, <2>1
  <2>4. [e.to EXCEPT ![o] = @ \o r] = [v \in Sides |-> IF v = w THEN s.to[w] ELSE q \o r]
    <3>1. e.to \in [Sides -> Queues] /\ e.to[w] = s.to[w] /\ e.to[o] = q /\ Sides = {w, o} /\ o # w
      BY <1>1, <1>10 DEF Wired
    <3>2. [e.to EXCEPT ![o] = e.to[o] \o r] = [v \in Sides |-> IF v = w THEN e.to[w] ELSE e.to[o] \o r]
      BY <3>1, TwoSided DEF o
    <3> QED
      BY <3>1, <3>2
  <2>5. e.log = [e.log EXCEPT ![w] = s.log[w]]
    BY <1>10, <2>1 DEF Wired
  <2> HIDE DEF z
  <2> QED
    BY <1>1, <2>1, <2>2, <2>3, <2>4, <2>5 DEF Changed, r, z
<1>12. [y EXCEPT !.pendingQueue = <<>>] = Opened(x)
  BY <1>1 DEF y, Opened, Windows
<1> QED
  BY <1>2, <1>6, <1>11, <1>12, ChangedTwice DEF q
--------------------------------------------------------------------------------
\* A window that calls, and the request of its call.
Called(x, timed) ==
    [x EXCEPT !.outTbl = @ \cup {x.s_curTranId}, !.s_transIds = @ \cup {x.s_curTranId},
              !.timers = IF timed THEN @ \cup {x.s_curTranId} ELSE @, !.s_curTranId = @ + 1]
Request(x, method) == Channel!Message("request", x.s_curTranId, method)

\* call, as a change of one side.
LEMMA Calls ==
    ASSUME NEW s, Wired(s), NEW w \in Sides, NEW method \in Args, NEW timed \in BOOLEAN
    PROVE  LET x == Called(s[w], timed)
               m == Request(s[w], method)
           IN  /\ m \in Messages /\ x \in Windows
               /\ Channel!call(s, w, method, timed) =
                    Changed(s, w, Waiting(x, m), s.to[w], Going(x, s.to[Channel!Other(w)], m),
                            [s.log[w] EXCEPT !.asked = @ \cup {s[w].s_curTranId}])
<1> DEFINE o == Channel!Other(w)
           id == s[w].s_curTranId
           x == Called(s[w], timed)
           m == Request(s[w], method)
           l == [s.log[w] EXCEPT !.asked = @ \cup {id}]
           d == [s EXCEPT ![w].outTbl = @ \cup {id}, ![w].s_transIds = @ \cup {id},
                      ![w].timers = IF timed THEN @ \cup {id} ELSE @, ![w].s_curTranId = @ + 1,
                      !.log[w].asked = @ \cup {id}]
<1>1. w \in DOMAIN s /\ w # "to" /\ w # "log" /\ Sides = {w, o} /\ o # w /\ s[w] \in Windows
      /\ DOMAIN s.to = Sides /\ DOMAIN s.log = Sides /\ s.log[w] \in Logs /\ s.to[w] \in Queues /\ s.to[o] \in Queues
  BY OtherSide, Parts DEF Wired
<1>2. x \in Windows
  <2> DEFINE on == IF timed THEN s[w].timers \cup {id} ELSE s[w].timers
  <2>1. id \in Int /\ id + 1 \in Int /\ on \in SUBSET Int
    BY <1>1 DEF Windows
  <2>2. x = [s[w] EXCEPT !.outTbl = @ \cup {id}, !.s_transIds = @ \cup {id}, !.timers = on, !.s_curTranId = @ + 1]
    BY <1>1 DEF Windows, Called
  <2> HIDE DEF on, x
  <2> QED
    BY <1>1, <2>1, <2>2 DEF Windows
<1>3. l \in Logs /\ m \in Messages
  BY <1>1 DEF Windows, Logs, Request, Channel!Message, Messages
<1>4. d = Changed(s, w, x, s.to[w], s.to[o], l)
  <2>1. d = [s EXCEPT ![w] = x, !.log[w] = l]
    BY <1>1 DEF Windows, Logs, Called
  <2> HIDE DEF d, x, l, o
  <2>2. s.to = [v \in Sides |-> IF v = w THEN s.to[w] ELSE s.to[o]]
    BY <1>1 DEF Wired
  <2> QED
    BY <1>1, <2>1, <2>2 DEF Changed
<1>5. Channel!call(s, w, method, timed) = Channel!postMessage(d, w, m)
  BY DEF Channel!call, Request
<1> HIDE DEF d, x, l, m
<1>6. Channel!postMessage(d, w, m) = Changed(s, w, Waiting(x, m), s.to[w], Going(x, s.to[o], m), l)
  BY <1>1, <1>2, <1>3, <1>4, PostsChanged
<1> QED
  BY <1>2, <1>3, <1>5, <1>6 DEF x, m, l

\* A call ends, and is noted.
Ended(x, id) == [x EXCEPT !.outTbl = @ \ {id}, !.s_transIds = @ \ {id}]
Noted(l, id, how) == [l EXCEPT !.ended = Append(@, <<id, how>>)]
\* The end of a call, as a change of one side.
LEMMA Ends ==
    ASSUME NEW s, Wired(s), NEW w \in Sides, NEW id \in Int, NEW how \in Args
    PROVE  /\ Ended(s[w], id) \in Windows /\ Noted(s.log[w], id, how) \in Logs
           /\ Channel!ended(s, w, id, how) =
                Changed(s, w, Ended(s[w], id), s.to[w], s.to[Channel!Other(w)], Noted(s.log[w], id, how))
<1> DEFINE o == Channel!Other(w)
           x == Ended(s[w], id)
           l == Noted(s.log[w], id, how)
           d == Channel!ended(s, w, id, how)
<1>1. w \in DOMAIN s /\ w # "to" /\ w # "log" /\ Sides = {w, o} /\ o # w /\ s[w] \in Windows
      /\ DOMAIN s.to = Sides /\ DOMAIN s.log = Sides /\ s.log[w] \in Logs
  BY OtherSide, Parts DEF Wired
<1>2. x \in Windows
  BY <1>1 DEF Windows, Ended
<1>3. l \in Logs
  <2>1. Append(s.log[w].ended, <<id, how>>) \in Seq(Int \X Args)
    BY <1>1 DEF Logs
  <2> QED
    BY <1>1, <2>1 DEF Logs, Noted
<1>4. d = [s EXCEPT ![w] = x, !.log[w] = l]
  BY <1>1 DEF Channel!ended, Windows, Logs, Ended, Noted
<1> HIDE DEF d, x, l, o
<1>5. s.to = [v \in Sides |-> IF v = w THEN s.to[w] ELSE s.to[o]]
  BY <1>1 DEF Wired
<1>6. d = Changed(s, w, x, s.to[w], s.to[o], l)
  BY <1>1, <1>4, <1>5 DEF Changed
<1> QED
  BY <1>2, <1>3, <1>6 DEF d, x, l, o

\* A request is answered.
Served(x, id) == [x EXCEPT !.inTbl = @ \ {id}]
Answer(id, how) == Channel!Message("answer", id, how)
\* complete, as a change of one side.
LEMMA Completes ==
    ASSUME NEW s, Wired(s), NEW w \in Sides, NEW id \in Int, NEW how \in Args
    PROVE  LET x == Served(s[w], id)
               m == Answer(id, how)
           IN  /\ m \in Messages /\ x \in Windows
               /\ Channel!complete(s, w, id, how) =
                    Changed(s, w, Waiting(x, m), s.to[w], Going(x, s.to[Channel!Other(w)], m), s.log[w])
<1> DEFINE o == Channel!Other(w)
           x == Served(s[w], id)
           m == Answer(id, how)
           d == [s EXCEPT ![w].inTbl = @ \ {id}]
<1>1. w \in DOMAIN s /\ w # "to" /\ w # "log" /\ Sides = {w, o} /\ o # w /\ s[w] \in Windows
      /\ DOMAIN s.to = Sides /\ DOMAIN s.log = Sides /\ s.log[w] \in Logs /\ s.to[w] \in Queues /\ s.to[o] \in Queues
  BY OtherSide, Parts DEF Wired
<1>2. x \in Windows
  BY <1>1 DEF Windows, Served
<1>3. m \in Messages
  BY DEF Answer, Channel!Message, Messages
<1>4. d = Changed(s, w, x, s.to[w], s.to[o], s.log[w])
  <2>1. d = [s EXCEPT ![w] = x]
    BY <1>1 DEF Windows, Served
  <2> HIDE DEF d, x, o
  <2>2. s.to = [v \in Sides |-> IF v = w THEN s.to[w] ELSE s.to[o]]
    BY <1>1 DEF Wired
  <2>3. s.log = [s.log EXCEPT ![w] = s.log[w]]
    BY <1>1 DEF Wired
  <2> QED
    BY <1>1, <2>1, <2>2, <2>3 DEF Changed
<1>5. Channel!complete(s, w, id, how) = Channel!postMessage(d, w, m)
  BY DEF Channel!complete, Answer
<1> HIDE DEF d, x, m
<1>6. Channel!postMessage(d, w, m) = Changed(s, w, Waiting(x, m), s.to[w], Going(x, s.to[o], m), s.log[w])
  BY <1>1, <1>2, <1>3, <1>4, PostsChanged
<1> QED
  BY <1>2, <1>3, <1>5, <1>6 DEF x, m
--------------------------------------------------------------------------------
\* Only the window of a side changes.
LEMMA WindowChanges ==
    ASSUME NEW s, Wired(s), NEW w \in Sides, NEW x
    PROVE  [s EXCEPT ![w] = x] = Changed(s, w, x, s.to[w], s.to[Channel!Other(w)], s.log[w])
<1> DEFINE o == Channel!Other(w)
<1>1. w \in DOMAIN s /\ w # "to" /\ w # "log" /\ Sides = {w, o} /\ o # w /\ s.to \in [Sides -> Queues]
      /\ s.log \in [Sides -> Logs]
  BY OtherSide, Parts DEF Wired
<1> HIDE DEF o
<1>2. s.to = [v \in Sides |-> IF v = w THEN s.to[w] ELSE s.to[o]] /\ s.log = [s.log EXCEPT ![w] = s.log[w]]
  BY <1>1
<1>3. [s EXCEPT ![w] = x] = Changed(s, w, x, s.to[w], s.to[o], s.log[w])
  BY <1>1, <1>2 DEF Changed
<1> QED
  BY <1>3 DEF o

\* Only the queue to a side changes.
LEMMA QueueChanges ==
    ASSUME NEW s, Wired(s), NEW w \in Sides, NEW p
    PROVE  [s EXCEPT !.to[w] = p] = Changed(s, w, s[w], p, s.to[Channel!Other(w)], s.log[w])
<1> DEFINE o == Channel!Other(w)
<1>1. w \in DOMAIN s /\ w # "to" /\ w # "log" /\ Sides = {w, o} /\ o # w /\ s.to \in [Sides -> Queues]
      /\ s.log \in [Sides -> Logs]
  BY OtherSide, Parts DEF Wired
<1> HIDE DEF o
<1>2. /\ [s.to EXCEPT ![w] = p] = [v \in Sides |-> IF v = w THEN p ELSE s.to[o]]
      /\ s.log = [s.log EXCEPT ![w] = s.log[w]]
  BY <1>1
<1>3. [s EXCEPT !.to[w] = p] = Changed(s, w, s[w], p, s.to[o], s.log[w])
  BY <1>1, <1>2 DEF Changed
<1> QED
  BY <1>3 DEF o

\* Only the history of a side changes.
LEMMA LogChanges ==
    ASSUME NEW s, Wired(s), NEW w \in Sides, NEW l
    PROVE  [s EXCEPT !.log[w] = l] = Changed(s, w, s[w], s.to[w], s.to[Channel!Other(w)], l)
<1> DEFINE o == Channel!Other(w)
<1>1. w \in DOMAIN s /\ w # "to" /\ w # "log" /\ Sides = {w, o} /\ o # w /\ s.to \in [Sides -> Queues]
      /\ s.log \in [Sides -> Logs]
  BY OtherSide, Parts DEF Wired
<1> HIDE DEF o
<1>2. s.to = [v \in Sides |-> IF v = w THEN s.to[w] ELSE s.to[o]]
  BY <1>1
<1>3. [s EXCEPT !.log[w] = l] = Changed(s, w, s[w], s.to[w], s.to[o], l)
  BY <1>1, <1>2 DEF Changed
<1> QED
  BY <1>3 DEF o
--------------------------------------------------------------------------------
\* A request is taken, a callback heard, and what was kept goes out.
TakenBy(x, id) == [x EXCEPT !.inTbl = @ \cup {id}]
Heard(l, id) == [l EXCEPT !.heard = @ \cup {id}]
Open(x, q, type) ==
    (IF type = "ping" THEN Append(q, Channel!Ready("pong")) ELSE q) \o Channel!Reverse(x.pendingQueue)

\* What the handshake sends is a message.
LEMMA ReadyIsMessage ==
    ASSUME NEW type \in {"ping", "pong"}
    PROVE  /\ Channel!Ready(type) \in Messages
           /\ Channel!Ready(type).kind = "ready" /\ Channel!Ready(type).arg = type
<1>1. type \in Args
  BY DEF Args
<1>2. -1 \in Int
  OBVIOUS
<1> QED
  BY <1>1, <1>2 DEF Channel!Ready, Channel!Message, Messages

\* A window that opened, and what it sends then.
LEMMA OpenTypes ==
    ASSUME NEW x \in Windows, NEW q \in Queues, NEW type
    PROVE  Opened(x) \in Windows /\ Open(x, q, type) \in Queues
<1>1. Append(q, Channel!Ready("pong")) \in Queues
  BY ReadyIsMessage, Appended
<1>2. x.pendingQueue \in Queues /\ <<>> \in Queues
  BY DEF Windows, Queues
<1>3. Opened(x) \in Windows
  BY <1>2 DEF Opened, Windows
<1>4. Open(x, q, type) \in Queues
  BY <1>1, <1>2, Flushed DEF Open
<1> QED
  BY <1>3, <1>4

\* A window that took a request, and a history that heard a callback.
LEMMA SmallTypes ==
    ASSUME NEW x \in Windows, NEW l \in Logs, NEW id \in Int
    PROVE  TakenBy(x, id) \in Windows /\ Heard(l, id) \in Logs
BY DEF TakenBy, Heard, Windows, Logs

\* What becomes of a message that is taken.
Dropped(s, d, w, m) ==
    /\ d = Changed(s, w, s[w], Tail(s.to[w]), s.to[Channel!Other(w)], s.log[w])
    /\ m.kind = "ready" => s[w].bound = FALSE \/ s[w].registered = FALSE
    /\ m.kind = "request" => s[w].bound = FALSE \/ m.id = 0
    /\ m.kind \in {"callback", "answer"} => m.id = 0 \/ m.id \notin s[w].outTbl \/ m.id \notin s[w].s_transIds
IsOpened(s, d, w, m) ==
    /\ m.kind = "ready" /\ s[w].bound = TRUE /\ s[w].registered = TRUE
    /\ d = Changed(s, w, Opened(s[w]), Tail(s.to[w]), Open(s[w], s.to[Channel!Other(w)], m.arg), s.log[w])
IsTaken(s, d, w, m) ==
    /\ m.kind = "request" /\ m.id # 0 /\ s[w].bound = TRUE
    /\ d = Changed(s, w, TakenBy(s[w], m.id), Tail(s.to[w]), s.to[Channel!Other(w)], s.log[w])
IsServed(s, d, w, m) ==
    /\ m.kind = "request" /\ m.id # 0 /\ s[w].bound = TRUE
    /\ \E how \in {"result", "error"} :
          LET x == Served(TakenBy(s[w], m.id), m.id)
              n == Answer(m.id, how)
          IN  d = Changed(s, w, Waiting(x, n), Tail(s.to[w]), Going(x, s.to[Channel!Other(w)], n), s.log[w])
IsHeard(s, d, w, m) ==
    /\ m.kind = "callback" /\ m.id # 0 /\ m.id \in s[w].outTbl
    /\ d = Changed(s, w, s[w], Tail(s.to[w]), s.to[Channel!Other(w)], Heard(s.log[w], m.id))
IsEnded(s, d, w, m) ==
    /\ m.kind = "answer" /\ m.id # 0 /\ m.id \in s[w].outTbl
    /\ d = Changed(s, w, Ended(s[w], m.id), Tail(s.to[w]), s.to[Channel!Other(w)], Noted(s.log[w], m.id, m.arg))

\* s_onMessage does one of these things with the message it is given.
LEMMA Delivers ==
    ASSUME NEW s, Wired(s), NEW w \in Sides, s.to[w] # <<>>, NEW does \in Channel!Handles,
           NEW d, d = Channel!s_onMessage([s EXCEPT !.to[w] = Tail(@)], w, Head(s.to[w]), does)
    PROVE  LET m == Head(s.to[w])
           IN  \/ Dropped(s, d, w, m) \/ IsOpened(s, d, w, m) \/ IsTaken(s, d, w, m)
               \/ IsServed(s, d, w, m) \/ IsHeard(s, d, w, m) \/ IsEnded(s, d, w, m)
<1> DEFINE o == Channel!Other(w)
           m == Head(s.to[w])
           p == Tail(s.to[w])
           e == [s EXCEPT !.to[w] = Tail(@)]
<1>1. /\ s[w] \in Windows /\ s.to[w] \in Queues /\ s.to[o] \in Queues /\ s.log[w] \in Logs /\ w \in DOMAIN s
      /\ w # "to" /\ w # "log" /\ s.to \in [Sides -> Queues]
  BY Parts, OtherSide DEF Wired
<1>2. p \in Queues /\ m \in Messages
  BY <1>1, Taken
<1>3. e = Changed(s, w, s[w], p, s.to[o], s.log[w])
  <2>1. e = [s EXCEPT !.to[w] = p]
    BY <1>1
  <2> QED
    BY <2>1, QueueChanges
<1>0. d = Channel!s_onMessage(e, w, m, does)
  OBVIOUS
<1> SUFFICES \/ Dropped(s, d, w, m) \/ IsOpened(s, d, w, m) \/ IsTaken(s, d, w, m)
             \/ IsServed(s, d, w, m) \/ IsHeard(s, d, w, m) \/ IsEnded(s, d, w, m)
  OBVIOUS
<1> HIDE DEF e, m, p
<1>4. /\ Wired(e) /\ e[w] = s[w] /\ e.to[w] = p /\ e.to[o] = s.to[o] /\ e.log[w] = s.log[w]
  BY <1>1, <1>2, <1>3, Changes
<1>5. m.kind \in {"ready", "request", "callback", "answer"} /\ m.id \in Int /\ m.arg \in Args
  BY <1>2 DEF Messages
<1>6. s[w].bound \in BOOLEAN /\ s[w].registered \in BOOLEAN
  BY <1>1 DEF Windows
<1>7. CASE m.kind = "ready"
  <2>1. CASE s[w].bound = TRUE /\ s[w].registered = TRUE
    <3>1. d = Channel!onReady(e, w, m.arg)
      BY <1>0, <1>4, <1>7, <2>1 DEF Channel!s_onMessage, Channel!onMessage
    <3>2. d = Changed(e, w, Opened(s[w]), p, Open(s[w], s.to[o], m.arg), s.log[w])
      BY <1>4, <3>1, Readies DEF Open
    <3> QED
      BY <1>1, <1>3, <1>7, <2>1, <3>2, ChangedTwice DEF IsOpened, p
  <2>2. CASE ~(s[w].bound = TRUE /\ s[w].registered = TRUE)
    <3>1. d = e
      BY <1>0, <1>4, <1>6, <1>7, <2>2 DEF Channel!s_onMessage, Channel!onMessage
    <3>2. Dropped(s, d, w, m)
      BY <1>3, <1>6, <1>7, <2>2, <3>1 DEF Dropped, p
    <3> QED
      BY <3>2
  <2> QED
    BY <2>1, <2>2
<1>8. CASE m.kind = "request"
  <2>1. CASE s[w].bound = TRUE /\ m.id # 0
    <3> DEFINE now == [e EXCEPT ![w].inTbl = @ \cup {m.id}]
               x == TakenBy(s[w], m.id)
    <3>1. d = Channel!serve(e, w, m.id, does)
      BY <1>0, <1>4, <1>8, <2>1 DEF Channel!s_onMessage, Channel!onMessage
    <3>2. now = Changed(s, w, x, p, s.to[o], s.log[w])
      <4>1. now = [e EXCEPT ![w] = x]
        BY <1>1, <1>4, Parts DEF Windows, TakenBy
      <4>2. now = Changed(e, w, x, p, s.to[o], s.log[w])
        BY <1>4, <4>1, WindowChanges
      <4> QED
        BY <1>3, <4>2, ChangedTwice
    <3>3. does \in {"returns", "throws", "later"}
      BY DEF Channel!Handles
    <3>4. CASE does = "later"
      <4>1. d = now
        BY <3>1, <3>4 DEF Channel!serve
      <4> QED
        BY <1>8, <2>1, <3>2, <4>1 DEF IsTaken, p
    <3>5. CASE does # "later"
      <4>1. PICK how \in {"result", "error"} : d = Channel!complete(now, w, m.id, how)
        BY <3>1, <3>3, <3>5 DEF Channel!serve
      <4>2. x \in Windows /\ how \in Args
        BY <1>1, <1>5, SmallTypes DEF Args
      <4> HIDE DEF now, x
      <4>3. Wired(now) /\ now[w] = x /\ now.to[w] = p /\ now.to[o] = s.to[o] /\ now.log[w] = s.log[w]
        BY <1>1, <1>2, <3>2, <4>2, Changes
      <4> DEFINE y == Served(x, m.id)
                 n == Answer(m.id, how)
      <4>4. d = Changed(now, w, Waiting(y, n), p, Going(y, s.to[o], n), s.log[w])
        BY <1>5, <4>1, <4>2, <4>3, Completes
      <4>5. d = Changed(s, w, Waiting(y, n), p, Going(y, s.to[o], n), s.log[w])
        BY <3>2, <4>4, ChangedTwice
      <4> QED
        BY <1>8, <2>1, <4>5 DEF IsServed, p, x
    <3> QED
      BY <3>4, <3>5
  <2>2. CASE ~(s[w].bound = TRUE /\ m.id # 0)
    <3>1. d = e
      <4>1. e[w] = s[w]
        BY <1>4
      <4> QED
        BY <1>0, <1>6, <1>8, <2>2, <4>1 DEF Channel!s_onMessage, Channel!onMessage
    <3>2. Dropped(s, d, w, m)
      BY <1>3, <1>6, <1>8, <2>2, <3>1 DEF Dropped, p
    <3> QED
      BY <3>2
  <2> QED
    BY <2>1, <2>2
<1>9. CASE m.kind \in {"callback", "answer"}
  <2>1. CASE m.id = 0 \/ m.id \notin s[w].outTbl \/ m.id \notin s[w].s_transIds
    <3>1. d = e
      BY <1>0, <1>4, <1>9, <2>1 DEF Channel!s_onMessage, Channel!onMessage
    <3>2. Dropped(s, d, w, m)
      BY <1>3, <1>9, <2>1, <3>1 DEF Dropped, p
    <3> QED
      BY <3>2
  <2>2. CASE ~(m.id = 0 \/ m.id \notin s[w].outTbl \/ m.id \notin s[w].s_transIds)
    <3>1. CASE m.kind = "callback"
      <4>1. d = [e EXCEPT !.log[w].heard = @ \cup {m.id}]
        BY <1>0, <1>4, <2>2, <3>1 DEF Channel!s_onMessage, Channel!onMessage
      <4>2. d = [e EXCEPT !.log[w] = Heard(s.log[w], m.id)]
        BY <1>1, <1>4, <4>1, Parts DEF Heard, Logs, Wired
      <4>3. d = Changed(e, w, s[w], p, s.to[o], Heard(s.log[w], m.id))
        <5> DEFINE l == Heard(s.log[w], m.id)
        <5>1. d = [e EXCEPT !.log[w] = l]
          BY <4>2
        <5> HIDE DEF l
        <5>2. Wired(e)
          BY <1>4
        <5>3. [e EXCEPT !.log[w] = l] = Changed(e, w, e[w], e.to[w], e.to[o], l)
          BY <5>2, LogChanges
        <5> QED
          BY <1>4, <5>1, <5>3 DEF l
      <4> QED
        BY <1>3, <2>2, <3>1, <4>3, ChangedTwice DEF IsHeard, p
    <3>2. CASE m.kind = "answer"
      <4>1. d = Channel!ended(e, w, m.id, m.arg)
        BY <1>0, <1>4, <2>2, <3>2 DEF Channel!s_onMessage, Channel!onMessage
      <4>2. d = Changed(e, w, Ended(s[w], m.id), p, s.to[o], Noted(s.log[w], m.id, m.arg))
        BY <1>4, <1>5, <4>1, Ends
      <4> QED
        BY <1>3, <2>2, <3>2, <4>2, ChangedTwice DEF IsEnded, p
    <3> QED
      BY <1>9, <3>1, <3>2
  <2> QED
    BY <2>1, <2>2
<1> QED
  BY <1>5, <1>7, <1>8, <1>9 DEF m
--------------------------------------------------------------------------------
\* A call that ended, once, is not one that waits; a ready window keeps nothing back.
EndsOf(x, l) ==
    /\ x.outTbl \subseteq x.s_transIds /\ \A id \in x.outTbl : id < x.s_curTranId
    /\ \A i \in DOMAIN l.ended : l.ended[i][1] < x.s_curTranId /\ l.ended[i][1] \notin x.outTbl
    /\ \A i, j \in DOMAIN l.ended : i # j => l.ended[i][1] # l.ended[j][1]
    /\ x.ready = TRUE => x.registered = FALSE /\ x.pendingQueue = <<>>

Face(x) == <<x.bound, x.pinged, x.ready, x.registered>>
(***************************************************************************)
(* The handshake, as window x sees it: a window is ready only if its peer  *)
(* was built, and until it is, the first message that comes to it on p is  *)
(* the peer's, that it is ready.                                           *)
(***************************************************************************)
ReadyGood(x, y, p) ==
    /\ x.ready = TRUE => x.bound = TRUE /\ y.bound = TRUE
    /\ x.pinged = TRUE => x.bound = TRUE
    /\ x.bound = TRUE => x.ready = TRUE \/ x.registered = TRUE
    /\ \A m \in In(p) : IF m.kind = "ready"
          THEN y.bound = TRUE /\ m.arg \in {"ping", "pong"} /\ (m.arg = "pong" => y.ready = TRUE)
          ELSE y.ready = TRUE
    /\ x.ready = FALSE => (p # <<>> => Head(p).kind = "ready") /\ (y.ready = TRUE => p # <<>>)

\* What a window is when a message was posted.
LEMMA WaitingIs ==
    ASSUME NEW x \in Windows, NEW m
    PROVE  LET y == Waiting(x, m)
           IN  /\ Face(y) = Face(x)
               /\ y.bound = x.bound /\ y.pinged = x.pinged /\ y.ready = x.ready /\ y.registered = x.registered
               /\ y.outTbl = x.outTbl /\ y.inTbl = x.inTbl /\ y.s_curTranId = x.s_curTranId
               /\ y.s_transIds = x.s_transIds /\ y.timers = x.timers
               /\ y.pendingQueue = IF x.ready THEN x.pendingQueue ELSE Append(x.pendingQueue, m)
BY DEF Waiting, Windows, Face

\* What is known of the calls of a window depends on its tables and on how calls ended.
LEMMA EndsKept ==
    ASSUME NEW x, NEW y, NEW l, NEW k, EndsOf(x, l),
           y.outTbl = x.outTbl, y.s_transIds = x.s_transIds, y.s_curTranId = x.s_curTranId, k.ended = l.ended,
           y.ready = TRUE => y.registered = FALSE /\ y.pendingQueue = <<>>
    PROVE  EndsOf(y, k)
BY DEF EndsOf

\* A call is made: no call had its id.
LEMMA EndsCalled ==
    ASSUME NEW x \in Windows, NEW l \in Logs, EndsOf(x, l), NEW timed \in BOOLEAN, NEW k, k.ended = l.ended
    PROVE  EndsOf(Called(x, timed), k)
<1> DEFINE y == Called(x, timed)
<1>1. /\ y.outTbl = x.outTbl \cup {x.s_curTranId} /\ y.s_transIds = x.s_transIds \cup {x.s_curTranId}
      /\ y.s_curTranId = x.s_curTranId + 1 /\ y.ready = x.ready /\ y.registered = x.registered
      /\ y.pendingQueue = x.pendingQueue /\ x.s_curTranId \in Int /\ x.outTbl \subseteq Int
  BY DEF Called, Windows
<1>2. \A i \in DOMAIN l.ended : l.ended[i][1] \in Int
  BY DEF Logs
<1> HIDE DEF y
<1>3. y.outTbl \subseteq y.s_transIds /\ \A id \in y.outTbl : id < y.s_curTranId
  BY <1>1 DEF EndsOf
<1>4. \A i \in DOMAIN k.ended : k.ended[i][1] < y.s_curTranId /\ k.ended[i][1] \notin y.outTbl
  BY <1>1, <1>2 DEF EndsOf
<1>5. y.ready = TRUE => y.registered = FALSE /\ y.pendingQueue = <<>>
  BY <1>1 DEF EndsOf
<1>6. \A i, j \in DOMAIN k.ended : i # j => k.ended[i][1] # k.ended[j][1]
  BY DEF EndsOf
<1> QED
  BY <1>3, <1>4, <1>5, <1>6 DEF EndsOf, y

\* A call ends: it is forgotten, and cannot end again.
LEMMA EndsEnded ==
    ASSUME NEW x \in Windows, NEW l \in Logs, EndsOf(x, l), NEW id \in x.outTbl, NEW how \in Args
    PROVE  EndsOf(Ended(x, id), Noted(l, id, how))
<1> DEFINE y == Ended(x, id)
           k == Noted(l, id, how)
<1>1. /\ y.outTbl = x.outTbl \ {id} /\ y.s_transIds = x.s_transIds \ {id}
      /\ y.s_curTranId = x.s_curTranId /\ y.ready = x.ready /\ y.registered = x.registered
      /\ y.pendingQueue = x.pendingQueue
  BY DEF Ended, Windows
<1>2. /\ DOMAIN l.ended = 1 .. Len(l.ended) /\ DOMAIN k.ended = 1 .. Len(l.ended) + 1 /\ Len(l.ended) \in Nat
      /\ \A i \in 1 .. Len(l.ended) : k.ended[i] = l.ended[i]
      /\ k.ended[Len(l.ended) + 1] = <<id, how>>
  <2>1. k.ended = Append(l.ended, <<id, how>>) /\ l.ended \in Seq(Int \X Args) /\ <<id, how>> \in Int \X Args
    BY DEF Noted, Logs, Windows
  <2> HIDE DEF k
  <2> QED
    BY <2>1
<1> HIDE DEF y, k
<1>3. y.outTbl \subseteq y.s_transIds /\ \A n \in y.outTbl : n < y.s_curTranId
  BY <1>1 DEF EndsOf
<1>4. y.ready = TRUE => y.registered = FALSE /\ y.pendingQueue = <<>>
  BY <1>1 DEF EndsOf
<1>5. \A i \in DOMAIN k.ended : k.ended[i][1] < y.s_curTranId /\ k.ended[i][1] \notin y.outTbl
  <2> SUFFICES ASSUME NEW i \in DOMAIN k.ended
               PROVE  k.ended[i][1] < y.s_curTranId /\ k.ended[i][1] \notin y.outTbl
    OBVIOUS
  <2>1. CASE i \in 1 .. Len(l.ended)
    BY <1>1, <1>2, <2>1 DEF EndsOf
  <2>2. CASE i \notin 1 .. Len(l.ended)
    <3>1. i = Len(l.ended) + 1
      BY <1>2, <2>2
    <3> QED
      BY <1>1, <1>2, <3>1 DEF EndsOf
  <2> QED
    BY <2>1, <2>2
<1>6. \A i, j \in DOMAIN k.ended : i # j => k.ended[i][1] # k.ended[j][1]
  <2> SUFFICES ASSUME NEW i \in DOMAIN k.ended, NEW j \in DOMAIN k.ended, i < j
               PROVE  k.ended[i][1] # k.ended[j][1]
    BY <1>2
  <2>1. i \in 1 .. Len(l.ended)
    BY <1>2
  <2>2. CASE j \in 1 .. Len(l.ended)
    BY <1>2, <2>1, <2>2 DEF EndsOf
  <2>3. CASE j \notin 1 .. Len(l.ended)
    <3>1. j = Len(l.ended) + 1
      BY <1>2, <2>3
    <3> QED
      BY <1>2, <2>1, <3>1 DEF EndsOf
  <2> QED
    BY <2>2, <2>3
<1> QED
  BY <1>3, <1>4, <1>5, <1>6 DEF EndsOf, y, k
--------------------------------------------------------------------------------
\* The handshake depends on the flags of the windows.
LEMMA FaceIsAll ==
    ASSUME NEW x, NEW y, NEW q, NEW u, NEW v, ReadyGood(x, y, q), Face(u) = Face(x), Face(v) = Face(y)
    PROVE  ReadyGood(u, v, q)
<1>1. /\ u.bound = x.bound /\ u.pinged = x.pinged /\ u.ready = x.ready /\ u.registered = x.registered
      /\ v.bound = y.bound /\ v.ready = y.ready
  BY DEF Face
<1> QED
  BY <1>1 DEF ReadyGood

\* A message is taken that does not open the window.
LEMMA ReadyDrops ==
    ASSUME NEW x \in Windows, NEW y \in Windows, NEW p \in Queues, p # <<>>,
           ReadyGood(x, y, p), NEW q, ReadyGood(y, x, q),
           x.ready = FALSE /\ Head(p).kind = "ready" => x.bound = FALSE \/ x.registered = FALSE
    PROVE  ReadyGood(x, y, Tail(p))
<1>1. Tail(p) \in Queues /\ In(Tail(p)) \subseteq In(p) /\ Head(p) \in In(p)
  BY Taken
<1>2. ASSUME x.ready = FALSE
      PROVE  y.ready = FALSE
  BY <1>2 DEF ReadyGood, Windows
<1>3. ASSUME x.ready = FALSE, Tail(p) # <<>>
      PROVE  Head(Tail(p)).kind = "ready"
  <2>1. Head(Tail(p)) \in In(Tail(p))
    BY <1>1, <1>3, Taken
  <2> QED
    BY <1>1, <1>2, <1>3, <2>1 DEF ReadyGood
<1> HIDE DEF ReadyGood
<1>4. \A m \in In(Tail(p)) : m \in In(p)
  BY <1>1
<1> QED
  BY <1>2, <1>3, <1>4 DEF ReadyGood

\* A window that is ready sends something else than the handshake.
LEMMA ReadySends ==
    ASSUME NEW x \in Windows, NEW y \in Windows, NEW q \in Queues, ReadyGood(y, x, q), x.ready = TRUE,
           NEW m \in Messages, m.kind # "ready"
    PROVE  ReadyGood(y, x, Append(q, m))
<1> DEFINE d == Append(q, m)
<1>1. d # <<>> /\ In(d) = In(q) \cup {m} /\ Head(d) = IF q = <<>> THEN m ELSE Head(q)
  BY Appended
<1> HIDE DEF d
<1> QED
  BY <1>1 DEF ReadyGood, d

\* A message is posted: a window that is not ready keeps it.
LEMMA ReadyPosts ==
    ASSUME NEW x \in Windows, NEW y \in Windows, NEW q \in Queues, ReadyGood(y, x, q),
           NEW m \in Messages, m.kind # "ready"
    PROVE  ReadyGood(y, Waiting(x, m), Going(x, q, m))
<1>1. Face(Waiting(x, m)) = Face(x) /\ x.ready \in BOOLEAN
  BY WaitingIs DEF Windows
<1>2. ReadyGood(y, x, Going(x, q, m))
  BY <1>1, ReadySends DEF Going
<1> QED
  BY <1>1, <1>2, FaceIsAll

\* A window that is bound sends its ping.
LEMMA ReadyPings ==
    ASSUME NEW x \in Windows, NEW y \in Windows, NEW p, NEW q \in Queues, ReadyGood(x, y, p), ReadyGood(y, x, q),
           x.bound = TRUE, NEW u, u = [x EXCEPT !.pinged = TRUE]
    PROVE  ReadyGood(u, y, p) /\ ReadyGood(y, u, Append(q, Channel!Ready("ping")))
<1> DEFINE m == Channel!Ready("ping")
           d == Append(q, m)
<1>1. m \in Messages /\ m.kind = "ready" /\ m.arg = "ping"
  BY ReadyIsMessage
<1>2. u.bound = TRUE /\ u.ready = x.ready /\ u.registered = x.registered
  BY DEF Windows
<1> HIDE DEF m
<1>3. d # <<>> /\ In(d) = In(q) \cup {m} /\ Head(d) = IF q = <<>> THEN m ELSE Head(q)
  BY <1>1, Appended
<1> HIDE DEF d
<1>4. ReadyGood(u, y, p)
  BY <1>2 DEF ReadyGood
<1>5. ReadyGood(y, u, d)
  BY <1>1, <1>2, <1>3 DEF ReadyGood
<1> QED
  BY <1>4, <1>5 DEF d, m

\* A channel is built.
LEMMA ReadyBuilds ==
    ASSUME NEW x \in Windows, NEW y \in Windows, NEW p, NEW q, ReadyGood(x, y, p), ReadyGood(y, x, q),
           x.bound = FALSE, NEW u, u = [x EXCEPT !.bound = TRUE, !.registered = TRUE, !.ready = FALSE]
    PROVE  ReadyGood(u, y, p) /\ ReadyGood(y, u, q)
<1>1. x.ready = FALSE /\ y.ready = FALSE
  BY DEF ReadyGood, Windows
<1>2. u.bound = TRUE /\ u.registered = TRUE /\ u.ready = FALSE /\ u.pinged = x.pinged
  BY DEF Windows
<1>3. ReadyGood(u, y, p)
  BY <1>1, <1>2 DEF ReadyGood
<1>4. ReadyGood(y, u, q)
  BY <1>1, <1>2 DEF ReadyGood
<1> QED
  BY <1>3, <1>4

\* A window hears of the handshake, and sends what it kept.
LEMMA ReadyOpens ==
    ASSUME NEW x \in Windows, NEW y \in Windows, NEW p \in Queues, NEW q \in Queues, p # <<>>,
           ReadyGood(x, y, p), ReadyGood(y, x, q), Head(p).kind = "ready", x.bound = TRUE,
           \A m \in In(x.pendingQueue) : m.kind # "ready"
    PROVE  ReadyGood(Opened(x), y, Tail(p)) /\ ReadyGood(y, Opened(x), Open(x, q, Head(p).arg))
<1> DEFINE u == Opened(x)
           type == Head(p).arg
           m == Channel!Ready("pong")
           e == IF type = "ping" THEN Append(q, m) ELSE q
           d == Open(x, q, type)
<1>1. /\ u.bound = TRUE /\ u.registered = FALSE /\ u.ready = TRUE /\ u.pinged = x.pinged
      /\ x.pendingQueue \in Queues
  BY DEF Opened, Windows
<1>2. Tail(p) \in Queues /\ In(Tail(p)) \subseteq In(p) /\ Head(p) \in In(p)
  BY Taken
<1>3. y.bound = TRUE /\ type \in {"ping", "pong"} /\ (type = "pong" => y.ready = TRUE)
  BY <1>2 DEF ReadyGood
<1>4. m \in Messages /\ m.kind = "ready" /\ m.arg = "pong"
  BY ReadyIsMessage
<1> HIDE DEF m, u, type
<1>5. /\ e \in Queues /\ In(e) \subseteq In(q) \cup {m}
      /\ q # <<>> => e # <<>> /\ Head(e) = Head(q)
      /\ q = <<>> /\ type = "ping" => e # <<>> /\ Head(e) = m
  BY <1>4, Appended
<1>6. d = e \o Channel!Reverse(x.pendingQueue)
  BY DEF Open, m
<1> HIDE DEF e, d
<1>7. In(d) = In(e) \cup In(x.pendingQueue) /\ (e # <<>> => d # <<>> /\ Head(d) = Head(e))
  BY <1>1, <1>5, <1>6, Flushed
<1>8. ReadyGood(u, y, Tail(p))
  <2>1. \A n \in In(Tail(p)) : n \in In(p)
    BY <1>2
  <2> QED
    BY <1>1, <1>3, <2>1 DEF ReadyGood
<1>9. ReadyGood(y, u, d)
  <2>1. \A n \in In(d) : n \in In(q) \/ n = m \/ n.kind # "ready"
    BY <1>5, <1>7
  <2>2. ASSUME y.ready = FALSE
        PROVE  d # <<>> /\ Head(d).kind = "ready"
    BY <1>3, <1>4, <1>5, <1>7, <2>2 DEF ReadyGood
  <2> QED
    BY <1>1, <1>3, <1>4, <2>1, <2>2 DEF ReadyGood
<1> QED
  BY <1>8, <1>9 DEF u, d, type
--------------------------------------------------------------------------------
(***************************************************************************)
(* The requests of x that are kept or on their way on q: each once, made   *)
(* before the next call, and not one of those whose answer is on p.        *)
(***************************************************************************)
InTransit(x, q) == Ids(x.pendingQueue, "request") \cup Ids(q, "request")
RequestsOf(x, q, p) ==
    /\ \A m \in In(x.pendingQueue) : m.kind = "request"
    /\ \A id \in InTransit(x, q) \cup Ids(p, "answer") : id < x.s_curTranId
    /\ Once(x.pendingQueue, "request") /\ Once(q, "request") /\ Once(p, "answer")
    /\ Ids(x.pendingQueue, "request") \cap Ids(q, "request") = {}
    /\ Ids(p, "answer") \cap InTransit(x, q) = {} /\ 0 \notin Ids(p, "answer")

\* The ids of a queue are numbers.
LEMMA IdsTyped == ASSUME NEW q \in Queues, NEW kind PROVE Ids(q, kind) \subseteq Int
<1>1. \A m \in In(q) : m \in Messages
  BY DEF In, Queues
<1> QED
  BY <1>1 DEF Ids, Messages

\* An empty queue.
LEMMA NothingIn == In(<<>>) = {} /\ \A kind : Ids(<<>>, kind) = {} /\ Once(<<>>, kind)
<1>1. In(<<>>) = {}
  BY DEF In
<1>2. DOMAIN <<>> = {}
  OBVIOUS
<1> QED
  BY <1>1, <1>2 DEF Ids, Once

\* What was sent may be taken, or something else come.
LEMMA RequestsLess ==
    ASSUME NEW x, NEW y, NEW p, NEW q, NEW u, NEW v, RequestsOf(x, q, p),
           y.pendingQueue = x.pendingQueue, y.s_curTranId = x.s_curTranId,
           Ids(v, "request") \subseteq Ids(q, "request"), Once(v, "request"),
           Ids(u, "answer") \subseteq Ids(p, "answer"), Once(u, "answer")
    PROVE  RequestsOf(y, v, u)
<1>1. InTransit(y, v) \subseteq InTransit(x, q)
  BY DEF InTransit
<1> QED
  BY <1>1 DEF RequestsOf

\* A message of another kind.
LEMMA OtherKind ==
    ASSUME NEW q \in Queues, NEW m \in Messages, NEW kind, m.kind # kind
    PROVE  Ids(Append(q, m), kind) = Ids(q, kind) /\ (Once(q, kind) => Once(Append(q, m), kind))
<1> DEFINE d == Append(q, m)
<1>1. /\ \A k : k # m.kind => Ids(d, k) = Ids(q, k)
      /\ \A k : Once(q, k) /\ (m.kind = k => m.id \notin Ids(q, k)) => Once(d, k)
  BY Appended
<1> HIDE DEF d
<1> QED
  BY <1>1 DEF d

\* A message of the same kind.
LEMMA SameKind ==
    ASSUME NEW q \in Queues, NEW m \in Messages, NEW kind, m.kind = kind
    PROVE  Ids(Append(q, m), kind) = Ids(q, kind) \cup {m.id}
<1>1. Ids(Append(q, m), m.kind) = Ids(q, m.kind) \cup {m.id}
  BY Appended
<1> QED
  BY <1>1

\* A message is taken: there are no more ids than before.
LEMMA LessTaken ==
    ASSUME NEW q \in Queues, q # <<>>, NEW kind
    PROVE  Ids(Tail(q), kind) \subseteq Ids(q, kind) /\ (Once(q, kind) => Once(Tail(q), kind))
<1> DEFINE d == Tail(q)
<1>1. /\ \A k : Ids(d, k) \subseteq Ids(q, k)
      /\ \A k : Once(q, k) => Once(d, k)
  BY Taken
<1> HIDE DEF d
<1> QED
  BY <1>1 DEF d

\* A request is posted: its id is new.
LEMMA RequestsCalled ==
    ASSUME NEW x \in Windows, NEW q \in Queues, NEW p \in Queues, RequestsOf(x, q, p),
           NEW timed \in BOOLEAN, NEW m \in Messages, m.kind = "request", m.id = x.s_curTranId
    PROVE  /\ RequestsOf(Waiting(Called(x, timed), m), Going(Called(x, timed), q, m), p)
           /\ InTransit(Waiting(Called(x, timed), m), Going(Called(x, timed), q, m)) = InTransit(x, q) \cup {m.id}
<1> DEFINE y == Called(x, timed)
           z == Waiting(y, m)
           r == x.pendingQueue
           id == m.id
<1>1. /\ y.s_curTranId = x.s_curTranId + 1 /\ y.ready = x.ready /\ y.pendingQueue = x.pendingQueue
      /\ x.s_curTranId \in Int /\ x.ready \in BOOLEAN /\ r \in Queues
  BY DEF Called, Windows
<1>2. z.s_curTranId = y.s_curTranId /\ z.pendingQueue = IF x.ready THEN r ELSE Append(r, m)
  BY <1>1 DEF Waiting, Called, Windows
<1>3. Going(y, q, m) = IF x.ready THEN Append(q, m) ELSE q
  BY <1>1 DEF Going
<1> HIDE DEF y, z, r
<1>4. /\ Ids(r, "request") \subseteq Int /\ Ids(q, "request") \subseteq Int /\ Ids(p, "answer") \subseteq Int
  BY <1>1, IdsTyped
<1>5. id \notin InTransit(x, q) /\ id \notin Ids(p, "answer") /\ id \in Int
  BY <1>1 DEF RequestsOf
<1>6. CASE x.ready
  <2> DEFINE d == Append(q, m)
  <2>1. Ids(d, "request") = Ids(q, "request") \cup {id}
    BY SameKind
  <2>2. Once(d, "request")
    <3>1. \A k : Once(q, k) /\ (m.kind = k => m.id \notin Ids(q, k)) => Once(d, k)
      BY Appended
    <3> HIDE DEF d
    <3> QED
      BY <1>5, <3>1 DEF RequestsOf, InTransit
  <2>3. z.pendingQueue = r /\ Going(y, q, m) = d
    BY <1>2, <1>3, <1>6
  <2> HIDE DEF d
  <2>4. InTransit(z, d) = InTransit(x, q) \cup {id}
    BY <2>1, <2>3 DEF InTransit, r
  <2>5. \A n \in InTransit(z, d) \cup Ids(p, "answer") : n < z.s_curTranId
    <3>1. \A n \in InTransit(x, q) \cup Ids(p, "answer") : n < x.s_curTranId /\ n \in Int
      BY <1>4 DEF RequestsOf, InTransit, r
    <3> QED
      BY <1>1, <1>2, <2>4, <3>1
  <2>6. Ids(z.pendingQueue, "request") \cap Ids(d, "request") = {}
    BY <1>5, <2>1, <2>3 DEF RequestsOf, InTransit, r
  <2>7. Ids(p, "answer") \cap InTransit(z, d) = {} /\ 0 \notin Ids(p, "answer")
    BY <1>5, <2>4 DEF RequestsOf
  <2>8. RequestsOf(z, d, p)
    BY <2>2, <2>3, <2>5, <2>6, <2>7 DEF RequestsOf, r
  <2> QED
    BY <2>3, <2>4, <2>8 DEF z, y
<1>7. CASE ~x.ready
  <2> DEFINE d == Append(r, m)
  <2>1. Ids(d, "request") = Ids(r, "request") \cup {id} /\ In(d) = In(r) \cup {m}
    <3>1. In(d) = In(r) \cup {m}
      BY <1>1, Appended
    <3>2. Ids(d, "request") = Ids(r, "request") \cup {id}
      BY <1>1, SameKind
    <3> QED
      BY <3>1, <3>2
  <2>2. Once(d, "request")
    <3>1. \A k : Once(r, k) /\ (m.kind = k => m.id \notin Ids(r, k)) => Once(d, k)
      BY <1>1, Appended
    <3> HIDE DEF d
    <3> QED
      BY <1>5, <3>1 DEF RequestsOf, InTransit, r
  <2>3. z.pendingQueue = d /\ Going(y, q, m) = q
    BY <1>2, <1>3, <1>7
  <2> HIDE DEF d
  <2>4. InTransit(z, q) = InTransit(x, q) \cup {id}
    BY <2>1, <2>3 DEF InTransit, r
  <2>5. \A n \in InTransit(z, q) \cup Ids(p, "answer") : n < z.s_curTranId
    <3>1. \A n \in InTransit(x, q) \cup Ids(p, "answer") : n < x.s_curTranId /\ n \in Int
      BY <1>4 DEF RequestsOf, InTransit, r
    <3> QED
      BY <1>1, <1>2, <2>4, <3>1
  <2>6. Ids(z.pendingQueue, "request") \cap Ids(q, "request") = {}
    BY <1>5, <2>1, <2>3 DEF RequestsOf, InTransit, r
  <2>7. Ids(p, "answer") \cap InTransit(z, q) = {} /\ 0 \notin Ids(p, "answer")
    BY <1>5, <2>4 DEF RequestsOf
  <2>8. \A n \in In(z.pendingQueue) : n.kind = "request"
    BY <2>1, <2>3 DEF RequestsOf, r
  <2>9. RequestsOf(z, q, p)
    BY <2>2, <2>3, <2>5, <2>6, <2>7, <2>8 DEF RequestsOf
  <2> QED
    BY <2>3, <2>4, <2>9 DEF z, y
<1> QED
  BY <1>6, <1>7

\* An answer is sent: there is no other for the same request.
LEMMA RequestsAnswered ==
    ASSUME NEW x \in Windows, NEW q \in Queues, NEW p \in Queues, RequestsOf(x, q, p),
           NEW m \in Messages, m.kind = "answer", m.id # 0, m.id < x.s_curTranId,
           m.id \notin InTransit(x, q), m.id \notin Ids(p, "answer")
    PROVE  RequestsOf(x, q, Append(p, m)) /\ Ids(Append(p, m), "answer") = Ids(p, "answer") \cup {m.id}
<1> DEFINE d == Append(p, m)
<1>1. Ids(d, "answer") = Ids(p, "answer") \cup {m.id}
  <2>1. Ids(d, m.kind) = Ids(p, m.kind) \cup {m.id}
    BY Appended
  <2> QED
    BY <2>1
<1>2. \A k : Once(p, k) /\ (m.kind = k => m.id \notin Ids(p, k)) => Once(d, k)
  BY Appended
<1> HIDE DEF d
<1>3. Once(d, "answer")
  BY <1>2 DEF RequestsOf
<1>4. RequestsOf(x, q, d)
  BY <1>1, <1>3 DEF RequestsOf
<1> QED
  BY <1>1, <1>4 DEF d

\* What is on its way to the other side when a window opened.
LEMMA OpenIs ==
    ASSUME NEW x \in Windows, NEW q \in Queues, NEW type
    PROVE  LET d == Open(x, q, type)
           IN  /\ \A kind : kind # "ready" => Ids(d, kind) = Ids(q, kind) \cup Ids(x.pendingQueue, kind)
               /\ \A kind : kind # "ready" /\ Once(q, kind) /\ Once(x.pendingQueue, kind)
                                /\ Ids(q, kind) \cap Ids(x.pendingQueue, kind) = {} => Once(d, kind)
               /\ \A m \in In(d) : m.kind # "ready" => m \in In(q) \cup In(x.pendingQueue)
               /\ In(q) \cup In(x.pendingQueue) \subseteq In(d)
<1> DEFINE m == Channel!Ready("pong")
           e == IF type = "ping" THEN Append(q, m) ELSE q
           r == x.pendingQueue
           d == Open(x, q, type)
<1>1. m \in Messages /\ m.kind = "ready" /\ r \in Queues
  BY ReadyIsMessage DEF Windows
<1>2. d = e \o Channel!Reverse(r)
  BY DEF Open
<1> HIDE DEF m, d, r
<1>3. /\ e \in Queues /\ \A kind : kind # "ready" => Ids(e, kind) = Ids(q, kind) /\ (Once(q, kind) => Once(e, kind))
      /\ In(e) \subseteq In(q) \cup {m} /\ In(q) \subseteq In(e)
  <2>1. CASE type = "ping"
    <3>1. e = Append(q, m) /\ e \in Queues /\ In(e) = In(q) \cup {m}
      BY <1>1, <2>1, Appended
    <3> QED
      BY <1>1, <3>1, OtherKind
  <2>2. CASE type # "ping"
    BY <2>2
  <2> QED
    BY <2>1, <2>2
<1> HIDE DEF e
<1>4. /\ In(d) = In(e) \cup In(r)
      /\ \A kind : Ids(d, kind) = Ids(e, kind) \cup Ids(r, kind)
      /\ \A kind : Once(e, kind) /\ Once(r, kind) /\ Ids(e, kind) \cap Ids(r, kind) = {} => Once(d, kind)
  BY <1>1, <1>2, <1>3, Flushed
<1>5. \A kind : kind # "ready" => Ids(d, kind) = Ids(q, kind) \cup Ids(r, kind)
  BY <1>3, <1>4
<1>6. \A kind : kind # "ready" /\ Once(q, kind) /\ Once(r, kind) /\ Ids(q, kind) \cap Ids(r, kind) = {}
          => Once(d, kind)
  BY <1>3, <1>4
<1> QED
  BY <1>1, <1>3, <1>4, <1>5, <1>6 DEF d, r

\* What a window kept is sent when it opens.
LEMMA RequestsOpened ==
    ASSUME NEW x \in Windows, NEW q \in Queues, NEW p \in Queues, RequestsOf(x, q, p), NEW type
    PROVE  /\ RequestsOf(Opened(x), Open(x, q, type), p)
           /\ InTransit(Opened(x), Open(x, q, type)) = InTransit(x, q)
<1> DEFINE y == Opened(x)
           d == Open(x, q, type)
           r == x.pendingQueue
<1>1. y.pendingQueue = <<>> /\ y.s_curTranId = x.s_curTranId
  BY DEF Opened, Windows
<1>2. /\ \A kind : kind # "ready" => Ids(d, kind) = Ids(q, kind) \cup Ids(r, kind)
      /\ \A kind : kind # "ready" /\ Once(q, kind) /\ Once(r, kind) /\ Ids(q, kind) \cap Ids(r, kind) = {}
            => Once(d, kind)
  BY OpenIs
<1> HIDE DEF y, d
<1>3. Ids(d, "request") = InTransit(x, q) /\ Once(d, "request")
  BY <1>2 DEF RequestsOf, InTransit
<1>4. InTransit(y, d) = InTransit(x, q)
  BY <1>1, <1>3, NothingIn DEF InTransit
<1>5. RequestsOf(y, d, p)
  <2>1. /\ Ids(y.pendingQueue, "request") = {} /\ In(y.pendingQueue) = {} /\ Once(y.pendingQueue, "request")
    BY <1>1, NothingIn
  <2> QED
    BY <1>1, <1>3, <1>4, <2>1 DEF RequestsOf
<1> QED
  BY <1>4, <1>5 DEF y, d

\* The other side opens: what it queued are requests.
LEMMA RequestsSeeOpen ==
    ASSUME NEW x \in Windows, NEW q \in Queues, NEW p \in Queues, NEW y \in Windows, NEW type,
           RequestsOf(x, q, p), RequestsOf(y, p, q)
    PROVE  RequestsOf(x, q, Open(y, p, type)) /\ Ids(Open(y, p, type), "answer") = Ids(p, "answer")
<1> DEFINE d == Open(y, p, type)
           r == y.pendingQueue
<1>1. /\ \A kind : kind # "ready" => Ids(d, kind) = Ids(p, kind) \cup Ids(r, kind)
      /\ \A kind : kind # "ready" /\ Once(p, kind) /\ Once(r, kind) /\ Ids(p, kind) \cap Ids(r, kind) = {}
            => Once(d, kind)
  BY OpenIs
<1>2. \A m \in In(r) : m.kind # "answer"
  BY DEF RequestsOf
<1>3. Ids(r, "answer") = {}
  BY <1>2 DEF Ids
<1>4. Once(r, "answer")
  BY <1>2 DEF Once, In
<1> HIDE DEF d, r
<1>5. Ids(d, "answer") = Ids(p, "answer") /\ Once(d, "answer")
  BY <1>1, <1>3, <1>4 DEF RequestsOf
<1>6. RequestsOf(x, q, d)
  BY <1>5 DEF RequestsOf
<1> QED
  BY <1>5, <1>6 DEF d
--------------------------------------------------------------------------------
\* A callback of a request was heard, or comes before the answer.
Callbacks(id) == {m \in Messages : m.kind = "callback" /\ m.id = id}
Answers(id) == {m \in Messages : m.kind = "answer" /\ m.id = id}
CalledBack(p, heard, id) == id \in heard \/ Before(p, Callbacks(id), Answers(id))
Answered(l) == {l.ended[i][1] : i \in {j \in DOMAIN l.ended : l.ended[j][2] # "timeout"}}

(***************************************************************************)
(* The requests that are served: in, those that wait to be answered, are   *)
(* neither on their way nor answered, and what was called back before the  *)
(* answer was heard, or comes before the answer on p.                      *)
(***************************************************************************)
ServiceOf(cur, out, transit, p, ans, heard, in, invoked) ==
    /\ \A id \in in \cup invoked : id # 0
    /\ \A id \in in \cup invoked \cup ans : id < cur
    /\ in \cap (transit \cup Ids(p, "answer") \cup ans) = {}
    /\ (ans \cup invoked) \cap transit = {}
    /\ ans \cap invoked \subseteq heard
    /\ \A id \in invoked \cap out : CalledBack(p, heard, id)

\* Fewer requests wait, or are on their way.
LEMMA ServiceLess ==
    ASSUME NEW cur, NEW out, NEW transit, NEW p, NEW ans, NEW heard, NEW in, NEW invoked,
           ServiceOf(cur, out, transit, p, ans, heard, in, invoked),
           NEW less \in SUBSET out, NEW rest \in SUBSET transit, NEW u, NEW waits \in SUBSET in,
           Ids(u, "answer") \subseteq Ids(p, "answer"),
           \A id : Before(p, Callbacks(id), Answers(id)) => Before(u, Callbacks(id), Answers(id))
    PROVE  ServiceOf(cur, less, rest, u, ans, heard, waits, invoked)
BY DEF ServiceOf, CalledBack

\* A request is taken, and will be answered.
LEMMA ServiceTaken ==
    ASSUME NEW cur, NEW out, NEW transit, NEW p, NEW ans, NEW heard, NEW in, NEW invoked,
           ServiceOf(cur, out, transit, p, ans, heard, in, invoked),
           NEW rest \in SUBSET transit, NEW id \in transit, id \notin rest, id # 0, id < cur, id \notin Ids(p, "answer")
    PROVE  ServiceOf(cur, out, rest, p, ans, heard, in \cup {id}, invoked)
BY DEF ServiceOf

\* A message is taken from the queue; a callback is heard.
LEMMA ServiceDrops ==
    ASSUME NEW cur, NEW out, NEW transit, NEW p \in Queues, p # <<>>, NEW ans, NEW heard, NEW in, NEW invoked,
           ServiceOf(cur, out, transit, p, ans, heard, in, invoked),
           NEW hears, heard \subseteq hears,
           Head(p).kind = "callback" /\ Head(p).id # 0 /\ Head(p).id \in out => Head(p).id \in hears
    PROVE  ServiceOf(cur, out, transit, Tail(p), ans, hears, in, invoked)
<1>1. Ids(Tail(p), "answer") \subseteq Ids(p, "answer")
  BY LessTaken
<1>2. ASSUME NEW id \in invoked \cap out
      PROVE  CalledBack(Tail(p), hears, id)
  <2>1. CASE id \in hears
    BY <2>1 DEF CalledBack
  <2>2. CASE id \notin hears
    <3>1. Before(p, Callbacks(id), Answers(id)) /\ id # 0
      BY <1>2, <2>2 DEF ServiceOf, CalledBack
    <3>2. Head(p) \notin Callbacks(id)
      BY <1>2, <2>2, <3>1 DEF Callbacks
    <3> QED
      BY <3>1, <3>2, TakenBefore DEF CalledBack
  <2> QED
    BY <2>1, <2>2
<1> QED
  BY <1>1, <1>2 DEF ServiceOf

\* A call ends with its answer: its callbacks were heard before.
LEMMA ServiceEnds ==
    ASSUME NEW cur, NEW out, NEW transit, NEW p \in Queues, p # <<>>, NEW ans, NEW heard, NEW in, NEW invoked,
           ServiceOf(cur, out, transit, p, ans, heard, in, invoked),
           NEW id \in out, Head(p).kind = "answer", Head(p).id = id, id < cur, id \notin transit,
           NEW all, all \subseteq ans \cup {id}
    PROVE  ServiceOf(cur, out \ {id}, transit, Tail(p), all, heard, in, invoked)
<1>1. ServiceOf(cur, out, transit, Tail(p), ans, heard, in, invoked)
  BY ServiceDrops
<1>2. Head(p) \in Answers(id) /\ id \in Ids(p, "answer")
  BY Taken DEF Answers
<1>3. id \notin in
  BY <1>2 DEF ServiceOf
<1>4. id \in invoked => id \in heard
  BY <1>2, TakenBefore DEF ServiceOf, CalledBack
<1> QED
  BY <1>1, <1>3, <1>4 DEF ServiceOf

\* A call is made: nobody served its id yet.
LEMMA ServiceCalled ==
    ASSUME NEW cur \in Int, NEW out, NEW transit, NEW p, NEW ans \in SUBSET Int, NEW heard,
           NEW in \in SUBSET Int, NEW invoked \in SUBSET Int,
           ServiceOf(cur, out, transit, p, ans, heard, in, invoked)
    PROVE  ServiceOf(cur + 1, out \cup {cur}, transit \cup {cur}, p, ans, heard, in, invoked)
<1>1. cur \notin in \cup invoked \cup ans
  BY DEF ServiceOf
<1>2. \A id \in in \cup invoked \cup ans : id < cur + 1
  BY DEF ServiceOf
<1> QED
  BY <1>1, <1>2 DEF ServiceOf

\* A request is answered.
LEMMA ServiceCompleted ==
    ASSUME NEW cur, NEW out, NEW transit, NEW p \in Queues, NEW ans, NEW heard, NEW in, NEW invoked,
           ServiceOf(cur, out, transit, p, ans, heard, in, invoked),
           NEW m \in Messages, m.kind = "answer"
    PROVE  ServiceOf(cur, out, transit, Append(p, m), ans, heard, in \ {m.id}, invoked)
<1> DEFINE d == Append(p, m)
<1>1. Ids(d, "answer") = Ids(p, "answer") \cup {m.id}
  BY SameKind
<1>2. \A id : Before(p, Callbacks(id), Answers(id)) => Before(d, Callbacks(id), Answers(id))
  BY AppendedBefore
<1> HIDE DEF d
<1>3. ServiceOf(cur, out, transit, d, ans, heard, in \ {m.id}, invoked)
  BY <1>1, <1>2 DEF ServiceOf, CalledBack
<1> QED
  BY <1>3 DEF d

\* A function that answers later calls back.
LEMMA ServiceInvoked ==
    ASSUME NEW cur, NEW out, NEW transit, NEW p \in Queues, NEW ans, NEW heard, NEW in, NEW invoked,
           ServiceOf(cur, out, transit, p, ans, heard, in, invoked),
           NEW m \in Messages, m.kind = "callback", m.id \in in
    PROVE  ServiceOf(cur, out, transit, Append(p, m), ans, heard, in, invoked \cup {m.id})
<1> DEFINE d == Append(p, m)
<1>1. Ids(d, "answer") = Ids(p, "answer")
  BY OtherKind
<1>2. \A id : Before(p, Callbacks(id), Answers(id)) => Before(d, Callbacks(id), Answers(id))
  BY AppendedBefore
<1>3. Before(d, Callbacks(m.id), Answers(m.id))
  <2>1. m \in Callbacks(m.id) /\ m \notin Answers(m.id)
    BY DEF Callbacks, Answers
  <2>2. In(p) \cap Answers(m.id) = {}
    <3>1. m.id \notin Ids(p, "answer")
      BY DEF ServiceOf
    <3> QED
      BY <3>1 DEF Ids, Answers
  <2> QED
    BY <2>1, <2>2, AppendedBefore
<1> HIDE DEF d
<1>4. ServiceOf(cur, out, transit, d, ans, heard, in, invoked \cup {m.id})
  BY <1>1, <1>2, <1>3 DEF ServiceOf, CalledBack
<1> QED
  BY <1>4 DEF d
--------------------------------------------------------------------------------
\* Who was answered, after another call ended.
LEMMA NotedIs ==
    ASSUME NEW l \in Logs, NEW id \in Int, NEW how \in Args
    PROVE  /\ Answered(Noted(l, id, how)) \subseteq Answered(l) \cup {id}
           /\ how = "timeout" => Answered(Noted(l, id, how)) = Answered(l)
           /\ Answered(l) \in SUBSET Int
           /\ Noted(l, id, how).heard = l.heard /\ Noted(l, id, how).invoked = l.invoked
<1> DEFINE k == Noted(l, id, how)
<1>1. /\ DOMAIN l.ended = 1 .. Len(l.ended) /\ DOMAIN k.ended = 1 .. Len(l.ended) + 1 /\ Len(l.ended) \in Nat
      /\ \A i \in 1 .. Len(l.ended) : k.ended[i] = l.ended[i]
      /\ k.ended[Len(l.ended) + 1] = <<id, how>>
  <2>1. k.ended = Append(l.ended, <<id, how>>) /\ l.ended \in Seq(Int \X Args) /\ <<id, how>> \in Int \X Args
    BY DEF Noted, Logs
  <2> HIDE DEF k
  <2> QED
    BY <2>1
<1>2. \A i \in DOMAIN l.ended : l.ended[i] \in Int \X Args
  BY DEF Logs
<1>3. k.heard = l.heard /\ k.invoked = l.invoked
  BY DEF Noted, Logs
<1> HIDE DEF k
<1>4. ASSUME NEW n \in Answered(k)
      PROVE  n \in Answered(l) \/ (n = id /\ how # "timeout")
  <2>1. PICK i \in DOMAIN k.ended : k.ended[i][2] # "timeout" /\ n = k.ended[i][1]
    BY DEF Answered
  <2>2. CASE i \in 1 .. Len(l.ended)
    BY <1>1, <2>1, <2>2 DEF Answered
  <2>3. CASE i \notin 1 .. Len(l.ended)
    <3>1. i = Len(l.ended) + 1
      BY <1>1, <2>1, <2>3
    <3> QED
      BY <1>1, <2>1, <3>1
  <2> QED
    BY <2>2, <2>3
<1>5. ASSUME NEW n \in Answered(l)
      PROVE  n \in Answered(k)
  <2>1. PICK i \in DOMAIN l.ended : l.ended[i][2] # "timeout" /\ n = l.ended[i][1]
    BY DEF Answered
  <2>2. i \in DOMAIN k.ended /\ k.ended[i] = l.ended[i]
    BY <1>1, <2>1
  <2> QED
    BY <2>1, <2>2 DEF Answered
<1>6. Answered(l) \in SUBSET Int
  BY <1>2 DEF Answered
<1> QED
  BY <1>3, <1>4, <1>5, <1>6 DEF k
--------------------------------------------------------------------------------
\* Both sides of what flows between them, from either.
Flows(x, y, p, q) == ReadyGood(x, y, p) /\ ReadyGood(y, x, q) /\ RequestsOf(x, q, p) /\ RequestsOf(y, p, q)
ServiceFor(x, y, q, p, l, k) ==
    /\ y.inTbl # {} => y.ready = TRUE
    /\ ServiceOf(x.s_curTranId, x.outTbl, InTransit(x, q), p, Answered(l), l.heard, y.inTbl, k.invoked)
Serves(x, y, p, q, l, k) == ServiceFor(x, y, q, p, l, k) /\ ServiceFor(y, x, p, q, k, l)

\* What a request on its way was.
LEMMA FlowsTake ==
    ASSUME NEW x \in Windows, NEW y \in Windows, NEW p \in Queues, NEW q \in Queues, Flows(x, y, p, q), p # <<>>,
           x.ready = FALSE /\ Head(p).kind = "ready" => x.bound = FALSE \/ x.registered = FALSE
    PROVE  /\ Flows(x, y, Tail(p), q)
           /\ Head(p).kind = "request" =>
                /\ Head(p).id \in InTransit(y, p) /\ Head(p).id \notin InTransit(y, Tail(p))
                /\ Head(p).id < y.s_curTranId /\ Head(p).id \notin Ids(q, "answer")
           /\ Head(p).kind # "ready" => x.ready = TRUE
           /\ InTransit(y, Tail(p)) \subseteq InTransit(y, p)
<1>1. ReadyGood(x, y, Tail(p))
  BY ReadyDrops DEF Flows
<1>2. ReadyGood(y, x, q)
  BY DEF Flows
<1>3. \A kind : Ids(Tail(p), kind) \subseteq Ids(p, kind) /\ (Once(p, kind) => Once(Tail(p), kind))
  BY LessTaken
<1>4. RequestsOf(x, q, Tail(p))
  BY <1>3, RequestsLess DEF Flows, RequestsOf
<1>5. RequestsOf(y, Tail(p), q)
  BY <1>3, RequestsLess DEF Flows, RequestsOf
<1>6. ASSUME Head(p).kind = "request"
      PROVE  /\ Head(p).id \in InTransit(y, p) /\ Head(p).id \notin InTransit(y, Tail(p))
             /\ Head(p).id < y.s_curTranId /\ Head(p).id \notin Ids(q, "answer")
  <2>1. RequestsOf(y, p, q)
    BY DEF Flows
  <2>2. Head(p).id \in Ids(p, "request")
    BY <1>6, Taken
  <2>3. Head(p).id \notin Ids(Tail(p), "request")
    BY <1>6, <2>1, Taken DEF RequestsOf
  <2> QED
    BY <2>1, <2>2, <2>3 DEF RequestsOf, InTransit
<1>7. Head(p).kind # "ready" => x.ready = TRUE
  BY DEF Flows, ReadyGood, Windows
<1>8. InTransit(y, Tail(p)) \subseteq InTransit(y, p)
  BY <1>3 DEF InTransit
<1> QED
  BY <1>1, <1>2, <1>4, <1>5, <1>6, <1>7, <1>8 DEF Flows

\* What flows depends on the flags, the queue and the next id of a window.
LEMMA FlowsSame ==
    ASSUME NEW x, NEW y, NEW p, NEW q, Flows(x, y, p, q),
           NEW u, Face(u) = Face(x), u.pendingQueue = x.pendingQueue, u.s_curTranId = x.s_curTranId
    PROVE  Flows(u, y, p, q)
<1>1. ReadyGood(u, y, p) /\ ReadyGood(y, u, q)
  BY FaceIsAll DEF Flows
<1>2. RequestsOf(u, q, p) /\ RequestsOf(y, p, q)
  BY DEF Flows, RequestsOf, InTransit
<1> QED
  BY <1>1, <1>2 DEF Flows

\* A channel is built.
LEMMA FlowsBuild ==
    ASSUME NEW x \in Windows, NEW y \in Windows, NEW p, NEW q, Flows(x, y, p, q),
           x.bound = FALSE, NEW u, u = [x EXCEPT !.bound = TRUE, !.registered = TRUE, !.ready = FALSE]
    PROVE  Flows(u, y, p, q) /\ x.ready = FALSE
<1>1. ReadyGood(u, y, p) /\ ReadyGood(y, u, q)
  BY ReadyBuilds DEF Flows
<1>2. u.pendingQueue = x.pendingQueue /\ u.s_curTranId = x.s_curTranId
  BY DEF Windows
<1>3. RequestsOf(u, q, p) /\ RequestsOf(y, p, q)
  BY <1>2 DEF Flows, RequestsOf, InTransit
<1>4. x.ready = FALSE
  BY DEF Flows, ReadyGood, Windows
<1> QED
  BY <1>1, <1>3, <1>4 DEF Flows

\* A ping is sent.
LEMMA FlowsPing ==
    ASSUME NEW x \in Windows, NEW y \in Windows, NEW p \in Queues, NEW q \in Queues, Flows(x, y, p, q),
           x.bound = TRUE, NEW u, u = [x EXCEPT !.pinged = TRUE]
    PROVE  Flows(u, y, p, Append(q, Channel!Ready("ping")))
<1> DEFINE m == Channel!Ready("ping")
           d == Append(q, m)
<1>1. ReadyGood(u, y, p) /\ ReadyGood(y, u, d)
  BY ReadyPings DEF Flows
<1>2. u.pendingQueue = x.pendingQueue /\ u.s_curTranId = x.s_curTranId
  BY DEF Windows
<1>3. m \in Messages /\ m.kind = "ready"
  BY ReadyIsMessage
<1> HIDE DEF m
<1>4. \A kind : kind # "ready" => Ids(d, kind) = Ids(q, kind) /\ (Once(q, kind) => Once(d, kind))
  BY <1>3, OtherKind
<1> HIDE DEF d
<1>5. Ids(d, "request") = Ids(q, "request") /\ Once(d, "request") /\ Ids(d, "answer") = Ids(q, "answer") /\ Once(d, "answer")
  BY <1>4 DEF Flows, RequestsOf
<1>6. RequestsOf(u, d, p) /\ RequestsOf(y, p, d)
  BY <1>2, <1>5 DEF Flows, RequestsOf, InTransit
<1> QED
  BY <1>1, <1>6 DEF Flows, d, m

\* A request is posted.
LEMMA FlowsCall ==
    ASSUME NEW x \in Windows, NEW y \in Windows, NEW p \in Queues, NEW q \in Queues, Flows(x, y, p, q),
           NEW timed \in BOOLEAN, Called(x, timed) \in Windows,
           NEW m \in Messages, m.kind = "request", m.id = x.s_curTranId
    PROVE  LET z == Waiting(Called(x, timed), m)
               d == Going(Called(x, timed), q, m)
           IN  /\ Flows(z, y, p, d)
               /\ InTransit(z, d) = InTransit(x, q) \cup {m.id}
               /\ Ids(d, "answer") = Ids(q, "answer")
               /\ \A id : Before(q, Callbacks(id), Answers(id)) => Before(d, Callbacks(id), Answers(id))
<1> DEFINE c == Called(x, timed)
           z == Waiting(c, m)
           d == Going(c, q, m)
<1>1. Face(c) = Face(x)
  BY DEF Called, Windows, Face
<1> HIDE DEF c
<1>2. ReadyGood(c, y, p) /\ ReadyGood(y, c, q)
  BY <1>1, FaceIsAll DEF Flows
<1>3. ReadyGood(y, z, d)
  BY <1>2, ReadyPosts DEF c
<1>4. Face(z) = Face(c)
  BY WaitingIs DEF c
<1>5. ReadyGood(z, y, p)
  BY <1>2, <1>4, FaceIsAll
<1>6. RequestsOf(z, d, p) /\ InTransit(z, d) = InTransit(x, q) \cup {m.id}
  BY RequestsCalled DEF Flows, c
<1>7. /\ Ids(d, "answer") = Ids(q, "answer") /\ (Once(q, "answer") => Once(d, "answer"))
      /\ \A id : Before(q, Callbacks(id), Answers(id)) => Before(d, Callbacks(id), Answers(id))
  <2>1. CASE d = q
    BY <2>1
  <2>2. CASE d = Append(q, m)
    BY <2>2, OtherKind, AppendedBefore
  <2> QED
    BY <2>1, <2>2 DEF Going
<1> HIDE DEF d, z
<1>8. RequestsOf(y, p, d)
  BY <1>7 DEF Flows, RequestsOf
<1> QED
  BY <1>3, <1>5, <1>6, <1>7, <1>8 DEF Flows, z, d, c

\* A window opens.
LEMMA FlowsOpen ==
    ASSUME NEW x \in Windows, NEW y \in Windows, NEW p \in Queues, NEW q \in Queues, Flows(x, y, p, q), p # <<>>,
           Head(p).kind = "ready", x.bound = TRUE
    PROVE  LET u == Opened(x)
               d == Open(x, q, Head(p).arg)
           IN  /\ Flows(u, y, Tail(p), d)
               /\ InTransit(u, d) = InTransit(x, q) /\ Ids(d, "answer") = Ids(q, "answer")
               /\ \A id : Before(q, Callbacks(id), Answers(id)) => Before(d, Callbacks(id), Answers(id))
<1> DEFINE u == Opened(x)
           type == Head(p).arg
           d == Open(x, q, type)
<1>1. \A m \in In(x.pendingQueue) : m.kind # "ready"
  BY DEF Flows, RequestsOf
<1>2. ReadyGood(u, y, Tail(p)) /\ ReadyGood(y, u, d)
  BY <1>1, ReadyOpens DEF Flows
<1>3. \A kind : Ids(Tail(p), kind) \subseteq Ids(p, kind) /\ (Once(p, kind) => Once(Tail(p), kind))
  BY LessTaken
<1>4. RequestsOf(x, q, Tail(p)) /\ RequestsOf(y, Tail(p), q) /\ Tail(p) \in Queues
  BY <1>3, RequestsLess, Taken DEF Flows, RequestsOf
<1>5. RequestsOf(u, d, Tail(p)) /\ InTransit(u, d) = InTransit(x, q)
  BY <1>4, RequestsOpened
<1>6. RequestsOf(y, Tail(p), d) /\ Ids(d, "answer") = Ids(q, "answer")
  BY <1>4, RequestsSeeOpen
<1>7. ASSUME NEW id, Before(q, Callbacks(id), Answers(id))
      PROVE  Before(d, Callbacks(id), Answers(id))
  <2> DEFINE e == IF type = "ping" THEN Append(q, Channel!Ready("pong")) ELSE q
  <2>1. e \in Queues /\ Before(e, Callbacks(id), Answers(id))
    BY <1>7, ReadyIsMessage, Appended, AppendedBefore
  <2>2. d = e \o Channel!Reverse(x.pendingQueue) /\ x.pendingQueue \in Queues
    BY DEF Open, Windows
  <2> HIDE DEF e, d
  <2> QED
    BY <2>1, <2>2, FlushedBefore
<1> QED
  BY <1>2, <1>5, <1>6, <1>7 DEF Flows

\* An answer is sent.
LEMMA FlowsAnswer ==
    ASSUME NEW x \in Windows, NEW y \in Windows, NEW p \in Queues, NEW q \in Queues, Flows(x, y, p, q),
           x.ready = TRUE, NEW m \in Messages, m.kind = "answer", m.id # 0, m.id < y.s_curTranId,
           m.id \notin InTransit(y, p), m.id \notin Ids(q, "answer")
    PROVE  Flows(x, y, p, Append(q, m))
<1> DEFINE d == Append(q, m)
<1>1. ReadyGood(x, y, p) /\ ReadyGood(y, x, d)
  BY ReadySends DEF Flows
<1>2. RequestsOf(y, p, d)
  BY RequestsAnswered DEF Flows
<1>3. Ids(d, "request") = Ids(q, "request") /\ (Once(q, "request") => Once(d, "request"))
  BY OtherKind
<1> HIDE DEF d
<1>4. RequestsOf(x, d, p)
  BY <1>3 DEF Flows, RequestsOf, InTransit
<1> QED
  BY <1>1, <1>2, <1>4 DEF Flows, d

\* A callback is sent.
LEMMA FlowsCallback ==
    ASSUME NEW x \in Windows, NEW y \in Windows, NEW p \in Queues, NEW q \in Queues, Flows(x, y, p, q),
           x.ready = TRUE, NEW m \in Messages, m.kind = "callback"
    PROVE  Flows(x, y, p, Append(q, m))
<1> DEFINE d == Append(q, m)
<1>1. ReadyGood(x, y, p) /\ ReadyGood(y, x, d)
  BY ReadySends DEF Flows
<1>2. Ids(d, "request") = Ids(q, "request") /\ (Once(q, "request") => Once(d, "request"))
  BY OtherKind
<1>3. Ids(d, "answer") = Ids(q, "answer") /\ (Once(q, "answer") => Once(d, "answer"))
  BY OtherKind
<1> HIDE DEF d
<1>4. RequestsOf(x, d, p) /\ RequestsOf(y, p, d)
  BY <1>2, <1>3 DEF Flows, RequestsOf, InTransit
<1> QED
  BY <1>1, <1>4 DEF Flows, d
--------------------------------------------------------------------------------
\* What is between two windows x and y, with the messages to x and to y and their histories.
Good(x, y, p, q, l, k) == Flows(x, y, p, q) /\ Serves(x, y, p, q, l, k)

\* The sets that a service is about.
LEMMA Sets ==
    ASSUME NEW x \in Windows, NEW l \in Logs
    PROVE  /\ x.s_curTranId \in Int /\ x.outTbl \in SUBSET Int /\ x.inTbl \in SUBSET Int /\ x.ready \in BOOLEAN
           /\ x.pendingQueue \in Queues /\ x.bound \in BOOLEAN /\ x.registered \in BOOLEAN
           /\ l.heard \in SUBSET Int /\ l.invoked \in SUBSET Int /\ Answered(l) \in SUBSET Int
<1>1. \A i \in DOMAIN l.ended : l.ended[i] \in Int \X Args
  BY DEF Logs
<1>2. Answered(l) \in SUBSET Int
  BY <1>1 DEF Answered
<1> QED
  BY <1>2 DEF Windows, Logs

\* The same service, seen by a side whose window changed in other things.
LEMMA ServiceSame ==
    ASSUME NEW x, NEW y, NEW q, NEW p, NEW l, NEW k, ServiceFor(x, y, q, p, l, k),
           NEW u, NEW v, NEW d, NEW e, NEW n,
           u.s_curTranId = x.s_curTranId, u.outTbl = x.outTbl, InTransit(u, d) \subseteq InTransit(x, q),
           v.inTbl = y.inTbl, v.inTbl # {} => v.ready = TRUE, n = k.invoked,
           Ids(e, "answer") \subseteq Ids(p, "answer"),
           \A id : Before(p, Callbacks(id), Answers(id)) => Before(e, Callbacks(id), Answers(id))
    PROVE  /\ v.inTbl # {} => v.ready = TRUE
           /\ ServiceOf(u.s_curTranId, u.outTbl, InTransit(u, d), e, Answered(l), l.heard, v.inTbl, n)
<1>1. ServiceOf(x.s_curTranId, x.outTbl, InTransit(x, q), p, Answered(l), l.heard, y.inTbl, k.invoked)
  BY DEF ServiceFor
<1>2. ServiceOf(x.s_curTranId, x.outTbl, InTransit(u, d), e, Answered(l), l.heard, y.inTbl, k.invoked)
  BY <1>1, ServiceLess
<1> QED
  BY <1>2

\* A channel is built.
LEMMA GoodBuild ==
    ASSUME NEW x \in Windows, NEW y \in Windows, NEW p \in Queues, NEW q \in Queues, NEW l, NEW k,
           Good(x, y, p, q, l, k), x.bound = FALSE
    PROVE  Good([x EXCEPT !.bound = TRUE, !.registered = TRUE, !.ready = FALSE], y, p, q, l, k)
<1> DEFINE u == [x EXCEPT !.bound = TRUE, !.registered = TRUE, !.ready = FALSE]
<1>1. Flows(u, y, p, q) /\ x.ready = FALSE
  BY FlowsBuild DEF Good
<1>2. /\ u.s_curTranId = x.s_curTranId /\ u.outTbl = x.outTbl /\ u.inTbl = x.inTbl /\ u.pendingQueue = x.pendingQueue
  BY DEF Windows
<1> HIDE DEF u
<1>3. x.inTbl = {} /\ InTransit(u, q) = InTransit(x, q)
  BY <1>1, <1>2 DEF Good, Serves, ServiceFor, InTransit
<1>4. ServiceFor(u, y, q, p, l, k)
  BY <1>2, <1>3 DEF Good, Serves, ServiceFor
<1>5. ServiceFor(y, u, p, q, k, l)
  BY <1>2, <1>3 DEF Good, Serves, ServiceFor
<1> QED
  BY <1>1, <1>4, <1>5 DEF Good, Serves, u

\* A ping is sent.
LEMMA GoodPing ==
    ASSUME NEW x \in Windows, NEW y \in Windows, NEW p \in Queues, NEW q \in Queues, NEW l, NEW k,
           Good(x, y, p, q, l, k), x.bound = TRUE
    PROVE  Good([x EXCEPT !.pinged = TRUE], y, p, Append(q, Channel!Ready("ping")), l, k)
<1> DEFINE u == [x EXCEPT !.pinged = TRUE]
           m == Channel!Ready("ping")
           d == Append(q, m)
<1>1. Flows(u, y, p, d)
  BY FlowsPing DEF Good
<1>2. /\ u.s_curTranId = x.s_curTranId /\ u.outTbl = x.outTbl /\ u.inTbl = x.inTbl /\ u.pendingQueue = x.pendingQueue
      /\ u.ready = x.ready
  BY DEF Windows
<1>3. m \in Messages /\ m.kind = "ready"
  BY ReadyIsMessage
<1> HIDE DEF u, m
<1>4. /\ Ids(d, "request") = Ids(q, "request") /\ Ids(d, "answer") = Ids(q, "answer")
      /\ \A id : Before(q, Callbacks(id), Answers(id)) => Before(d, Callbacks(id), Answers(id))
  BY <1>3, OtherKind, AppendedBefore
<1> HIDE DEF d
<1>5. InTransit(u, d) = InTransit(x, q)
  BY <1>2, <1>4 DEF InTransit
<1>6. ServiceFor(u, y, d, p, l, k)
  BY <1>2, <1>5 DEF Good, Serves, ServiceFor
<1>7. ServiceFor(y, u, p, d, k, l)
  <2>1. ServiceFor(y, x, p, q, k, l)
    BY DEF Good, Serves
  <2>2. u.inTbl # {} => u.ready = TRUE
    BY <1>2, <2>1 DEF ServiceFor
  <2> QED
    BY <1>2, <1>4, <2>1, <2>2, ServiceSame DEF ServiceFor
<1> QED
  BY <1>1, <1>6, <1>7 DEF Good, Serves, u, d, m

\* A call is made.
LEMMA GoodCall ==
    ASSUME NEW x \in Windows, NEW y \in Windows, NEW p \in Queues, NEW q \in Queues, NEW l \in Logs, NEW k \in Logs,
           Good(x, y, p, q, l, k), NEW timed \in BOOLEAN, Called(x, timed) \in Windows,
           NEW m \in Messages, m.kind = "request", m.id = x.s_curTranId,
           NEW n, n.ended = l.ended, n.heard = l.heard, n.invoked = l.invoked
    PROVE  Good(Waiting(Called(x, timed), m), y, p, Going(Called(x, timed), q, m), n, k)
<1> DEFINE c == Called(x, timed)
           z == Waiting(c, m)
           d == Going(c, q, m)
<1>1. /\ Flows(z, y, p, d)
      /\ InTransit(z, d) = InTransit(x, q) \cup {m.id}
      /\ Ids(d, "answer") = Ids(q, "answer")
      /\ \A id : Before(q, Callbacks(id), Answers(id)) => Before(d, Callbacks(id), Answers(id))
  BY FlowsCall DEF Good
<1>2. /\ c.s_curTranId = x.s_curTranId + 1 /\ c.outTbl = x.outTbl \cup {x.s_curTranId} /\ c.inTbl = x.inTbl
      /\ c.ready = x.ready
  BY DEF Windows, Called
<1> HIDE DEF c
<1>3. z.s_curTranId = c.s_curTranId /\ z.outTbl = c.outTbl /\ z.inTbl = c.inTbl /\ z.ready = c.ready
  BY WaitingIs DEF c
<1> HIDE DEF z, d
<1>4. Answered(n) = Answered(l)
  BY DEF Answered
<1>5. ServiceFor(x, y, q, p, l, k) /\ ServiceFor(y, x, p, q, k, l)
  BY DEF Good, Serves
<1>6. ServiceFor(z, y, d, p, n, k)
  <2>1. ServiceOf(x.s_curTranId, x.outTbl, InTransit(x, q), p, Answered(l), l.heard, y.inTbl, k.invoked)
    BY <1>5 DEF ServiceFor
  <2>2. ServiceOf(x.s_curTranId + 1, x.outTbl \cup {x.s_curTranId}, InTransit(x, q) \cup {x.s_curTranId}, p,
                  Answered(l), l.heard, y.inTbl, k.invoked)
    BY <2>1, Sets, ServiceCalled
  <2> QED
    BY <1>1, <1>2, <1>3, <1>4, <1>5, <2>2 DEF ServiceFor
<1>7. ServiceFor(y, z, p, d, k, n)
  <2>1. z.inTbl # {} => z.ready = TRUE
    BY <1>2, <1>3, <1>5 DEF ServiceFor
  <2>2. z.inTbl = x.inTbl
    BY <1>2, <1>3
  <2>3. ServiceOf(y.s_curTranId, y.outTbl, InTransit(y, p), q, Answered(k), k.heard, x.inTbl, l.invoked)
    BY <1>5 DEF ServiceFor
  <2>4. ServiceOf(y.s_curTranId, y.outTbl, InTransit(y, p), d, Answered(k), k.heard, x.inTbl, l.invoked)
    BY <1>1, <2>3, ServiceLess
  <2> QED
    BY <2>1, <2>2, <2>4 DEF ServiceFor
<1> QED
  BY <1>1, <1>6, <1>7 DEF Good, Serves, z, d, c

\* A message is taken, and perhaps heard.
LEMMA GoodTail ==
    ASSUME NEW x \in Windows, NEW y \in Windows, NEW p \in Queues, NEW q \in Queues, NEW l, NEW k, p # <<>>,
           Good(x, y, p, q, l, k),
           x.ready = FALSE /\ Head(p).kind = "ready" => x.bound = FALSE \/ x.registered = FALSE,
           NEW n, n.ended = l.ended, n.invoked = l.invoked, l.heard \subseteq n.heard,
           Head(p).kind = "callback" /\ Head(p).id # 0 /\ Head(p).id \in x.outTbl => Head(p).id \in n.heard
    PROVE  Good(x, y, Tail(p), q, n, k)
<1>1. Flows(x, y, Tail(p), q) /\ InTransit(y, Tail(p)) \subseteq InTransit(y, p)
  BY FlowsTake DEF Good
<1>2. ServiceFor(x, y, q, p, l, k) /\ ServiceFor(y, x, p, q, k, l)
  BY DEF Good, Serves
<1>3. Answered(n) = Answered(l)
  BY DEF Answered
<1>4. ServiceFor(x, y, q, Tail(p), n, k)
  BY <1>2, <1>3, ServiceDrops DEF ServiceFor
<1>5. ServiceFor(y, x, Tail(p), q, k, n)
  BY <1>1, <1>2, ServiceSame DEF ServiceFor
<1> QED
  BY <1>1, <1>4, <1>5 DEF Good, Serves

\* A window opens.
LEMMA GoodOpen ==
    ASSUME NEW x \in Windows, NEW y \in Windows, NEW p \in Queues, NEW q \in Queues, NEW l, NEW k, p # <<>>,
           Good(x, y, p, q, l, k), Head(p).kind = "ready", x.bound = TRUE
    PROVE  Good(Opened(x), y, Tail(p), Open(x, q, Head(p).arg), l, k)
<1> DEFINE u == Opened(x)
           d == Open(x, q, Head(p).arg)
<1>1. /\ Flows(u, y, Tail(p), d)
      /\ InTransit(u, d) = InTransit(x, q) /\ Ids(d, "answer") = Ids(q, "answer")
      /\ \A id : Before(q, Callbacks(id), Answers(id)) => Before(d, Callbacks(id), Answers(id))
  BY FlowsOpen DEF Good
<1>2. /\ u.s_curTranId = x.s_curTranId /\ u.outTbl = x.outTbl /\ u.inTbl = x.inTbl /\ u.ready = TRUE
  BY DEF Windows, Opened
<1> HIDE DEF u, d
<1>3. ServiceFor(x, y, q, p, l, k) /\ ServiceFor(y, x, p, q, k, l)
  BY DEF Good, Serves
<1>4. ServiceFor(u, y, d, Tail(p), l, k)
  <2>1. ServiceOf(x.s_curTranId, x.outTbl, InTransit(x, q), Tail(p), Answered(l), l.heard, y.inTbl, k.invoked)
    BY <1>3, ServiceDrops DEF ServiceFor
  <2> QED
    BY <1>1, <1>2, <1>3, <2>1 DEF ServiceFor
<1>5. ServiceFor(y, u, Tail(p), d, k, l)
  <2>1. InTransit(y, Tail(p)) \subseteq InTransit(y, p)
    BY LessTaken DEF InTransit
  <2>2. ServiceOf(y.s_curTranId, y.outTbl, InTransit(y, p), q, Answered(k), k.heard, x.inTbl, l.invoked)
    BY <1>3 DEF ServiceFor
  <2>3. ServiceOf(y.s_curTranId, y.outTbl, InTransit(y, Tail(p)), d, Answered(k), k.heard, x.inTbl, l.invoked)
    BY <1>1, <2>1, <2>2, ServiceLess
  <2> QED
    BY <1>2, <2>3 DEF ServiceFor
<1> QED
  BY <1>1, <1>4, <1>5 DEF Good, Serves, u, d

\* A request is taken, to be answered.
LEMMA GoodTake ==
    ASSUME NEW x \in Windows, NEW y \in Windows, NEW p \in Queues, NEW q \in Queues, NEW l, NEW k, p # <<>>,
           Good(x, y, p, q, l, k), Head(p).kind = "request", Head(p).id # 0
    PROVE  Good(TakenBy(x, Head(p).id), y, Tail(p), q, l, k) /\ x.ready = TRUE
<1> DEFINE id == Head(p).id
           u == TakenBy(x, id)
<1>1. /\ Flows(x, y, Tail(p), q) /\ x.ready = TRUE
      /\ id \in InTransit(y, p) /\ id \notin InTransit(y, Tail(p))
      /\ id < y.s_curTranId /\ id \notin Ids(q, "answer") /\ InTransit(y, Tail(p)) \subseteq InTransit(y, p)
  BY FlowsTake DEF Good
<1>2. /\ u.s_curTranId = x.s_curTranId /\ u.outTbl = x.outTbl /\ u.inTbl = x.inTbl \cup {id} /\ u.ready = x.ready
      /\ Face(u) = Face(x) /\ u.pendingQueue = x.pendingQueue
  BY DEF Windows, TakenBy, Face
<1>0. id # 0
  OBVIOUS
<1> HIDE DEF u, id
<1>3. Flows(u, y, Tail(p), q)
  BY <1>1, <1>2, FlowsSame
<1>4. ServiceFor(x, y, q, p, l, k) /\ ServiceFor(y, x, p, q, k, l)
  BY DEF Good, Serves
<1>5. ServiceFor(u, y, q, Tail(p), l, k)
  <2>1. ServiceOf(x.s_curTranId, x.outTbl, InTransit(x, q), Tail(p), Answered(l), l.heard, y.inTbl, k.invoked)
    BY <1>4, ServiceDrops DEF ServiceFor
  <2>2. InTransit(u, q) = InTransit(x, q)
    BY <1>2 DEF InTransit
  <2> QED
    BY <1>2, <1>4, <2>1, <2>2 DEF ServiceFor
<1>6. ServiceFor(y, u, Tail(p), q, k, l)
  <2>1. ServiceOf(y.s_curTranId, y.outTbl, InTransit(y, p), q, Answered(k), k.heard, x.inTbl, l.invoked)
    BY <1>4 DEF ServiceFor
  <2>2. ServiceOf(y.s_curTranId, y.outTbl, InTransit(y, Tail(p)), q, Answered(k), k.heard, x.inTbl \cup {id}, l.invoked)
    BY <1>0, <1>1, <2>1, ServiceTaken
  <2> QED
    BY <1>1, <1>2, <2>2 DEF ServiceFor
<1> QED
  BY <1>1, <1>3, <1>5, <1>6 DEF Good, Serves, u, id

\* A request is answered.
LEMMA GoodComplete ==
    ASSUME NEW x \in Windows, NEW y \in Windows, NEW p \in Queues, NEW q \in Queues, NEW l, NEW k,
           Good(x, y, p, q, l, k), NEW m \in Messages, m.kind = "answer", m.id \in x.inTbl
    PROVE  Good(Served(x, m.id), y, p, Append(q, m), l, k) /\ x.ready = TRUE
<1> DEFINE u == Served(x, m.id)
           d == Append(q, m)
<1>1. ServiceFor(x, y, q, p, l, k) /\ ServiceFor(y, x, p, q, k, l)
  BY DEF Good, Serves
<1>2. /\ x.ready = TRUE /\ m.id # 0 /\ m.id < y.s_curTranId /\ m.id \notin InTransit(y, p) /\ m.id \notin Ids(q, "answer")
  BY <1>1 DEF ServiceFor, ServiceOf
<1>3. /\ u.s_curTranId = x.s_curTranId /\ u.outTbl = x.outTbl /\ u.inTbl = x.inTbl \ {m.id} /\ u.ready = x.ready
      /\ Face(u) = Face(x) /\ u.pendingQueue = x.pendingQueue
  BY DEF Windows, Served, Face
<1>4. Flows(x, y, p, d)
  BY <1>2, FlowsAnswer DEF Good
<1>5. Ids(d, "request") = Ids(q, "request")
  BY OtherKind
<1> HIDE DEF u
<1>6. Flows(u, y, p, d)
  BY <1>3, <1>4, FlowsSame
<1>7. ServiceFor(u, y, d, p, l, k)
  <2>1. InTransit(u, d) = InTransit(x, q)
    BY <1>3, <1>5 DEF InTransit
  <2> QED
    BY <1>1, <1>3, <2>1 DEF ServiceFor
<1>8. ServiceFor(y, u, p, d, k, l)
  <2>1. ServiceOf(y.s_curTranId, y.outTbl, InTransit(y, p), d, Answered(k), k.heard, x.inTbl \ {m.id}, l.invoked)
    BY <1>1, ServiceCompleted DEF ServiceFor
  <2> QED
    BY <1>2, <1>3, <2>1 DEF ServiceFor
<1> QED
  BY <1>2, <1>6, <1>7, <1>8 DEF Good, Serves, u

\* A call ends with its answer.
LEMMA GoodEnd ==
    ASSUME NEW x \in Windows, NEW y \in Windows, NEW p \in Queues, NEW q \in Queues, NEW l \in Logs, NEW k, p # <<>>,
           Good(x, y, p, q, l, k), Head(p).kind = "answer", Head(p).id \in x.outTbl, NEW how \in Args
    PROVE  Good(Ended(x, Head(p).id), y, Tail(p), q, Noted(l, Head(p).id, how), k)
<1> DEFINE id == Head(p).id
           u == Ended(x, id)
           n == Noted(l, id, how)
<1>1. Flows(x, y, Tail(p), q) /\ InTransit(y, Tail(p)) \subseteq InTransit(y, p)
  BY FlowsTake DEF Good
<1>2. /\ u.s_curTranId = x.s_curTranId /\ u.outTbl = x.outTbl \ {id} /\ u.inTbl = x.inTbl /\ u.ready = x.ready
      /\ Face(u) = Face(x) /\ u.pendingQueue = x.pendingQueue
  BY DEF Windows, Ended, Face
<1>3. id \in Ids(p, "answer") /\ id \in Int /\ Head(p).kind = "answer" /\ id \in x.outTbl
  <2>1. Head(p) \in Messages /\ Head(p).id \in Ids(p, Head(p).kind)
    BY Taken
  <2> QED
    BY <2>1 DEF Messages
<1>4. id < x.s_curTranId /\ id \notin InTransit(x, q)
  BY <1>3 DEF Good, Flows, RequestsOf
<1>5. Answered(n) \subseteq Answered(l) \cup {id} /\ n.heard = l.heard /\ n.invoked = l.invoked
  BY <1>3, NotedIs
<1>6. ServiceFor(x, y, q, p, l, k) /\ ServiceFor(y, x, p, q, k, l)
  BY DEF Good, Serves
<1>7. ServiceOf(x.s_curTranId, x.outTbl \ {id}, InTransit(x, q), Tail(p), Answered(n), l.heard, y.inTbl, k.invoked)
  <2>1. ServiceOf(x.s_curTranId, x.outTbl, InTransit(x, q), p, Answered(l), l.heard, y.inTbl, k.invoked)
    BY <1>6 DEF ServiceFor
  <2> HIDE DEF n
  <2> QED
    BY <1>3, <1>4, <1>5, <2>1, ServiceEnds
<1> HIDE DEF u, n
<1>8. Flows(u, y, Tail(p), q)
  BY <1>1, <1>2, FlowsSame
<1>9. ServiceFor(u, y, q, Tail(p), n, k)
  <2>1. InTransit(u, q) = InTransit(x, q)
    BY <1>2 DEF InTransit
  <2> QED
    BY <1>2, <1>5, <1>6, <1>7, <2>1 DEF ServiceFor
<1>10. ServiceFor(y, u, Tail(p), q, k, n)
  <2>1. u.inTbl # {} => u.ready = TRUE
    BY <1>2, <1>6 DEF ServiceFor
  <2> QED
    BY <1>1, <1>2, <1>5, <1>6, <2>1, ServiceSame DEF ServiceFor
<1> QED
  BY <1>8, <1>9, <1>10 DEF Good, Serves, u, n

\* A timer fires, or is removed.
LEMMA GoodTimeout ==
    ASSUME NEW x \in Windows, NEW y \in Windows, NEW p \in Queues, NEW q \in Queues, NEW l \in Logs, NEW k,
           Good(x, y, p, q, l, k), NEW u, Face(u) = Face(x), u.pendingQueue = x.pendingQueue,
           u.s_curTranId = x.s_curTranId, u.outTbl \subseteq x.outTbl, u.inTbl = x.inTbl, u.ready = x.ready,
           NEW n, Answered(n) = Answered(l), n.heard = l.heard, n.invoked = l.invoked
    PROVE  Good(u, y, p, q, n, k)
<1>1. Flows(u, y, p, q)
  BY FlowsSame DEF Good
<1>2. ServiceFor(x, y, q, p, l, k) /\ ServiceFor(y, x, p, q, k, l)
  BY DEF Good, Serves
<1>3. InTransit(u, q) = InTransit(x, q)
  BY DEF InTransit
<1>4. ServiceFor(u, y, q, p, n, k)
  BY <1>2, <1>3, ServiceLess DEF ServiceFor
<1>5. ServiceFor(y, u, p, q, k, n)
  BY <1>2 DEF ServiceFor
<1> QED
  BY <1>1, <1>4, <1>5 DEF Good, Serves

Invoked(l, id) == [l EXCEPT !.invoked = @ \cup {id}]
\* The history of a callback.
LEMMA InvokedIs ==
    ASSUME NEW l \in Logs, NEW id \in Int
    PROVE  LET n == Invoked(l, id)
           IN  /\ n \in Logs /\ n.ended = l.ended /\ n.heard = l.heard
               /\ n.invoked = l.invoked \cup {id}
BY DEF Invoked, Logs

\* A callback is sent.
LEMMA GoodInvoke ==
    ASSUME NEW x \in Windows, NEW y \in Windows, NEW p \in Queues, NEW q \in Queues, NEW l \in Logs, NEW k,
           Good(x, y, p, q, l, k), NEW m \in Messages, m.kind = "callback", m.id \in x.inTbl
    PROVE  Good(x, y, p, Append(q, m), Invoked(l, m.id), k) /\ x.ready = TRUE
<1> DEFINE d == Append(q, m)
           n == Invoked(l, m.id)
<1>0. n.ended = l.ended /\ n.heard = l.heard /\ n.invoked = l.invoked \cup {m.id}
  BY InvokedIs DEF Messages
<1> HIDE DEF n
<1>1. ServiceFor(x, y, q, p, l, k) /\ ServiceFor(y, x, p, q, k, l)
  BY DEF Good, Serves
<1>2. x.ready = TRUE
  BY <1>1 DEF ServiceFor
<1>3. Flows(x, y, p, d) /\ InTransit(x, d) = InTransit(x, q)
  <2>1. Flows(x, y, p, q)
    BY DEF Good
  <2>2. Flows(x, y, p, d)
    BY <1>2, <2>1, FlowsCallback
  <2>3. InTransit(x, d) = InTransit(x, q)
    BY OtherKind DEF InTransit
  <2> QED
    BY <2>2, <2>3
<1>4. Answered(n) = Answered(l)
  BY <1>0 DEF Answered
<1>5. ServiceFor(x, y, d, p, n, k)
  BY <1>0, <1>1, <1>3, <1>4 DEF ServiceFor
<1>6. ServiceFor(y, x, p, d, k, n)
  BY <1>0, <1>1, ServiceInvoked DEF ServiceFor
<1> QED
  BY <1>2, <1>3, <1>5, <1>6 DEF Good, Serves, n
--------------------------------------------------------------------------------
(***************************************************************************)
(* The invariant of the channel: until a side is loaded again or destroys  *)
(* its channel, what is between the two is good; calls end once always.    *)
(***************************************************************************)
Both(s, w) == LET o == Channel!Other(w) IN Good(s[w], s[o], s.to[w], s.to[o], s.log[w], s.log[o])
ChannelInv(s) ==
    /\ Wired(s) /\ {"reloaded", "destroyed"} \subseteq DOMAIN s
    /\ s.reloaded \in BOOLEAN /\ s.destroyed \in BOOLEAN
    /\ \A w \in Sides : EndsOf(s[w], s.log[w])
    /\ s.reloaded = FALSE /\ s.destroyed = FALSE => \A w \in Sides : Both(s, w)

\* The two sides see the same.
LEMMA FromEither == \A x, y, p, q, l, k : Good(x, y, p, q, l, k) => Good(y, x, q, p, k, l)
BY DEF Good, Flows, Serves

\* A step of one side keeps the invariant when it keeps what is between the two.
LEMMA StepKeeps ==
    ASSUME NEW s, ChannelInv(s), NEW w \in Sides, NEW x \in Windows, NEW p \in Queues, NEW q \in Queues,
           NEW l \in Logs, EndsOf(x, l), NEW d, d = Changed(s, w, x, p, q, l),
           Both(s, w) => Good(x, s[Channel!Other(w)], p, q, l, s.log[Channel!Other(w)])
    PROVE  ChannelInv(d)
<1> DEFINE o == Channel!Other(w)
<1>1. Sides = {w, o} /\ o \in Sides /\ Channel!Other(o) = w /\ Sides = {"page", "frame"}
  BY OtherSide DEF Sides, Channel!Sides
<1>2. /\ Wired(d) /\ Beside(s, d)
      /\ d[w] = x /\ d.to[w] = p /\ d.to[o] = q /\ d.log[w] = l
      /\ d[o] = s[o] /\ d.log[o] = s.log[o]
  BY Changes DEF ChannelInv
<1>3. DOMAIN d = DOMAIN s /\ d.reloaded = s.reloaded /\ d.destroyed = s.destroyed
  BY <1>2 DEF Beside, ChannelInv
<1>4. \A v \in Sides : EndsOf(d[v], d.log[v])
  BY <1>1, <1>2 DEF ChannelInv
<1>5. ASSUME s.reloaded = FALSE, s.destroyed = FALSE
      PROVE  Both(d, w) /\ Both(d, o)
  <2>1. Good(x, s[o], p, q, l, s.log[o])
    BY <1>5 DEF ChannelInv
  <2>2. Both(d, w)
    BY <1>2, <2>1 DEF Both
  <2>3. Both(d, o)
    BY <1>1, <1>2, <2>1, FromEither DEF Both
  <2> QED
    BY <2>2, <2>3
<1> QED
  BY <1>1, <1>2, <1>3, <1>4, <1>5 DEF ChannelInv

\* What is known of a side in every state, and while neither was loaded again nor destroyed.
LEMMA SideOf ==
    ASSUME NEW s, ChannelInv(s), NEW w \in Sides
    PROVE  /\ s[w] \in Windows /\ s[Channel!Other(w)] \in Windows /\ s.to[w] \in Queues /\ s.to[Channel!Other(w)] \in Queues
           /\ s.log[w] \in Logs /\ s.log[Channel!Other(w)] \in Logs /\ w \in DOMAIN s /\ w # "to" /\ w # "log"
           /\ EndsOf(s[w], s.log[w]) /\ Wired(s)
           /\ s.to \in [Sides -> Queues] /\ s.log \in [Sides -> Logs]
BY Parts, OtherSide DEF ChannelInv, Wired

\* Building a channel keeps the invariant.
LEMMA BuildKeeps ==
    ASSUME NEW w \in Sides, ChannelInv(ch), Channel!Build(w)
    PROVE  ChannelInv(ch')
<1> DEFINE o == Channel!Other(w)
           x == ch[w]
           u == [x EXCEPT !.bound = TRUE, !.registered = TRUE, !.ready = FALSE]
<1>1. x \in Windows /\ ch[o] \in Windows /\ ch.to[w] \in Queues /\ ch.to[o] \in Queues /\ ch.log[w] \in Logs
      /\ EndsOf(x, ch.log[w]) /\ Wired(ch)
  BY SideOf
<1>2. ch' = Changed(ch, w, u, ch.to[w], ch.to[o], ch.log[w]) /\ x.bound = FALSE
  BY <1>1, Builds DEF Channel!Build, Windows
<1>3. u \in Windows /\ u.ready = FALSE /\ u.outTbl = x.outTbl /\ u.s_transIds = x.s_transIds /\ u.s_curTranId = x.s_curTranId
  BY <1>1 DEF Windows
<1>4. Both(ch, w) => Good(u, ch[o], ch.to[w], ch.to[o], ch.log[w], ch.log[o])
  BY <1>1, <1>2, GoodBuild DEF Both
<1> HIDE DEF u
<1>5. EndsOf(u, ch.log[w])
  BY <1>1, <1>3, EndsKept
<1> QED
  BY <1>1, <1>2, <1>3, <1>4, <1>5, StepKeeps

\* The ping keeps the invariant.
LEMMA PingKeeps ==
    ASSUME NEW w \in Sides, ChannelInv(ch), Channel!Ping(w)
    PROVE  ChannelInv(ch')
<1> DEFINE o == Channel!Other(w)
           x == ch[w]
           u == [x EXCEPT !.pinged = TRUE]
           e == [ch EXCEPT ![w].pinged = TRUE]
           m == Channel!Ready("ping")
           d == Append(ch.to[o], m)
<1>1. x \in Windows /\ ch[o] \in Windows /\ ch.to[w] \in Queues /\ ch.to[o] \in Queues /\ ch.log[w] \in Logs
      /\ EndsOf(x, ch.log[w]) /\ Wired(ch) /\ w \in DOMAIN ch
  BY SideOf
<1>2. x.bound = TRUE /\ ch' = Channel!transmit(e, w, m)
  BY <1>1 DEF Channel!Ping, Windows
<1>3. u \in Windows /\ u.ready = x.ready /\ u.registered = x.registered /\ u.pendingQueue = x.pendingQueue
      /\ u.outTbl = x.outTbl /\ u.s_transIds = x.s_transIds /\ u.s_curTranId = x.s_curTranId
  BY <1>1 DEF Windows
<1>4. e = [ch EXCEPT ![w] = u]
  BY <1>1 DEF Windows
<1>5. d \in Queues
  BY <1>1, ReadyIsMessage, Appended
<1>6. Both(ch, w) => Good(u, ch[o], ch.to[w], d, ch.log[w], ch.log[o])
  BY <1>1, <1>2, GoodPing DEF Both
<1> HIDE DEF u, e, m
<1>7. e = Changed(ch, w, u, ch.to[w], ch.to[o], ch.log[w])
  BY <1>1, <1>4, WindowChanges
<1>8. Wired(e) /\ e[w] = u /\ e.to[w] = ch.to[w] /\ e.to[o] = ch.to[o] /\ e.log[w] = ch.log[w]
  BY <1>1, <1>3, <1>7, Changes
<1>9. ch' = Changed(e, w, u, ch.to[w], d, ch.log[w])
  BY <1>2, <1>8, Transmits
<1>10. ch' = Changed(ch, w, u, ch.to[w], d, ch.log[w])
  BY <1>1, <1>7, <1>9, ChangedTwice
<1>11. EndsOf(u, ch.log[w])
  BY <1>1, <1>3, EndsKept DEF EndsOf
<1> HIDE DEF d
<1> QED
  BY <1>1, <1>3, <1>5, <1>6, <1>10, <1>11, StepKeeps

\* A call keeps the invariant.
LEMMA CallKeeps ==
    ASSUME NEW w \in Sides, ChannelInv(ch), Channel!Call(w)
    PROVE  ChannelInv(ch')
<1> DEFINE o == Channel!Other(w)
           x == ch[w]
<1>1. x \in Windows /\ ch[o] \in Windows /\ ch.to[w] \in Queues /\ ch.to[o] \in Queues /\ ch.log[w] \in Logs
      /\ ch.log[o] \in Logs /\ EndsOf(x, ch.log[w]) /\ Wired(ch)
  BY SideOf
<1>2. PICK timed \in BOOLEAN : ch' = Channel!call(ch, w, "method", timed)
  BY DEF Channel!Call
<1> DEFINE c == Called(x, timed)
           m == Request(x, "method")
           u == Waiting(c, m)
           d == Going(c, ch.to[o], m)
           n == [ch.log[w] EXCEPT !.asked = @ \cup {x.s_curTranId}]
<1>3. "method" \in Args
  BY DEF Args
<1>4. /\ m \in Messages /\ c \in Windows /\ ch' = Changed(ch, w, u, ch.to[w], d, n)
  BY <1>1, <1>2, <1>3, Calls
<1>5. u \in Windows /\ d \in Queues
  BY <1>1, <1>4, PostedTypes
<1>6. n \in Logs /\ n.ended = ch.log[w].ended /\ n.heard = ch.log[w].heard /\ n.invoked = ch.log[w].invoked
  BY <1>1 DEF Logs, Windows
<1>7. m.kind = "request" /\ m.id = x.s_curTranId
  BY DEF Request, Channel!Message
<1> HIDE DEF n, m
<1>8. Both(ch, w) => Good(u, ch[o], ch.to[w], d, n, ch.log[o])
  BY <1>1, <1>4, <1>6, <1>7, GoodCall DEF Both
<1>9. EndsOf(c, n)
  BY <1>1, <1>6, EndsCalled
<1> HIDE DEF c
<1>10. EndsOf(u, n)
  <2>1. /\ u.ready = c.ready /\ u.registered = c.registered
        /\ u.outTbl = c.outTbl /\ u.s_curTranId = c.s_curTranId /\ u.s_transIds = c.s_transIds
        /\ u.pendingQueue = IF c.ready THEN c.pendingQueue ELSE Append(c.pendingQueue, m)
    BY <1>4, WaitingIs
  <2> HIDE DEF u
  <2>2. u.ready = TRUE => u.registered = FALSE /\ u.pendingQueue = <<>>
    BY <1>9, <2>1 DEF EndsOf
  <2> QED
    BY <1>9, <2>1, <2>2, EndsKept
<1> HIDE DEF u, d
<1> QED
  BY <1>1, <1>4, <1>5, <1>6, <1>8, <1>10, StepKeeps
--------------------------------------------------------------------------------
\* Posting changes nothing of the calls.
LEMMA EndsWaiting ==
    ASSUME NEW x \in Windows, NEW l, EndsOf(x, l), NEW m
    PROVE  EndsOf(Waiting(x, m), l)
<1> DEFINE u == Waiting(x, m)
<1>1. /\ u.ready = x.ready /\ u.registered = x.registered
      /\ u.outTbl = x.outTbl /\ u.s_curTranId = x.s_curTranId /\ u.s_transIds = x.s_transIds
      /\ u.pendingQueue = IF x.ready THEN x.pendingQueue ELSE Append(x.pendingQueue, m)
  BY WaitingIs
<1> HIDE DEF u
<1>2. u.ready = TRUE => u.registered = FALSE /\ u.pendingQueue = <<>>
  BY <1>1 DEF EndsOf
<1>3. EndsOf(u, l)
  BY <1>1, <1>2, EndsKept
<1> QED
  BY <1>3 DEF u

\* An answer keeps the invariant.
LEMMA CompletedKeeps ==
    ASSUME NEW w \in Sides, ChannelInv(ch), NEW id \in ch[w].inTbl, NEW how \in Args,
           ch' = Channel!complete(ch, w, id, how)
    PROVE  ChannelInv(ch')
<1> DEFINE o == Channel!Other(w)
           x == ch[w]
           c == Served(x, id)
           m == Answer(id, how)
           u == Waiting(c, m)
           d == Going(c, ch.to[o], m)
<1>1. x \in Windows /\ ch[o] \in Windows /\ ch.to[w] \in Queues /\ ch.to[o] \in Queues /\ ch.log[w] \in Logs
      /\ EndsOf(x, ch.log[w]) /\ Wired(ch) /\ id \in Int
  <2>1. x \in Windows /\ ch[o] \in Windows /\ ch.to[w] \in Queues /\ ch.to[o] \in Queues /\ ch.log[w] \in Logs
        /\ EndsOf(x, ch.log[w]) /\ Wired(ch)
    BY SideOf
  <2> QED
    BY <2>1 DEF Windows
<1>2. m \in Messages /\ c \in Windows /\ ch' = Changed(ch, w, u, ch.to[w], d, ch.log[w])
  BY <1>1, Completes
<1>3. u \in Windows /\ d \in Queues
  BY <1>1, <1>2, PostedTypes
<1>4. /\ c.ready = x.ready /\ c.registered = x.registered /\ c.pendingQueue = x.pendingQueue
      /\ c.outTbl = x.outTbl /\ c.s_transIds = x.s_transIds /\ c.s_curTranId = x.s_curTranId
      /\ m.kind = "answer" /\ m.id = id
  BY <1>1 DEF Windows, Served, Answer, Channel!Message
<1> HIDE DEF m
<1>5. Both(ch, w) => Good(u, ch[o], ch.to[w], d, ch.log[w], ch.log[o])
  <2> SUFFICES ASSUME Both(ch, w)
               PROVE  Good(u, ch[o], ch.to[w], d, ch.log[w], ch.log[o])
    OBVIOUS
  <2>1. Good(Served(x, m.id), ch[o], ch.to[w], Append(ch.to[o], m), ch.log[w], ch.log[o]) /\ x.ready = TRUE
    BY <1>1, <1>2, <1>4, GoodComplete DEF Both
  <2>2. u = c /\ d = Append(ch.to[o], m)
    BY <1>4, <2>1 DEF Waiting, Going
  <2> QED
    BY <1>4, <2>1, <2>2
<1> HIDE DEF c
<1>6. EndsOf(c, ch.log[w])
  BY <1>1, <1>4, EndsKept DEF EndsOf
<1>7. EndsOf(u, ch.log[w])
  BY <1>2, <1>6, EndsWaiting
<1> HIDE DEF u, d
<1> QED
  BY <1>1, <1>2, <1>3, <1>5, <1>7, StepKeeps

\* A callback keeps the invariant.
LEMMA InvokeKeeps ==
    ASSUME NEW w \in Sides, ChannelInv(ch), Channel!Invoke(w)
    PROVE  ChannelInv(ch')
<1> DEFINE o == Channel!Other(w)
           x == ch[w]
<1>1. x \in Windows /\ ch[o] \in Windows /\ ch.to[w] \in Queues /\ ch.to[o] \in Queues /\ ch.log[w] \in Logs
      /\ EndsOf(x, ch.log[w]) /\ Wired(ch) /\ ch.log \in [Sides -> Logs] /\ w \in DOMAIN ch
  BY SideOf
<1>2. PICK id \in x.inTbl : ch' = Channel!postMessage([ch EXCEPT !.log[w].invoked = @ \cup {id}], w,
                                                     Channel!Message("callback", id, ""))
  BY DEF Channel!Invoke
<1> DEFINE m == Channel!Message("callback", id, "")
           e == [ch EXCEPT !.log[w].invoked = @ \cup {id}]
           n == Invoked(ch.log[w], id)
           u == Waiting(x, m)
           d == Going(x, ch.to[o], m)
<1>3. id \in Int /\ m \in Messages /\ m.kind = "callback" /\ m.id = id
  BY <1>1 DEF Windows, Channel!Message, Messages, Args
<1>4. /\ n \in Logs /\ n.ended = ch.log[w].ended /\ n.heard = ch.log[w].heard
  BY <1>1, <1>3, InvokedIs
<1>5. e = [ch EXCEPT !.log[w] = n]
  BY <1>1 DEF Logs, Invoked
<1> HIDE DEF e, n, m
<1>6. e = Changed(ch, w, x, ch.to[w], ch.to[o], n)
  BY <1>1, <1>5, LogChanges
<1>7. ch' = Changed(ch, w, u, ch.to[w], d, n)
  <2>1. ch' = Channel!postMessage(e, w, m)
    BY <1>2 DEF e, m
  <2> HIDE DEF u, d
  <2> QED
    BY <1>1, <1>4, <1>6, <2>1, PostsChanged DEF u, d
<1>8. u \in Windows /\ d \in Queues
  BY <1>1, <1>3, PostedTypes
<1>9. Both(ch, w) => Good(u, ch[o], ch.to[w], d, n, ch.log[o])
  <2> SUFFICES ASSUME Both(ch, w)
               PROVE  Good(u, ch[o], ch.to[w], d, n, ch.log[o])
    OBVIOUS
  <2>1. Good(x, ch[o], ch.to[w], ch.to[o], ch.log[w], ch.log[o])
    BY DEF Both
  <2>2. m.id \in x.inTbl
    BY <1>2, <1>3
  <2>3. Good(x, ch[o], ch.to[w], Append(ch.to[o], m), Invoked(ch.log[w], m.id), ch.log[o]) /\ x.ready = TRUE
    BY <1>1, <1>3, <2>1, <2>2, GoodInvoke
  <2> QED
    BY <1>3, <2>3 DEF Waiting, Going, n
<1>10. EndsOf(u, n)
  <2>1. EndsOf(x, n)
    BY <1>1, <1>4, EndsKept DEF EndsOf
  <2> QED
    BY <1>1, <2>1, EndsWaiting
<1> HIDE DEF u, d
<1> QED
  BY <1>1, <1>4, <1>7, <1>8, <1>9, <1>10, StepKeeps

\* A time-out keeps the invariant.
LEMMA TimesOutKeeps ==
    ASSUME NEW w \in Sides, ChannelInv(ch), Channel!TimesOut(w)
    PROVE  ChannelInv(ch')
<1> DEFINE o == Channel!Other(w)
           x == ch[w]
<1>1. x \in Windows /\ ch[o] \in Windows /\ ch.to[w] \in Queues /\ ch.to[o] \in Queues /\ ch.log[w] \in Logs
      /\ EndsOf(x, ch.log[w]) /\ Wired(ch) /\ w \in DOMAIN ch /\ ch.log[o] \in Logs
  BY SideOf
<1>2. PICK id \in x.timers : ch' = Channel!setTransactionTimeout(ch, w, id)
  BY DEF Channel!TimesOut
<1> DEFINE u == [x EXCEPT !.timers = @ \ {id}]
           e == [ch EXCEPT ![w].timers = @ \ {id}]
           l == ch.log[w]
<1>3. /\ u \in Windows /\ Face(u) = Face(x) /\ u.pendingQueue = x.pendingQueue /\ u.inTbl = x.inTbl
      /\ u.s_curTranId = x.s_curTranId /\ u.outTbl = x.outTbl /\ u.s_transIds = x.s_transIds
      /\ u.ready = x.ready /\ u.registered = x.registered /\ id \in Int
  BY <1>1 DEF Windows, Face
<1>4. e = [ch EXCEPT ![w] = u]
  BY <1>1 DEF Windows
<1>5. ch' = IF id \in x.outTbl THEN Channel!ended(e, w, id, "timeout") ELSE e
  BY <1>2 DEF Channel!setTransactionTimeout
<1> HIDE DEF u, e
<1>6. e = Changed(ch, w, u, ch.to[w], ch.to[o], l)
  BY <1>1, <1>4, WindowChanges
<1>7. EndsOf(u, l)
  BY <1>1, <1>3, EndsKept DEF EndsOf
<1>8. CASE id \notin x.outTbl
  <2>1. ch' = Changed(ch, w, u, ch.to[w], ch.to[o], l)
    BY <1>5, <1>6, <1>8
  <2>2. Both(ch, w) => Good(u, ch[o], ch.to[w], ch.to[o], l, ch.log[o])
    BY <1>1, <1>3, GoodTimeout DEF Both
  <2> HIDE DEF l
  <2> QED
    BY <1>1, <1>3, <1>7, <2>1, <2>2, StepKeeps DEF l
<1>9. CASE id \in x.outTbl
  <2> DEFINE v == Ended(u, id)
             n == Noted(l, id, "timeout")
  <2>1. "timeout" \in Args
    BY DEF Args
  <2>2. Wired(e) /\ e[w] = u /\ e.to[w] = ch.to[w] /\ e.to[o] = ch.to[o] /\ e.log[w] = l
    <3> DEFINE p == ch.to[w]
               q == ch.to[o]
    <3>1. p \in Queues /\ q \in Queues /\ l \in Logs /\ Wired(ch) /\ e = Changed(ch, w, u, p, q, l)
      BY <1>1, <1>6
    <3> HIDE DEF p, q, l
    <3>2. Wired(e) /\ e[w] = u
      BY <1>3, <3>1, Changes
    <3>3. e.to[w] = p /\ e.to[o] = q /\ e.log[w] = l
      BY <1>3, <3>1, Changes
    <3> QED
      BY <3>2, <3>3 DEF p, q
  <2>3. v \in Windows /\ n \in Logs /\ ch' = Changed(e, w, v, ch.to[w], ch.to[o], n)
    BY <1>3, <1>5, <1>9, <2>1, <2>2, Ends
  <2>4. ch' = Changed(ch, w, v, ch.to[w], ch.to[o], n)
    BY <1>1, <1>6, <2>3, ChangedTwice
  <2>5. /\ Face(v) = Face(u) /\ v.pendingQueue = u.pendingQueue /\ v.inTbl = u.inTbl
        /\ v.s_curTranId = u.s_curTranId /\ v.outTbl = u.outTbl \ {id} /\ v.ready = u.ready
    BY <1>3 DEF Windows, Ended, Face
  <2>6. Answered(n) = Answered(l) /\ n.heard = l.heard /\ n.invoked = l.invoked
    BY <1>1, <1>3, <2>1, NotedIs
  <2>7. EndsOf(v, n)
    BY <1>1, <1>3, <1>7, <1>9, <2>1, EndsEnded
  <2> HIDE DEF v, n
  <2>8. Both(ch, w) => Good(v, ch[o], ch.to[w], ch.to[o], n, ch.log[o])
    BY <1>1, <1>3, <2>5, <2>6, GoodTimeout DEF Both
  <2> QED
    BY <1>1, <2>3, <2>4, <2>7, <2>8, StepKeeps
<1> QED
  BY <1>8, <1>9
--------------------------------------------------------------------------------
\* A message that arrives keeps the invariant.
LEMMA DeliverKeeps ==
    ASSUME NEW w \in Sides, ChannelInv(ch), Channel!Deliver(w)
    PROVE  ChannelInv(ch')
<1> DEFINE o == Channel!Other(w)
           x == ch[w]
           p == ch.to[w]
           q == ch.to[o]
           l == ch.log[w]
           k == ch.log[o]
           m == Head(p)
<1>1. /\ x \in Windows /\ ch[o] \in Windows /\ p \in Queues /\ q \in Queues /\ l \in Logs /\ k \in Logs
      /\ EndsOf(x, l) /\ Wired(ch)
  BY SideOf
<1>2. p # <<>> /\ \E does \in Channel!Handles :
        ch' = Channel!s_onMessage([ch EXCEPT !.to[w] = Tail(@)], w, m, does)
  BY DEF Channel!Deliver, Channel!Handles
<1>3. \/ Dropped(ch, ch', w, m) \/ IsOpened(ch, ch', w, m) \/ IsTaken(ch, ch', w, m)
      \/ IsServed(ch, ch', w, m) \/ IsHeard(ch, ch', w, m) \/ IsEnded(ch, ch', w, m)
  BY <1>1, <1>2, Delivers
<1>4. /\ Tail(p) \in Queues /\ m \in Messages /\ m.id \in Int /\ m.arg \in Args
  BY <1>1, <1>2, Taken DEF Messages
<1>5. Both(ch, w) => Good(x, ch[o], p, q, l, k)
  BY DEF Both
<1>6. CASE Dropped(ch, ch', w, m)
  <2>1. ch' = Changed(ch, w, x, Tail(p), q, l)
    BY <1>6 DEF Dropped
  <2>2. m.kind = "callback" /\ m.id # 0 /\ m.id \in x.outTbl => m.id \in l.heard
    BY <1>1, <1>6 DEF Dropped, EndsOf
  <2>3. m.kind = "ready" => x.bound = FALSE \/ x.registered = FALSE
    BY <1>6 DEF Dropped
  <2>4. Good(x, ch[o], p, q, l, k) => Good(x, ch[o], Tail(p), q, l, k)
    BY <1>1, <1>2, <2>2, <2>3, GoodTail
  <2> HIDE DEF o, l, k, m
  <2> QED
    BY <1>1, <1>4, <1>5, <2>1, <2>4, StepKeeps DEF o, l, k
<1>7. CASE IsOpened(ch, ch', w, m)
  <2> DEFINE u == Opened(x)
             d == Open(x, q, m.arg)
  <2>1. ch' = Changed(ch, w, u, Tail(p), d, l) /\ m.kind = "ready" /\ x.bound = TRUE
    BY <1>7 DEF IsOpened
  <2>2. u \in Windows /\ d \in Queues
    BY <1>1, OpenTypes
  <2>3. Good(x, ch[o], p, q, l, k) => Good(u, ch[o], Tail(p), d, l, k)
    BY <1>1, <1>2, <2>1, GoodOpen
  <2>4. /\ u.outTbl = x.outTbl /\ u.s_transIds = x.s_transIds /\ u.s_curTranId = x.s_curTranId
        /\ u.registered = FALSE /\ u.pendingQueue = <<>>
    BY <1>1 DEF Opened, Windows
  <2> HIDE DEF u, d
  <2>5. EndsOf(u, l)
    BY <1>1, <2>4, EndsKept
  <2> HIDE DEF o, l, k, m
  <2> QED
    BY <1>1, <1>4, <1>5, <2>1, <2>2, <2>3, <2>5, StepKeeps DEF o, l, k
<1>8. CASE IsTaken(ch, ch', w, m)
  <2> DEFINE u == TakenBy(x, m.id)
  <2>1. ch' = Changed(ch, w, u, Tail(p), q, l) /\ m.kind = "request" /\ m.id # 0
    BY <1>8 DEF IsTaken
  <2>2. u \in Windows
    BY <1>1, <1>4, SmallTypes
  <2>3. Good(x, ch[o], p, q, l, k) => Good(u, ch[o], Tail(p), q, l, k)
    BY <1>1, <1>2, <2>1, GoodTake
  <2>4. /\ u.outTbl = x.outTbl /\ u.s_transIds = x.s_transIds /\ u.s_curTranId = x.s_curTranId
        /\ u.registered = x.registered /\ u.pendingQueue = x.pendingQueue /\ u.ready = x.ready
    BY <1>1 DEF TakenBy, Windows
  <2> HIDE DEF u
  <2>5. EndsOf(u, l)
    BY <1>1, <2>4, EndsKept DEF EndsOf
  <2> HIDE DEF o, l, k, m
  <2> QED
    BY <1>1, <1>4, <1>5, <2>1, <2>2, <2>3, <2>5, StepKeeps DEF o, l, k
<1>9. CASE IsServed(ch, ch', w, m)
  <2>1. PICK how \in {"result", "error"} :
          LET c == Served(TakenBy(x, m.id), m.id)
              n == Answer(m.id, how)
          IN  ch' = Changed(ch, w, Waiting(c, n), Tail(p), Going(c, q, n), l)
    BY <1>9 DEF IsServed
  <2> DEFINE t == TakenBy(x, m.id)
             c == Served(t, m.id)
             n == Answer(m.id, how)
             u == Waiting(c, n)
             d == Going(c, q, n)
  <2>2. ch' = Changed(ch, w, u, Tail(p), d, l)
    BY <2>1
  <2>3. m.kind = "request" /\ m.id # 0
    BY <1>9 DEF IsServed
  <2>4. t \in Windows /\ m.id \in t.inTbl
    BY <1>1, <1>4, SmallTypes DEF TakenBy, Windows
  <2>5. n \in Messages /\ n.kind = "answer" /\ n.id = m.id
    BY <1>4 DEF Answer, Channel!Message, Messages, Args
  <2>6. /\ c \in Windows /\ c.outTbl = x.outTbl /\ c.s_transIds = x.s_transIds /\ c.s_curTranId = x.s_curTranId
        /\ c.registered = x.registered /\ c.pendingQueue = x.pendingQueue /\ c.ready = x.ready
    BY <1>1, <1>4 DEF TakenBy, Served, Windows
  <2> HIDE DEF n
  <2>7. u \in Windows /\ d \in Queues
    BY <1>1, <2>5, <2>6, PostedTypes
  <2>8. Good(x, ch[o], p, q, l, k) => Good(u, ch[o], Tail(p), d, l, k)
    <3> SUFFICES ASSUME Good(x, ch[o], p, q, l, k)
                 PROVE  Good(u, ch[o], Tail(p), d, l, k)
      OBVIOUS
    <3>1. Good(t, ch[o], Tail(p), q, l, k) /\ x.ready = TRUE
      BY <1>1, <1>2, <2>3, GoodTake
    <3> HIDE DEF t
    <3>2. Good(Served(t, n.id), ch[o], Tail(p), Append(q, n), l, k)
      BY <1>1, <1>4, <2>4, <2>5, <3>1, GoodComplete
    <3>3. u = c /\ d = Append(q, n)
      BY <2>6, <3>1, Zenon DEF Waiting, Going
    <3> QED
      BY <2>5, <3>2, <3>3
  <2>9. EndsOf(u, l)
    <3> HIDE DEF c
    <3>1. EndsOf(c, l)
      BY <1>1, <2>6, EndsKept DEF EndsOf
    <3> QED
      BY <2>6, <3>1, EndsWaiting
  <2> HIDE DEF u, d, o, l, k, m
  <2> QED
    BY <1>1, <1>4, <1>5, <2>2, <2>7, <2>8, <2>9, StepKeeps DEF o, l, k
<1>10. CASE IsHeard(ch, ch', w, m)
  <2> DEFINE n == Heard(l, m.id)
  <2>1. ch' = Changed(ch, w, x, Tail(p), q, n) /\ m.kind = "callback"
    BY <1>10 DEF IsHeard
  <2>2. n \in Logs /\ n.ended = l.ended /\ n.invoked = l.invoked /\ l.heard \subseteq n.heard /\ m.id \in n.heard
    BY <1>1, <1>4, SmallTypes DEF Heard, Logs
  <2> HIDE DEF n
  <2>3. Good(x, ch[o], p, q, l, k) => Good(x, ch[o], Tail(p), q, n, k)
    BY <1>1, <1>2, <2>1, <2>2, GoodTail
  <2>4. EndsOf(x, n)
    BY <1>1, <2>2, EndsKept DEF EndsOf
  <2> HIDE DEF o, l, k, m
  <2> QED
    BY <1>1, <1>4, <1>5, <2>1, <2>2, <2>3, <2>4, StepKeeps DEF o, l, k
<1>11. CASE IsEnded(ch, ch', w, m)
  <2> DEFINE u == Ended(x, m.id)
             n == Noted(l, m.id, m.arg)
  <2>1. ch' = Changed(ch, w, u, Tail(p), q, n) /\ m.kind = "answer" /\ m.id \in x.outTbl
    BY <1>11 DEF IsEnded
  <2>2. u \in Windows /\ n \in Logs
    BY <1>1, <1>4, Ends
  <2>3. Good(x, ch[o], p, q, l, k) => Good(u, ch[o], Tail(p), q, n, k)
    BY <1>1, <1>2, <1>4, <2>1, GoodEnd
  <2>4. EndsOf(u, n)
    BY <1>1, <1>4, <2>1, EndsEnded
  <2> HIDE DEF u, n, o, l, k, m
  <2> QED
    BY <1>1, <1>4, <1>5, <2>1, <2>2, <2>3, <2>4, StepKeeps DEF o, l, k
<1> QED
  BY <1>3, <1>6, <1>7, <1>8, <1>9, <1>10, <1>11

\* A new window has made no calls.
LEMMA NewWindow ==
    ASSUME NEW first \in Int
    PROVE  LET u == Channel!Window(first)
           IN  u \in Windows /\ EndsOf(u, Channel!Quiet) /\ Channel!Quiet \in Logs
<1> DEFINE u == Channel!Window(first)
<1>1. u \in Windows
  <2>1. <<>> \in Queues /\ {} \in SUBSET Int
    BY DEF Queues
  <2> QED
    BY <2>1 DEF Windows, Channel!Window
<1>2. Channel!Quiet \in Logs
  BY DEF Logs, Channel!Quiet
<1>3. u.outTbl = {} /\ u.ready = FALSE /\ Channel!Quiet.ended = <<>>
  BY DEF Channel!Window, Channel!Quiet
<1> HIDE DEF u
<1>4. EndsOf(u, Channel!Quiet)
  BY <1>3 DEF EndsOf
<1> QED
  BY <1>1, <1>2, <1>4 DEF u

\* Loading the frame again keeps what holds of each side.
LEMMA ReloadKeeps ==
    ASSUME ChannelInv(ch), Channel!Reload
    PROVE  ChannelInv(ch')
<1> DEFINE u == Channel!Window(100)
           c == Channel!Quiet
<1>1. ch' = [ch EXCEPT !.frame = u, !.to.frame = <<>>, !.log.frame = c, !.reloaded = TRUE]
  BY DEF Channel!Reload
<1>2. u \in Windows /\ EndsOf(u, c) /\ c \in Logs /\ <<>> \in Queues
  <2>1. 100 \in Int
    OBVIOUS
  <2>2. u \in Windows /\ EndsOf(u, c) /\ c \in Logs
    BY <2>1, NewWindow
  <2> QED
    BY <2>2 DEF Queues
<1> HIDE DEF u, c
<1>3. /\ {"page", "frame", "to", "log", "reloaded", "destroyed"} \subseteq DOMAIN ch
      /\ ch.to \in [Sides -> Queues] /\ ch.log \in [Sides -> Logs] /\ ch.page \in Windows
      /\ EndsOf(ch.page, ch.log.page) /\ ch.destroyed \in BOOLEAN /\ Sides = {"page", "frame"}
  BY DEF ChannelInv, Wired, Sides, Channel!Sides
<1>4. /\ DOMAIN ch' = DOMAIN ch /\ ch'.page = ch.page /\ ch'.frame = u /\ ch'.to = [ch.to EXCEPT !.frame = <<>>]
      /\ ch'.log = [ch.log EXCEPT !.frame = c] /\ ch'.reloaded = TRUE /\ ch'.destroyed = ch.destroyed
  BY <1>1, <1>3
<1>5. ch'.to \in [Sides -> Queues]
  BY <1>2, <1>3, <1>4
<1>6. ch'.log \in [Sides -> Logs] /\ ch'.log["frame"] = c /\ ch'.log["page"] = ch.log["page"]
  BY <1>2, <1>3, <1>4
<1>7. \A w \in Sides : ch'[w] \in Windows /\ EndsOf(ch'[w], ch'.log[w])
  BY <1>2, <1>3, <1>4, <1>6
<1> QED
  BY <1>3, <1>4, <1>5, <1>6, <1>7 DEF ChannelInv, Wired

\* Destroying the channel keeps what holds of each side.
LEMMA DestroyKeeps ==
    ASSUME ChannelInv(ch), Channel!Destroy
    PROVE  ChannelInv(ch')
<1> DEFINE x == ch.page
           u == [x EXCEPT !.bound = FALSE, !.registered = FALSE, !.ready = FALSE,
                          !.inTbl = {}, !.outTbl = {}, !.pendingQueue = <<>>]
<1>1. /\ {"page", "frame", "to", "log", "reloaded", "destroyed"} \subseteq DOMAIN ch
      /\ ch.to \in [Sides -> Queues] /\ ch.log \in [Sides -> Logs] /\ x \in Windows /\ ch.frame \in Windows
      /\ EndsOf(x, ch.log.page) /\ EndsOf(ch.frame, ch.log.frame)
      /\ ch.reloaded \in BOOLEAN /\ Sides = {"page", "frame"}
  BY DEF ChannelInv, Wired, Sides, Channel!Sides
<1>2. ch' = [[ch EXCEPT !.page = u] EXCEPT !.destroyed = TRUE]
  BY <1>1 DEF Channel!Destroy, Channel!destroy, Windows
<1>3. u \in Windows
  <2>1. <<>> \in Queues /\ {} \in SUBSET Int
    BY DEF Queues
  <2> QED
    BY <1>1, <2>1 DEF Windows
<1>4. u.ready = FALSE /\ u.outTbl = {} /\ u.s_curTranId = x.s_curTranId
  BY <1>1 DEF Windows
<1> HIDE DEF u
<1>5. EndsOf(u, ch.log.page)
  BY <1>1, <1>4 DEF EndsOf
<1>6. /\ DOMAIN ch' = DOMAIN ch /\ ch'.page = u /\ ch'.frame = ch.frame /\ ch'.to = ch.to /\ ch'.log = ch.log
      /\ ch'.destroyed = TRUE /\ ch'.reloaded = ch.reloaded
  BY <1>1, <1>2
<1>7. \A w \in Sides : ch'[w] \in Windows /\ EndsOf(ch'[w], ch'.log[w])
  BY <1>1, <1>3, <1>5, <1>6
<1> QED
  BY <1>1, <1>6, <1>7 DEF ChannelInv, Wired
--------------------------------------------------------------------------------
\* Two new windows, and nothing on its way.
LEMMA GoodStart ==
    ASSUME NEW f, NEW g
    PROVE  Good(Channel!Window(f), Channel!Window(g), <<>>, <<>>, Channel!Quiet, Channel!Quiet)
<1> DEFINE x == Channel!Window(f)
           y == Channel!Window(g)
           l == Channel!Quiet
<1>1. /\ \A z \in {x, y} : /\ z.bound = FALSE /\ z.pinged = FALSE /\ z.ready = FALSE /\ z.registered = FALSE
                           /\ z.pendingQueue = <<>> /\ z.outTbl = {} /\ z.inTbl = {}
      /\ l.invoked = {} /\ l.heard = {} /\ l.ended = <<>>
  BY DEF Channel!Window, Channel!Quiet
<1> HIDE DEF x, y, l
<1>2. ReadyGood(x, y, <<>>) /\ ReadyGood(y, x, <<>>)
  BY <1>1, NothingIn DEF ReadyGood
<1>3. InTransit(x, <<>>) = {} /\ InTransit(y, <<>>) = {}
  BY <1>1, NothingIn DEF InTransit
<1>4. RequestsOf(x, <<>>, <<>>) /\ RequestsOf(y, <<>>, <<>>)
  BY <1>1, <1>3, NothingIn DEF RequestsOf
<1>5. Answered(l) = {}
  BY <1>1 DEF Answered
<1>6. Serves(x, y, <<>>, <<>>, l, l)
  BY <1>1, <1>3, <1>5, NothingIn DEF Serves, ServiceFor, ServiceOf
<1> QED
  BY <1>2, <1>4, <1>6 DEF Good, Flows, x, y, l

\* The invariant holds when nothing was built.
LEMMA ChannelStarts == Channel!Init => ChannelInv(ch)
<1> SUFFICES ASSUME Channel!Init PROVE ChannelInv(ch)
  OBVIOUS
<1>1. PICK first \in FirstIds :
        ch = [page |-> Channel!Window(first), frame |-> Channel!Window(1), to |-> [w \in Sides |-> <<>>],
              log |-> [w \in Sides |-> Channel!Quiet], reloaded |-> FALSE, destroyed |-> FALSE]
  BY DEF Channel!Init, Sides
<1> DEFINE x == Channel!Window(first)
           y == Channel!Window(1)
           l == Channel!Quiet
<1>2. x \in Windows /\ y \in Windows /\ EndsOf(x, l) /\ EndsOf(y, l) /\ l \in Logs
  <2>1. FirstIds \subseteq Nat
    BY ExchangesAssumption DEF ExchangesAssumption
  <2>2. first \in Int
    BY <1>1, <2>1
  <2>3. 1 \in Int
    OBVIOUS
  <2> QED
    BY <2>2, <2>3, NewWindow
<1>3. Good(x, y, <<>>, <<>>, l, l) /\ Good(y, x, <<>>, <<>>, l, l)
  BY GoodStart
<1> HIDE DEF x, y, l
<1>4. /\ DOMAIN ch = {"page", "frame", "to", "log", "reloaded", "destroyed"}
      /\ ch.page = x /\ ch.frame = y /\ ch.to = [w \in Sides |-> <<>>] /\ ch.log = [w \in Sides |-> l]
      /\ ch.reloaded = FALSE /\ ch.destroyed = FALSE /\ Sides = {"page", "frame"}
  BY <1>1 DEF Sides, Channel!Sides, x, y, l
<1>5. <<>> \in Queues
  BY DEF Queues
<1>6. Wired(ch)
  BY <1>2, <1>4, <1>5 DEF Wired
<1>7. \A w \in Sides : EndsOf(ch[w], ch.log[w])
  BY <1>2, <1>4
<1>8. \A w \in Sides : Both(ch, w)
  BY <1>3, <1>4 DEF Both, Channel!Other
<1> QED
  BY <1>4, <1>6, <1>7, <1>8 DEF ChannelInv

\* A request that is answered later keeps the invariant.
LEMMA CompleteKeeps ==
    ASSUME NEW w \in Sides, ChannelInv(ch), Channel!Complete(w)
    PROVE  ChannelInv(ch')
<1>1. PICK id \in ch[w].inTbl : ch' = Channel!complete(ch, w, id, "result")
  BY DEF Channel!Complete
<1>2. "result" \in Args
  BY DEF Args
<1> QED
  BY <1>1, <1>2, CompletedKeeps

\* Every step of the channel keeps the invariant.
LEMMA ChannelGoesOn == ChannelInv(ch) /\ Channel!Next => ChannelInv(ch')
<1> SUFFICES ASSUME ChannelInv(ch), Channel!Next
             PROVE  ChannelInv(ch')
  OBVIOUS
<1>1. ASSUME NEW w \in Sides,
             Channel!Build(w) \/ Channel!Ping(w) \/ Channel!Call(w) \/ Channel!Deliver(w)
                \/ Channel!TimesOut(w) \/ Channel!Invoke(w) \/ Channel!Complete(w)
      PROVE  ChannelInv(ch')
  BY <1>1, BuildKeeps, PingKeeps, CallKeeps, DeliverKeeps, TimesOutKeeps, InvokeKeeps, CompleteKeeps
<1> QED
  BY <1>1, ReloadKeeps, DestroyKeeps DEF Channel!Next, Sides

\* The invariant implies what the run checks of the channel.
LEMMA ChannelTells ==
    ASSUME ChannelInv(ch)
    PROVE  /\ Channel!TypeOK /\ Channel!EndsOnce /\ Channel!HandshakeFirst /\ Channel!CallbacksComeFirst
<1>1. Channel!TypeOK
  <2>1. \A w \in Sides : EndsOf(ch[w], ch.log[w]) /\ ch[w].ready \in BOOLEAN /\ ch[w].registered \in BOOLEAN
    BY SideOf DEF Windows
  <2> QED
    BY <2>1 DEF Channel!TypeOK, EndsOf, Sides
<1>2. Channel!EndsOnce
  BY DEF Channel!EndsOnce, ChannelInv, EndsOf, Sides
<1>3. ASSUME Channel!Untouched, NEW w \in Sides, NEW i \in DOMAIN ch.to[w], ~ch[w].ready
      PROVE  \E j \in 1 .. i : ch.to[w][j].kind = "ready"
  <2>1. ch[w] \in Windows /\ ch.to[w] \in Queues
    BY SideOf
  <2>2. ReadyGood(ch[w], ch[Channel!Other(w)], ch.to[w]) /\ ch[w].ready = FALSE
    BY <1>3, <2>1 DEF ChannelInv, Channel!Untouched, Both, Good, Flows, Windows
  <2> DEFINE p == ch.to[w]
  <2>3. p # <<>> /\ i \in Int /\ 1 <= i
    BY <1>3, <2>1 DEF Queues
  <2>4. Head(p).kind = "ready"
    BY <2>2, <2>3 DEF ReadyGood
  <2>5. p[1].kind = "ready"
    BY <2>1, <2>3, <2>4 DEF Queues
  <2> QED
    BY <2>3, <2>5
<1>4. ASSUME Channel!Untouched, NEW w \in Sides, NEW i \in DOMAIN ch.log[w].ended,
             ch.log[w].ended[i][2] # "timeout", ch.log[w].ended[i][1] \in ch.log[Channel!Other(w)].invoked
      PROVE  ch.log[w].ended[i][1] \in ch.log[w].heard
  <2>1. Answered(ch.log[w]) \cap ch.log[Channel!Other(w)].invoked \subseteq ch.log[w].heard
    BY <1>4 DEF ChannelInv, Channel!Untouched, Both, Good, Serves, ServiceFor, ServiceOf
  <2>2. ch.log[w].ended[i][1] \in Answered(ch.log[w])
    BY <1>4 DEF Answered
  <2> QED
    BY <1>4, <2>1, <2>2
<1>5. Channel!HandshakeFirst
  BY <1>3 DEF Channel!HandshakeFirst, Sides
<1>6. Channel!CallbacksComeFirst
  BY <1>4 DEF Channel!CallbacksComeFirst, Sides
<1> QED
  BY <1>1, <1>2, <1>5, <1>6

(***************************************************************************)
(* Whatever a page and its frame call, and however their messages arrive,  *)
(* no call ends twice, what goes to a window that is not ready comes after *)
(* the handshake, and a callback is heard before the answer that ends its  *)
(* call (jschannel.js: onReady, the handlers of messages, time-outs).      *)
(***************************************************************************)
THEOREM ChannelIsSound ==
    Spec => [](/\ Channel!TypeOK /\ Channel!EndsOnce
               /\ Channel!HandshakeFirst /\ Channel!CallbacksComeFirst)
<1>1. Init => ChannelInv(ch)
  BY ChannelStarts DEF Init
<1>2. ChannelInv(ch) /\ [Next]_vars => ChannelInv(ch)'
  <2>1. CASE UNCHANGED ch
    BY <2>1
  <2>2. CASE Channel!Next
    BY <2>2, ChannelGoesOn
  <2> QED
    BY <2>1, <2>2 DEF Next, vars
<1>3. ChannelInv(ch) => /\ Channel!TypeOK /\ Channel!EndsOnce
                        /\ Channel!HandshakeFirst /\ Channel!CallbacksComeFirst
  BY ChannelTells
<1> QED
  BY <1>1, <1>2, <1>3, PTL DEF Spec
================================================================================
