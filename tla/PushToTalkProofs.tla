-------------------------- MODULE PushToTalkProofs --------------------------
(***************************************************************************)
(* Proofs about the device's push-to-talk and the floor it asks for, for   *)
(* any number of peers, devices and rooms, any requests and frames and any *)
(* length of the queues.                                                   *)
(*                                                                         *)
(* What a device and the hub know of each other is a relation, `Agreed',   *)
(* between five things: what is coming down to the device (c), its         *)
(* push-to-talk (t), what is going up (u), the floor of its room (f) and   *)
(* the last stream given (m).  The first part shows how it survives each   *)
(* change of one of them, without a step of the system.                    *)
(***************************************************************************)
EXTENDS PushToTalk, VoiceHubProofs

Talks == [held : BOOLEAN, armed : BOOLEAN, pending : Nat,
          stream : Nat, request : Nat, seq : Nat]

Is(q, k, kind) == k \in DOMAIN q /\ q[k].kind = kind
Notice(c, k, s) == Is(c, k, "floor") /\ c[k].stream # s
Own(p, f, s) == f.owner = p /\ f.stream = s

\* Streams are given once, and only the one a device talks on is sent up.
InOrder(c, t, u, m) ==
  /\ t.stream <= m /\ (t.stream # 0 => t.pending = 0)
  /\ \A k \in DOMAIN u : Is(u, k, "audio") => u[k].stream <= m
  /\ \A k \in DOMAIN c : Is(c, k, "grant") =>
       /\ c[k].stream \in 1..m /\ c[k].stream # t.stream
       /\ \A j \in DOMAIN c :
            Is(c, j, "grant") /\ c[j].stream = c[k].stream => j = k
       /\ \A j \in DOMAIN u : Is(u, j, "audio") => u[j].stream # c[k].stream

\* A stream that the device has or is given is its floor, or it will hear.
Told(p, c, t, f) ==
  /\ t.stream # 0 =>
       Own(p, f, t.stream) \/ \E k \in DOMAIN c : Notice(c, k, t.stream)
  /\ \A k \in DOMAIN c : Is(c, k, "grant") =>
       \/ Own(p, f, c[k].stream)
       \/ \E j \in DOMAIN c : k < j /\ Notice(c, j, c[k].stream)

\* The frames of stream s on their way are those between lo and hi, in order.
InStep(u, s, lo, hi) ==
  /\ lo <= hi
  /\ \A k \in DOMAIN u : Is(u, k, "audio") /\ u[k].stream = s =>
       /\ lo < u[k].n /\ u[k].n <= hi
       /\ \A j \in DOMAIN u :
            Is(u, j, "audio") /\ u[j].stream = s /\ k < j => u[k].n < u[j].n
  /\ \A n \in lo+1..hi : \E k \in DOMAIN u : u[k] = Audio(s, n)

\* The floor is the device's, and it knows or will.
Accounted(c, t, u, f) ==
  \/ t.stream = f.stream
  \/ \E k \in DOMAIN c : Is(c, k, "grant") /\ c[k].stream = f.stream
  \/ \E k \in DOMAIN u : u[k] = GiveBack(f.stream)

Kept(p, c, t, u, f, m) ==
  f.owner = p =>
    /\ f.stream \in 1..m
    /\ Accounted(c, t, u, f)
    /\ t.stream = f.stream =>
         /\ \A k \in DOMAIN c : ~Notice(c, k, f.stream)
         /\ InStep(u, f.stream, f.seq, t.seq)
    /\ \A k \in DOMAIN c : Is(c, k, "grant") /\ c[k].stream = f.stream =>
         /\ f.seq = 0
         /\ \A j \in DOMAIN c : k < j => ~Notice(c, j, f.stream)

Agreed(p, c, t, u, f, m) ==
  InOrder(c, t, u, m) /\ Told(p, c, t, f) /\ Kept(p, c, t, u, f, m)

-----------------------------------------------------------------------------
(* What is coming grows                                                    *)

\* Where the elements of two joined sequences are.
LEMMA Joint ==
  ASSUME NEW S, NEW a \in Seq(S), NEW b \in Seq(S)
  PROVE  /\ a \o b \in Seq(S) /\ Len(a) \in Nat /\ Len(b) \in Nat
         /\ \A k \in DOMAIN a : k <= Len(a) /\ k \in Nat
         /\ \A k \in DOMAIN b : 1 <= k /\ k \in Nat
         /\ \A k \in DOMAIN a : k \in DOMAIN (a \o b) /\ (a \o b)[k] = a[k]
         /\ \A k \in DOMAIN b : /\ Len(a) + k \in DOMAIN (a \o b)
                                /\ (a \o b)[Len(a) + k] = b[k]
         /\ \A k \in DOMAIN (a \o b) :
              \/ k \in DOMAIN a
              \/ \E j \in DOMAIN b : k = Len(a) + j
<1> DEFINE c == a \o b
<1>1. /\ c \in Seq(S) /\ Len(a) \in Nat /\ Len(b) \in Nat
      /\ DOMAIN a = 1..Len(a) /\ DOMAIN b = 1..Len(b)
      /\ DOMAIN c = 1..(Len(a) + Len(b))
      /\ \A k \in 1..Len(a) : c[k] = a[k]
      /\ \A k \in 1..Len(b) : c[Len(a) + k] = b[k]
  OBVIOUS
<1> HIDE DEF c
<1>2. ASSUME NEW k \in DOMAIN c, k \notin DOMAIN a
      PROVE  \E j \in DOMAIN b : k = Len(a) + j
  <2>1. k - Len(a) \in 1..Len(b) /\ k = Len(a) + (k - Len(a))
    BY <1>1, <1>2
  <2> QED BY <1>1, <2>1
<1>3. \A k \in DOMAIN a : k <= Len(a) /\ k \in Nat /\ k \in DOMAIN c /\ c[k] = a[k]
  BY <1>1
<1>4. \A k \in DOMAIN b :
        1 <= k /\ k \in Nat /\ Len(a) + k \in DOMAIN c /\ c[Len(a) + k] = b[k]
  BY <1>1
<1> QED BY <1>1, <1>2, <1>3, <1>4 DEF c

\* The hub moves the floor and says so: the device still agrees.
LEMMA AgreedHears ==
  ASSUME NEW p \in Peers, NEW c \in Seq(Packet), NEW t \in Talks,
         NEW u \in Seq(Upward), NEW f \in Floors, NEW m \in Nat,
         Agreed(p, c, t, u, f, m),
         NEW g \in Floors, NEW ms \in Seq(Packet), Turn(p, f, g, ms),
         NEW l \in Nat, m <= l
  PROVE  Agreed(p, c \o ms, t, u, g, l)
<1> DEFINE d == c \o ms
<1>1. /\ Len(c) \in Nat
      /\ \A k \in DOMAIN c : k \in DOMAIN d /\ d[k] = c[k] /\ k \in Nat /\ k <= Len(c)
      /\ \A k \in DOMAIN ms :
           Len(c) + k \in DOMAIN d /\ d[Len(c) + k] = ms[k] /\ k \in Nat /\ 1 <= k
      /\ \A k \in DOMAIN d :
           \/ k \in DOMAIN c
           \/ \E j \in DOMAIN ms : k = Len(c) + j
  BY Joint
<1> HIDE DEF d
<1>2. \A k \in DOMAIN d : Is(d, k, "grant") => k \in DOMAIN c /\ Is(c, k, "grant")
  BY <1>1 DEF Is, Turn, NoGrant
<1>3. \A s : \A k \in DOMAIN c : Notice(c, k, s) => Notice(d, k, s)
  BY <1>1 DEF Is, Notice
<1>4. InOrder(d, t, u, l)
  <2>1. \A k \in DOMAIN c : Is(c, k, "grant") => c[k].stream \in 1..l
    BY DEF Agreed, InOrder
  <2>2. t.stream <= l /\ \A k \in DOMAIN u : Is(u, k, "audio") => u[k].stream <= l
    <3>1. t.stream \in Nat /\ \A k \in DOMAIN u : u[k].stream \in Nat
      <4>1. \A k \in DOMAIN u : u[k] \in Upward
        OBVIOUS
      <4> QED BY <4>1 DEF Talks, Upward
    <3>2. t.stream <= m /\ \A k \in DOMAIN u : Is(u, k, "audio") => u[k].stream <= m
      BY DEF Agreed, InOrder
    <3> QED BY <3>1, <3>2
  <2> QED BY <1>1, <1>2, <2>1, <2>2 DEF Agreed, InOrder
<1>5. ASSUME NEW s \in Nat \ {0}, Own(p, f, s)
      PROVE  \/ Own(p, g, s)
             \/ \E j \in DOMAIN d : Len(c) < j /\ Notice(d, j, s)
  <2>1. CASE g.owner = p
    BY <1>5, <2>1 DEF Own, Turn
  <2>2. CASE g.owner # p
    <3>1. PICK k \in DOMAIN ms : ms[k] = Floor(0)
      BY <1>5, <2>2 DEF Own, Turn
    <3>2. Notice(d, Len(c) + k, s) /\ Len(c) < Len(c) + k
      BY <1>1, <3>1 DEF Notice, Is, Floor
    <3> QED BY <1>1, <3>2
  <2> QED BY <2>1, <2>2
<1>6. Told(p, d, t, g)
  <2>1. t.stream # 0 =>
          Own(p, g, t.stream) \/ \E k \in DOMAIN d : Notice(d, k, t.stream)
    <3> SUFFICES ASSUME t.stream # 0
        PROVE Own(p, g, t.stream) \/ \E k \in DOMAIN d : Notice(d, k, t.stream)
      OBVIOUS
    <3>1. t.stream \in Nat \ {0}
      BY DEF Talks
    <3>2. Own(p, f, t.stream) \/ \E k \in DOMAIN c : Notice(c, k, t.stream)
      BY DEF Agreed, Told
    <3> QED BY <1>1, <1>3, <1>5, <3>1, <3>2
  <2>2. ASSUME NEW k \in DOMAIN d, Is(d, k, "grant")
        PROVE  \/ Own(p, g, d[k].stream)
               \/ \E j \in DOMAIN d : k < j /\ Notice(d, j, d[k].stream)
    <3>1. k \in DOMAIN c /\ Is(c, k, "grant") /\ d[k] = c[k] /\ k <= Len(c)
          /\ k \in Nat
      BY <1>1, <1>2, <2>2
    <3>2. c[k].stream \in Nat \ {0}
      BY <3>1 DEF Agreed, InOrder
    <3>3. \/ Own(p, f, c[k].stream)
          \/ \E j \in DOMAIN c : k < j /\ Notice(c, j, c[k].stream)
      BY <3>1 DEF Agreed, Told
    <3>4. CASE Own(p, f, c[k].stream)
      <4>1. CASE Own(p, g, c[k].stream)
        BY <3>1, <4>1
      <4>2. CASE \E j \in DOMAIN d : Len(c) < j /\ Notice(d, j, c[k].stream)
        <5>1. PICK j \in DOMAIN d : Len(c) < j /\ Notice(d, j, c[k].stream)
          BY <4>2
        <5>2. j \in Nat
          BY <1>1
        <5> QED BY <1>1, <3>1, <5>1, <5>2
      <4> QED BY <1>5, <3>2, <3>4, <4>1, <4>2
    <3>5. CASE \E j \in DOMAIN c : k < j /\ Notice(c, j, c[k].stream)
      BY <1>1, <1>3, <3>1, <3>5
    <3> QED BY <3>3, <3>4, <3>5
  <2> QED BY <2>1, <2>2 DEF Told
<1>7. Kept(p, d, t, u, g, l)
  <2> SUFFICES ASSUME g.owner = p
      PROVE  /\ g.stream \in 1..l
             /\ Accounted(d, t, u, g)
             /\ t.stream = g.stream =>
                  /\ \A k \in DOMAIN d : ~Notice(d, k, g.stream)
                  /\ InStep(u, g.stream, g.seq, t.seq)
             /\ \A k \in DOMAIN d : Is(d, k, "grant") /\ d[k].stream = g.stream =>
                  /\ g.seq = 0
                  /\ \A j \in DOMAIN d : k < j => ~Notice(d, j, g.stream)
    BY DEF Kept
  <2>1. f.owner = p /\ f.stream = g.stream /\ f.seq = g.seq /\ NoFloor(ms)
    BY DEF Turn
  <2>2. \A k \in DOMAIN d : Notice(d, k, g.stream) =>
          k \in DOMAIN c /\ Notice(c, k, g.stream)
    BY <1>1, <2>1 DEF Notice, Is, NoFloor
  <2>3. /\ g.stream \in 1..l
        /\ Accounted(c, t, u, g)
        /\ t.stream = g.stream =>
             /\ \A k \in DOMAIN c : ~Notice(c, k, g.stream)
             /\ InStep(u, g.stream, g.seq, t.seq)
        /\ \A k \in DOMAIN c : Is(c, k, "grant") /\ c[k].stream = g.stream =>
             /\ g.seq = 0
             /\ \A j \in DOMAIN c : k < j => ~Notice(c, j, g.stream)
    BY <2>1 DEF Agreed, Kept, Accounted
  <2>4. Accounted(d, t, u, g)
    BY <1>1, <2>3 DEF Accounted, Is
  <2> QED BY <1>1, <1>2, <2>2, <2>3, <2>4
<1>8. Agreed(p, d, t, u, g, l)
  BY <1>4, <1>6, <1>7 DEF Agreed
<1> QED BY <1>8 DEF d
\* The hub gives the device a stream.
LEMMA AgreedGiven ==
  ASSUME NEW p \in Peers, NEW c \in Seq(Packet), NEW t \in Talks,
         NEW u \in Seq(Upward), NEW f \in Floors, NEW m \in Nat,
         Agreed(p, c, t, u, f, m), f.owner # p, NEW q \in Nat
  PROVE  Agreed(p, c \o <<Floor(m + 1), Grant(m + 1, q)>>, t, u,
                Held(p, m + 1), m + 1)
<1> DEFINE ms == <<Floor(m + 1), Grant(m + 1, q)>>
           d == c \o ms
           l == m + 1
           g == Held(p, m + 1)
           L == Len(c)
<1>1. /\ ms \in Seq(Packet) /\ DOMAIN ms = {1, 2}
      /\ ms[1] = Floor(m + 1) /\ ms[2] = Grant(m + 1, q)
  <2>1. Floor(m + 1) \in Packet /\ Grant(m + 1, q) \in Packet
    BY PacketTypes
  <2>2. Len(ms) = 2
    OBVIOUS
  <2> QED BY <2>1, <2>2
<1>2. /\ ms[1].kind = "floor" /\ ms[1].stream = l
      /\ ms[2].kind = "grant" /\ ms[2].stream = l
  BY <1>1 DEF Floor, Grant
<1> HIDE DEF ms
<1>3. /\ L \in Nat
      /\ \A k \in DOMAIN c : k \in DOMAIN d /\ d[k] = c[k] /\ k \in Nat /\ k <= L
      /\ L + 1 \in DOMAIN d /\ d[L + 1] = ms[1]
      /\ L + 2 \in DOMAIN d /\ d[L + 2] = ms[2]
      /\ \A k \in DOMAIN d : k \in DOMAIN c \/ k = L + 1 \/ k = L + 2
  <2>1. /\ L \in Nat
        /\ \A k \in DOMAIN c : k \in DOMAIN d /\ d[k] = c[k] /\ k \in Nat /\ k <= L
        /\ \A k \in DOMAIN ms : L + k \in DOMAIN d /\ d[L + k] = ms[k]
        /\ \A k \in DOMAIN d : k \in DOMAIN c \/ \E j \in DOMAIN ms : k = L + j
    BY <1>1, Joint, ZenonT(200)
  <2> HIDE DEF d, L
  <2> QED BY <1>1, <2>1
<1> HIDE DEF d
<1>4. /\ l \in Nat /\ l # 0 /\ m < l
      /\ g.owner = p /\ g.stream = l /\ g.seq = 0
  BY DEF Held
<1> HIDE DEF g, L
<1>5. /\ t.stream \in Nat /\ t.stream <= m /\ (t.stream # 0 => t.pending = 0)
      /\ \A k \in DOMAIN u : u[k].stream \in Nat
      /\ \A k \in DOMAIN u : Is(u, k, "audio") => u[k].stream <= m
  <2>1. \A k \in DOMAIN u : u[k] \in Upward
    OBVIOUS
  <2> QED BY <2>1 DEF Agreed, InOrder, Talks, Upward
<1>6. /\ \A k \in DOMAIN c : Is(c, k, "grant") <=> Is(d, k, "grant")
      /\ \A s : \A k \in DOMAIN c : Notice(c, k, s) => Notice(d, k, s)
      /\ \A k \in DOMAIN d : Is(d, k, "grant") => k \in DOMAIN c \/ k = L + 2
  BY <1>2, <1>3 DEF Is, Notice
<1>7. InOrder(d, t, u, l)
  <2>1. t.stream <= l /\ (t.stream # 0 => t.pending = 0)
        /\ \A k \in DOMAIN u : Is(u, k, "audio") => u[k].stream <= l
    BY <1>4, <1>5
  <2>2. ASSUME NEW k \in DOMAIN d, Is(d, k, "grant")
        PROVE  /\ d[k].stream \in 1..l /\ d[k].stream # t.stream
               /\ \A j \in DOMAIN d :
                    Is(d, j, "grant") /\ d[j].stream = d[k].stream => j = k
               /\ \A j \in DOMAIN u : Is(u, j, "audio") => u[j].stream # d[k].stream
    <3>1. \A j \in DOMAIN c : Is(c, j, "grant") => c[j].stream \in 1..m
      BY DEF Agreed, InOrder
    <3>2. CASE k \in DOMAIN c
      <4>1. Is(c, k, "grant") /\ c[k] = d[k] /\ c[k].stream \in 1..m
        BY <1>3, <1>6, <2>2, <3>1, <3>2
      <4>2. \A j \in DOMAIN d :
              Is(d, j, "grant") /\ d[j].stream = d[k].stream => j = k
        <5> SUFFICES ASSUME NEW j \in DOMAIN d, Is(d, j, "grant"),
                            d[j].stream = d[k].stream
                     PROVE  j = k
          OBVIOUS
        <5>1. j # L + 2
          BY <1>2, <1>3, <1>4, <4>1
        <5>2. j \in DOMAIN c /\ Is(c, j, "grant") /\ c[j] = d[j]
          BY <1>3, <1>6, <5>1
        <5> QED BY <3>2, <4>1, <5>2 DEF Agreed, InOrder
      <4> QED BY <1>4, <3>2, <4>1, <4>2 DEF Agreed, InOrder
    <3>3. CASE k = L + 2
      <4>1. d[k].stream = l
        BY <1>2, <1>3, <3>3
      <4>2. \A j \in DOMAIN d :
              Is(d, j, "grant") /\ d[j].stream = d[k].stream => j = k
        BY <1>3, <1>4, <1>6, <3>1, <3>3, <4>1
      <4> QED BY <1>4, <1>5, <4>1, <4>2
    <3> QED BY <1>6, <2>2, <3>2, <3>3
  <2> QED BY <2>1, <2>2 DEF InOrder
<1>8. \A s \in 1..m : ~Own(p, f, s)
  BY DEF Own
<1>9. Told(p, d, t, g)
  <2>1. t.stream # 0 => \E k \in DOMAIN d : Notice(d, k, t.stream)
    BY <1>3, <1>6 DEF Agreed, Told, Own
  <2>2. ASSUME NEW k \in DOMAIN d, Is(d, k, "grant")
        PROVE  \/ Own(p, g, d[k].stream)
               \/ \E j \in DOMAIN d : k < j /\ Notice(d, j, d[k].stream)
    <3>1. CASE k \in DOMAIN c
      <4>1. Is(c, k, "grant") /\ c[k] = d[k]
        BY <1>3, <1>6, <2>2, <3>1
      <4>2. \E j \in DOMAIN c : k < j /\ Notice(c, j, c[k].stream)
        BY <3>1, <4>1 DEF Agreed, Told, Own
      <4> QED BY <1>3, <1>6, <4>1, <4>2
    <3>2. CASE k = L + 2
      BY <1>2, <1>3, <1>4, <3>2 DEF Own
    <3> QED BY <1>6, <2>2, <3>1, <3>2
  <2> QED BY <2>1, <2>2 DEF Told
<1>10. Kept(p, d, t, u, g, l)
  <2>1. Accounted(d, t, u, g)
    <3>1. Is(d, L + 2, "grant") /\ d[L + 2].stream = g.stream
      BY <1>2, <1>3, <1>4 DEF Is
    <3> QED BY <1>3, <3>1 DEF Accounted
  <2>2. g.stream \in 1..l /\ t.stream # g.stream
    BY <1>4, <1>5
  <2>3. ASSUME NEW k \in DOMAIN d, Is(d, k, "grant"), d[k].stream = g.stream
        PROVE  /\ g.seq = 0
               /\ \A j \in DOMAIN d : k < j => ~Notice(d, j, g.stream)
    <3>1. k = L + 2
      <4>1. CASE k \in DOMAIN c
        <5>1. Is(c, k, "grant") /\ c[k] = d[k]
          BY <1>3, <1>6, <2>3, <4>1
        <5>2. c[k].stream \in 1..m
          BY <4>1, <5>1 DEF Agreed, InOrder
        <5> QED BY <1>4, <2>3, <5>1, <5>2
      <4> QED BY <1>6, <2>3, <4>1
    <3>2. \A j \in DOMAIN d : ~(k < j)
      BY <1>3, <3>1
    <3> QED BY <1>4, <3>2
  <2> QED BY <2>1, <2>2, <2>3 DEF Kept
<1> HIDE DEF l
<1>11. Agreed(p, d, t, u, g, l)
  BY <1>7, <1>9, <1>10 DEF Agreed
<1> QED BY <1>11 DEF d, g, l, ms
-----------------------------------------------------------------------------
(* What is coming shrinks: d is c without its element x                    *)

Thins(h, c, x, d) ==
  /\ h \in [DOMAIN d -> DOMAIN c]
  /\ \A k \in DOMAIN d : d[k] = c[h[k]] /\ h[k] # x
  /\ \A j, k \in DOMAIN d : (j < k <=> h[j] < h[k]) /\ (h[j] = h[k] => j = k)
  /\ \A k \in DOMAIN c : k = x \/ \E j \in DOMAIN d : h[j] = k

\* A sequence without the first element of its second part.
LEMMA Thinner ==
  ASSUME NEW S, NEW a \in Seq(S), NEW b \in Seq(S), b # <<>>
  PROVE  /\ a \o b \in Seq(S) /\ a \o Tail(b) \in Seq(S)
         /\ Len(a) + 1 \in DOMAIN (a \o b) /\ (a \o b)[Len(a) + 1] = Head(b)
         /\ \E h : Thins(h, a \o b, Len(a) + 1, a \o Tail(b))
<1> DEFINE c == a \o b
           e == Tail(b)
           d == a \o e
           L == Len(a)
           M == Len(b)
           h == [k \in DOMAIN d |-> IF k <= L THEN k ELSE k + 1]
<1>1. /\ L \in Nat /\ M \in Nat /\ M > 0 /\ c \in Seq(S)
      /\ DOMAIN c = 1..(L + M)
      /\ \A k \in 1..L : c[k] = a[k]
      /\ \A k \in 1..M : c[L + k] = b[k]
      /\ Head(b) = b[1]
      /\ e \in Seq(S) /\ Len(e) = M - 1
      /\ \A k \in 1..(M - 1) : e[k] = b[k + 1]
  OBVIOUS
<1> HIDE DEF e
<1>2. /\ d \in Seq(S) /\ DOMAIN d = 1..(L + (M - 1))
      /\ \A k \in 1..L : d[k] = a[k]
      /\ \A k \in 1..(M - 1) : d[L + k] = e[k]
  BY <1>1
<1> HIDE DEF c, d, L, M
<1>3. L + 1 \in DOMAIN c /\ c[L + 1] = Head(b)
  BY <1>1
<1>4. /\ h \in [DOMAIN d -> DOMAIN c]
      /\ \A k \in DOMAIN d : h[k] = IF k <= L THEN k ELSE k + 1
  BY <1>1, <1>2
<1> HIDE DEF h
<1>5. ASSUME NEW k \in DOMAIN d PROVE d[k] = c[h[k]] /\ h[k] # L + 1
  <2>1. CASE k <= L
    <3>1. k \in 1..L /\ k # L + 1
      BY <1>1, <1>2, <2>1
    <3>2. h[k] = k
      BY <1>4, <2>1
    <3>3. d[k] = a[k] /\ c[k] = a[k]
      BY <1>1, <1>2, <3>1
    <3> QED BY <3>1, <3>2, <3>3
  <2>2. CASE ~(k <= L)
    <3>1. k - L \in 1..(M - 1) /\ k = L + (k - L) /\ k - L + 1 \in 1..M
          /\ k + 1 = L + (k - L + 1) /\ k + 1 # L + 1
      <4>1. k \in 1..(L + (M - 1)) /\ L \in Nat /\ M \in Nat
        BY <1>1, <1>2
      <4> QED BY <2>2, <4>1
    <3>2. d[L + (k - L)] = e[k - L] /\ e[k - L] = b[k - L + 1]
      BY <1>1, <1>2, <3>1
    <3>3. c[L + (k - L + 1)] = b[k - L + 1]
      BY <1>1, <3>1
    <3>4. d[k] = c[k + 1]
      BY <3>1, <3>2, <3>3
    <3>5. h[k] = k + 1
      BY <1>4, <2>2
    <3> QED BY <3>1, <3>4, <3>5
  <2> QED BY <2>1, <2>2
<1>6. \A j, k \in DOMAIN d : (j < k <=> h[j] < h[k]) /\ (h[j] = h[k] => j = k)
  <2> SUFFICES ASSUME NEW j \in DOMAIN d, NEW k \in DOMAIN d
               PROVE  (j < k <=> h[j] < h[k]) /\ (h[j] = h[k] => j = k)
    OBVIOUS
  <2>1. j \in Nat /\ k \in Nat
    BY <1>1, <1>2
  <2>2. /\ h[j] = IF j <= L THEN j ELSE j + 1
        /\ h[k] = IF k <= L THEN k ELSE k + 1
    BY <1>4
  <2> QED BY <1>1, <2>1, <2>2
<1>7. ASSUME NEW k \in DOMAIN c, k # L + 1 PROVE \E j \in DOMAIN d : h[j] = k
  <2>1. CASE k <= L
    <3>1. k \in DOMAIN d
      BY <1>1, <1>2, <2>1
    <3> QED BY <1>4, <2>1, <3>1
  <2>2. CASE ~(k <= L)
    <3>1. k - 1 \in DOMAIN d /\ ~(k - 1 <= L) /\ k - 1 + 1 = k
      <4>1. k \in 1..(L + M) /\ L \in Nat /\ M \in Nat
        BY <1>1
      <4>2. k - 1 \in 1..(L + (M - 1)) /\ ~(k - 1 <= L) /\ k - 1 + 1 = k
        BY <1>7, <2>2, <4>1
      <4> QED BY <1>2, <4>2
    <3> QED BY <1>4, <3>1
  <2> QED BY <2>1, <2>2
<1>8. Thins(h, c, L + 1, d)
  BY <1>4, <1>5, <1>6, <1>7 DEF Thins
<1> QED BY <1>1, <1>2, <1>3, <1>8 DEF c, d, e, L

\* What is left has the kinds, notices and order of before.
LEMMA ThinFacts ==
  ASSUME NEW c, NEW x, NEW d, NEW h, Thins(h, c, x, d)
  PROVE  /\ \A k \in DOMAIN d : h[k] \in DOMAIN c /\ h[k] # x /\ d[k] = c[h[k]]
         /\ \A kind : \A k \in DOMAIN d : Is(d, k, kind) <=> Is(c, h[k], kind)
         /\ \A s : \A k \in DOMAIN d : Notice(d, k, s) <=> Notice(c, h[k], s)
         /\ \A j, k \in DOMAIN d : (j < k <=> h[j] < h[k]) /\ (h[j] = h[k] => j = k)
         /\ \A k \in DOMAIN c : k = x \/ \E j \in DOMAIN d : h[j] = k
  BY DEF Thins, Is, Notice

\* The grants that are left are still in order with the rest.
LEMMA ThinOrder ==
  ASSUME NEW c, NEW x, NEW d, NEW h, Thins(h, c, x, d),
         NEW t, NEW u, NEW m, InOrder(c, t, u, m),
         NEW w, w.stream <= m, w.stream # 0 => w.pending = 0,
         \A k \in DOMAIN d : Is(d, k, "grant") => d[k].stream # w.stream
  PROVE  InOrder(d, w, u, m)
<1>1. ASSUME NEW k \in DOMAIN d, Is(d, k, "grant")
      PROVE  /\ d[k].stream \in 1..m
             /\ \A j \in DOMAIN d :
                  Is(d, j, "grant") /\ d[j].stream = d[k].stream => j = k
             /\ \A j \in DOMAIN u : Is(u, j, "audio") => u[j].stream # d[k].stream
  <2>1. h[k] \in DOMAIN c /\ Is(c, h[k], "grant") /\ d[k] = c[h[k]]
    BY <1>1, ThinFacts
  <2>2. ASSUME NEW j \in DOMAIN d, Is(d, j, "grant"), d[j].stream = d[k].stream
        PROVE  j = k
    <3>1. h[j] \in DOMAIN c /\ Is(c, h[j], "grant") /\ d[j] = c[h[j]]
      BY <2>2, ThinFacts
    <3>2. h[j] = h[k]
      BY <2>1, <2>2, <3>1 DEF InOrder
    <3> QED BY <3>2, ThinFacts
  <2> QED BY <2>1, <2>2 DEF InOrder
<1> QED BY <1>1 DEF InOrder

\* A message without meaning for the floor is read, or a frame dropped.
LEMMA ThinOther ==
  ASSUME NEW p, NEW c, NEW t, NEW u, NEW f, NEW m, Agreed(p, c, t, u, f, m),
         NEW x \in DOMAIN c, c[x].kind \notin {"grant", "floor"},
         NEW d, NEW h, Thins(h, c, x, d)
  PROVE  Agreed(p, d, t, u, f, m)
<1>1. /\ \A k \in DOMAIN d : h[k] \in DOMAIN c /\ h[k] # x /\ d[k] = c[h[k]]
      /\ \A kind : \A k \in DOMAIN d : Is(d, k, kind) <=> Is(c, h[k], kind)
      /\ \A s : \A k \in DOMAIN d : Notice(d, k, s) <=> Notice(c, h[k], s)
      /\ \A j, k \in DOMAIN d : (j < k <=> h[j] < h[k]) /\ (h[j] = h[k] => j = k)
      /\ \A k \in DOMAIN c : k = x \/ \E j \in DOMAIN d : h[j] = k
  BY ThinFacts
<1>2. ~Is(c, x, "grant") /\ \A s : ~Notice(c, x, s)
  BY DEF Is, Notice
<1>3. InOrder(d, t, u, m)
  BY <1>1, ThinOrder DEF Agreed, InOrder
<1>4. Told(p, d, t, f)
  <2>1. t.stream # 0 =>
          Own(p, f, t.stream) \/ \E k \in DOMAIN d : Notice(d, k, t.stream)
    BY <1>1, <1>2 DEF Agreed, Told
  <2>2. ASSUME NEW k \in DOMAIN d, Is(d, k, "grant"), ~Own(p, f, d[k].stream)
        PROVE  \E j \in DOMAIN d : k < j /\ Notice(d, j, d[k].stream)
    <3>1. PICK i \in DOMAIN c : h[k] < i /\ Notice(c, i, c[h[k]].stream)
      BY <1>1, <2>2 DEF Agreed, Told
    <3>2. PICK j \in DOMAIN d : h[j] = i
      BY <1>1, <1>2, <3>1
    <3> QED BY <1>1, <3>1, <3>2
  <2> QED BY <2>1, <2>2 DEF Told
<1>5. Kept(p, d, t, u, f, m)
  <2> SUFFICES ASSUME f.owner = p PROVE Kept(p, d, t, u, f, m)
    BY DEF Kept
  <2>1. Accounted(d, t, u, f)
    BY <1>1, <1>2 DEF Agreed, Kept, Accounted
  <2>2. ASSUME NEW k \in DOMAIN d, Is(d, k, "grant"), d[k].stream = f.stream
        PROVE  f.seq = 0 /\ \A j \in DOMAIN d : k < j => ~Notice(d, j, f.stream)
    BY <1>1, <2>2 DEF Agreed, Kept
  <2> QED BY <1>1, <2>1, <2>2 DEF Agreed, Kept
<1> QED BY <1>3, <1>4, <1>5 DEF Agreed

\* A grant that is being given back is read.
LEMMA ThinRefused ==
  ASSUME NEW p, NEW c, NEW t, NEW u, NEW f, NEW m, Agreed(p, c, t, u, f, m),
         NEW x \in DOMAIN c, c[x].kind = "grant",
         \E k \in DOMAIN u : u[k] = GiveBack(c[x].stream),
         NEW d, NEW h, Thins(h, c, x, d)
  PROVE  Agreed(p, d, t, u, f, m)
<1>1. /\ \A k \in DOMAIN d : h[k] \in DOMAIN c /\ h[k] # x /\ d[k] = c[h[k]]
      /\ \A kind : \A k \in DOMAIN d : Is(d, k, kind) <=> Is(c, h[k], kind)
      /\ \A s : \A k \in DOMAIN d : Notice(d, k, s) <=> Notice(c, h[k], s)
      /\ \A j, k \in DOMAIN d : (j < k <=> h[j] < h[k]) /\ (h[j] = h[k] => j = k)
      /\ \A k \in DOMAIN c : k = x \/ \E j \in DOMAIN d : h[j] = k
  BY ThinFacts
<1>2. \A s : ~Notice(c, x, s)
  BY DEF Is, Notice
<1>3. InOrder(d, t, u, m)
  BY <1>1, ThinOrder DEF Agreed, InOrder
<1>4. Told(p, d, t, f)
  <2>1. t.stream # 0 =>
          Own(p, f, t.stream) \/ \E k \in DOMAIN d : Notice(d, k, t.stream)
    BY <1>1, <1>2 DEF Agreed, Told
  <2>2. ASSUME NEW k \in DOMAIN d, Is(d, k, "grant"), ~Own(p, f, d[k].stream)
        PROVE  \E j \in DOMAIN d : k < j /\ Notice(d, j, d[k].stream)
    <3>1. PICK i \in DOMAIN c : h[k] < i /\ Notice(c, i, c[h[k]].stream)
      BY <1>1, <2>2 DEF Agreed, Told
    <3>2. PICK j \in DOMAIN d : h[j] = i
      BY <1>1, <1>2, <3>1
    <3> QED BY <1>1, <3>1, <3>2
  <2> QED BY <2>1, <2>2 DEF Told
<1>5. Kept(p, d, t, u, f, m)
  <2> SUFFICES ASSUME f.owner = p PROVE Kept(p, d, t, u, f, m)
    BY DEF Kept
  <2>1. Accounted(d, t, u, f)
    <3>1. ASSUME NEW k \in DOMAIN c, Is(c, k, "grant"), c[k].stream = f.stream
          PROVE  Accounted(d, t, u, f)
      <4>1. CASE k = x
        BY <3>1, <4>1 DEF Accounted
      <4>2. CASE k # x
        BY <1>1, <3>1, <4>2 DEF Accounted
      <4> QED BY <4>1, <4>2
    <3> QED BY <3>1 DEF Agreed, Kept, Accounted
  <2>2. ASSUME NEW k \in DOMAIN d, Is(d, k, "grant"), d[k].stream = f.stream
        PROVE  f.seq = 0 /\ \A j \in DOMAIN d : k < j => ~Notice(d, j, f.stream)
    BY <1>1, <2>2 DEF Agreed, Kept
  <2> QED BY <1>1, <2>1, <2>2 DEF Agreed, Kept
<1> QED BY <1>3, <1>4, <1>5 DEF Agreed
\* A floor message is read: the device stops talking if it is of another stream.
LEMMA ThinFloor ==
  ASSUME NEW p, NEW c, NEW t, NEW u, NEW f, NEW m, Agreed(p, c, t, u, f, m),
         m \in Nat,
         NEW x \in DOMAIN c, c[x].kind = "floor", \A k \in DOMAIN c : ~(k < x),
         NEW d, NEW h, Thins(h, c, x, d),
         NEW w, w.stream = (IF c[x].stream # t.stream THEN 0 ELSE t.stream),
         w.seq = t.seq, t.pending = 0 => w.pending = 0
  PROVE  Agreed(p, d, w, u, f, m)
<1>1. /\ \A k \in DOMAIN d : h[k] \in DOMAIN c /\ h[k] # x /\ d[k] = c[h[k]]
      /\ \A kind : \A k \in DOMAIN d : Is(d, k, kind) <=> Is(c, h[k], kind)
      /\ \A s : \A k \in DOMAIN d : Notice(d, k, s) <=> Notice(c, h[k], s)
      /\ \A j, k \in DOMAIN d : (j < k <=> h[j] < h[k]) /\ (h[j] = h[k] => j = k)
      /\ \A k \in DOMAIN c : k = x \/ \E j \in DOMAIN d : h[j] = k
  BY ThinFacts
<1>2. ~Is(c, x, "grant") /\ \A s : c[x].stream # s => Notice(c, x, s)
  BY DEF Is, Notice
<1>3. w.stream = 0 \/ (w.stream = t.stream /\ ~Notice(c, x, t.stream))
  BY DEF Notice
<1>4. InOrder(d, w, u, m)
  <2>1. w.stream <= m /\ (w.stream # 0 => w.pending = 0)
    BY <1>3 DEF Agreed, InOrder
  <2>2. ASSUME NEW k \in DOMAIN d, Is(d, k, "grant")
        PROVE  d[k].stream # w.stream
    <3>1. c[h[k]].stream \in 1..m /\ c[h[k]].stream # t.stream
      BY <1>1, <2>2 DEF Agreed, InOrder
    <3> QED BY <1>1, <1>3, <3>1
  <2> QED BY <2>1, <2>2, ThinOrder DEF Agreed
<1>5. Told(p, d, w, f)
  <2>1. w.stream # 0 =>
          Own(p, f, w.stream) \/ \E k \in DOMAIN d : Notice(d, k, w.stream)
    <3> SUFFICES ASSUME w.stream # 0, ~Own(p, f, w.stream)
                 PROVE  \E k \in DOMAIN d : Notice(d, k, w.stream)
      OBVIOUS
    <3>1. w.stream = t.stream /\ ~Notice(c, x, w.stream)
      BY <1>3
    <3>2. PICK k \in DOMAIN c : Notice(c, k, w.stream)
      BY <3>1 DEF Agreed, Told
    <3>3. PICK j \in DOMAIN d : h[j] = k
      BY <1>1, <3>1, <3>2
    <3> QED BY <1>1, <3>2, <3>3
  <2>2. ASSUME NEW k \in DOMAIN d, Is(d, k, "grant"), ~Own(p, f, d[k].stream)
        PROVE  \E j \in DOMAIN d : k < j /\ Notice(d, j, d[k].stream)
    <3>1. PICK i \in DOMAIN c : h[k] < i /\ Notice(c, i, c[h[k]].stream)
      BY <1>1, <2>2 DEF Agreed, Told
    <3>2. i # x
      BY <1>1, <3>1
    <3>3. PICK j \in DOMAIN d : h[j] = i
      BY <1>1, <3>1, <3>2
    <3> QED BY <1>1, <3>1, <3>3
  <2> QED BY <2>1, <2>2 DEF Told
<1>6. Kept(p, d, w, u, f, m)
  <2> SUFFICES ASSUME f.owner = p PROVE Kept(p, d, w, u, f, m)
    BY DEF Kept
  <2>1. f.stream \in 1..m
    BY DEF Agreed, Kept
  <2>2. t.stream = f.stream => w.stream = f.stream
    BY <1>2 DEF Agreed, Kept
  <2>3. w.stream = f.stream => t.stream = f.stream
    BY <1>3, <2>1
  <2>4. Accounted(d, w, u, f)
    <3>1. ASSUME NEW k \in DOMAIN c, Is(c, k, "grant"), c[k].stream = f.stream
          PROVE  Accounted(d, w, u, f)
      BY <1>1, <1>2, <3>1 DEF Accounted
    <3> QED BY <2>2, <3>1 DEF Agreed, Kept, Accounted
  <2>5. ASSUME NEW k \in DOMAIN d, Is(d, k, "grant"), d[k].stream = f.stream
        PROVE  f.seq = 0 /\ \A j \in DOMAIN d : k < j => ~Notice(d, j, f.stream)
    BY <1>1, <2>5 DEF Agreed, Kept
  <2>6. w.stream = f.stream =>
          /\ \A k \in DOMAIN d : ~Notice(d, k, f.stream)
          /\ InStep(u, f.stream, f.seq, w.seq)
    BY <1>1, <2>3 DEF Agreed, Kept
  <2> QED BY <2>1, <2>4, <2>5, <2>6 DEF Kept
<1> QED BY <1>4, <1>5, <1>6 DEF Agreed

\* A grant that is still wanted is read.
LEMMA ThinGranted ==
  ASSUME NEW p, NEW c, NEW t, NEW u, NEW f, NEW m, Agreed(p, c, t, u, f, m),
         m \in Nat, t.stream = 0,
         NEW x \in DOMAIN c, c[x].kind = "grant", \A k \in DOMAIN c : ~(k < x),
         \A j, k \in DOMAIN c : j < k \/ j = k \/ k < j,
         NEW d, NEW h, Thins(h, c, x, d),
         NEW w, w.stream = c[x].stream, w.seq = 0, w.pending = 0
  PROVE  Agreed(p, d, w, u, f, m)
<1>1. /\ \A k \in DOMAIN d : h[k] \in DOMAIN c /\ h[k] # x /\ d[k] = c[h[k]]
      /\ \A kind : \A k \in DOMAIN d : Is(d, k, kind) <=> Is(c, h[k], kind)
      /\ \A s : \A k \in DOMAIN d : Notice(d, k, s) <=> Notice(c, h[k], s)
      /\ \A j, k \in DOMAIN d : (j < k <=> h[j] < h[k]) /\ (h[j] = h[k] => j = k)
      /\ \A k \in DOMAIN c : k = x \/ \E j \in DOMAIN d : h[j] = k
  BY ThinFacts
<1>2. Is(c, x, "grant") /\ \A s : ~Notice(c, x, s)
  BY DEF Is, Notice
<1>3. /\ w.stream \in 1..m
      /\ \A j \in DOMAIN c : Is(c, j, "grant") /\ c[j].stream = w.stream => j = x
      /\ \A j \in DOMAIN u : Is(u, j, "audio") => u[j].stream # w.stream
  BY <1>2 DEF Agreed, InOrder
<1>4. \A k \in DOMAIN d : Is(d, k, "grant") => d[k].stream # w.stream
  BY <1>1, <1>3
<1>5. InOrder(d, w, u, m)
  <2>1. w.stream <= m
    BY <1>3
  <2> QED BY <1>4, <2>1, ThinOrder DEF Agreed
<1>6. Told(p, d, w, f)
  <2>1. ASSUME ~Own(p, f, w.stream)
        PROVE  \E k \in DOMAIN d : Notice(d, k, w.stream)
    <3>1. PICK k \in DOMAIN c : Notice(c, k, w.stream)
      BY <1>2, <2>1 DEF Agreed, Told
    <3>2. PICK j \in DOMAIN d : h[j] = k
      BY <1>1, <1>2, <3>1
    <3> QED BY <1>1, <3>1, <3>2
  <2>2. ASSUME NEW k \in DOMAIN d, Is(d, k, "grant"), ~Own(p, f, d[k].stream)
        PROVE  \E j \in DOMAIN d : k < j /\ Notice(d, j, d[k].stream)
    <3>1. PICK i \in DOMAIN c : h[k] < i /\ Notice(c, i, c[h[k]].stream)
      BY <1>1, <2>2 DEF Agreed, Told
    <3>2. PICK j \in DOMAIN d : h[j] = i
      BY <1>1, <1>2, <3>1
    <3> QED BY <1>1, <3>1, <3>2
  <2> QED BY <2>1, <2>2 DEF Told
<1>7. Kept(p, d, w, u, f, m)
  <2> SUFFICES ASSUME f.owner = p PROVE Kept(p, d, w, u, f, m)
    BY DEF Kept
  <2>1. f.stream \in 1..m
    BY DEF Agreed, Kept
  <2>2. Accounted(d, w, u, f)
    <3>1. ASSUME NEW k \in DOMAIN c, Is(c, k, "grant"), c[k].stream = f.stream
          PROVE  Accounted(d, w, u, f)
      <4>1. CASE k = x
        BY <3>1, <4>1 DEF Accounted
      <4>2. CASE k # x
        BY <1>1, <3>1, <4>2 DEF Accounted
      <4> QED BY <4>1, <4>2
    <3>2. t.stream # f.stream
      BY <2>1
    <3> QED BY <3>1, <3>2 DEF Agreed, Kept, Accounted
  <2>3. ASSUME NEW k \in DOMAIN d, Is(d, k, "grant"), d[k].stream = f.stream
        PROVE  f.seq = 0 /\ \A j \in DOMAIN d : k < j => ~Notice(d, j, f.stream)
    BY <1>1, <2>3 DEF Agreed, Kept
  <2>4. ASSUME w.stream = f.stream
        PROVE  /\ \A k \in DOMAIN d : ~Notice(d, k, f.stream)
               /\ InStep(u, f.stream, f.seq, w.seq)
    <3>1. f.seq = 0 /\ \A j \in DOMAIN c : x < j => ~Notice(c, j, f.stream)
      BY <1>2, <2>4 DEF Agreed, Kept
    <3>2. \A k \in DOMAIN d : x < h[k]
      BY <1>1
    <3>3. \A k \in DOMAIN u : ~(Is(u, k, "audio") /\ u[k].stream = f.stream)
      BY <1>3, <2>4
    <3>4. 0 + 1..0 = {} /\ 0 <= 0
      OBVIOUS
    <3>5. InStep(u, f.stream, 0, 0)
      BY <3>3, <3>4 DEF InStep
    <3> QED BY <1>1, <3>1, <3>2, <3>5
  <2> QED BY <2>1, <2>2, <2>3, <2>4 DEF Kept
<1> QED BY <1>5, <1>6, <1>7 DEF Agreed

-----------------------------------------------------------------------------
(* The push-to-talk changes                                                *)

\* It goes on talking, or goes on not talking.
LEMMA AgreedGoesOn ==
  ASSUME NEW p, NEW c, NEW t, NEW u, NEW f, NEW m, Agreed(p, c, t, u, f, m),
         NEW w, w.stream = t.stream, w.seq = t.seq,
         w.stream # 0 => w.pending = 0
  PROVE  Agreed(p, c, w, u, f, m)
<1>1. InOrder(c, w, u, m)
  BY DEF Agreed, InOrder
<1>2. Told(p, c, w, f)
  BY DEF Agreed, Told
<1>3. Kept(p, c, w, u, f, m)
  BY DEF Agreed, Kept, Accounted
<1> QED BY <1>1, <1>2, <1>3 DEF Agreed

\* It stops talking, having given its stream back.
LEMMA AgreedStops ==
  ASSUME NEW p, NEW c, NEW t, NEW u, NEW f, NEW m, Agreed(p, c, t, u, f, m),
         m \in Nat,
         t.stream # 0 => \E k \in DOMAIN u : u[k] = GiveBack(t.stream),
         NEW w, w.stream = 0
  PROVE  Agreed(p, c, w, u, f, m)
<1>1. \A k \in DOMAIN c : Is(c, k, "grant") => c[k].stream \in 1..m
  BY DEF Agreed, InOrder
<1>2. InOrder(c, w, u, m)
  BY <1>1 DEF Agreed, InOrder
<1>3. Told(p, c, w, f)
  BY DEF Agreed, Told
<1>4. Kept(p, c, w, u, f, m)
  <2> SUFFICES ASSUME f.owner = p PROVE Kept(p, c, w, u, f, m)
    BY DEF Kept
  <2>1. f.stream \in 1..m /\ Accounted(c, t, u, f)
    BY DEF Agreed, Kept
  <2>2. f.stream # 0 /\ w.stream # f.stream
    BY <2>1
  <2>3. Accounted(c, w, u, f)
    BY <2>1, <2>2 DEF Accounted
  <2> QED BY <2>1, <2>2, <2>3 DEF Agreed, Kept
<1> QED BY <1>2, <1>3, <1>4 DEF Agreed

\* A session begins.
LEMMA AgreedFresh ==
  ASSUME NEW p, NEW c, NEW t, NEW f, NEW m \in Nat,
         NoGrant(c), t.stream = 0, f.owner # p
  PROVE  Agreed(p, c, t, <<>>, f, m)
  BY DEF Agreed, InOrder, Told, Kept, NoGrant, Is
-----------------------------------------------------------------------------
(* What is going up grows and shrinks                                      *)

\* A sequence with one more element.
LEMMA OneMore ==
  ASSUME NEW S, NEW u \in Seq(S), NEW w \in S
  PROVE  /\ Append(u, w) \in Seq(S) /\ Len(Append(u, w)) = Len(u) + 1
         /\ Len(u) \in Nat
         /\ \A k \in DOMAIN u : /\ k \in DOMAIN Append(u, w)
                               /\ Append(u, w)[k] = u[k] /\ k < Len(u) + 1
                               /\ ~(Len(u) + 1 < k)
         /\ Len(u) + 1 \in DOMAIN Append(u, w) /\ Append(u, w)[Len(u) + 1] = w
         /\ \A k \in DOMAIN Append(u, w) : k \in DOMAIN u \/ k = Len(u) + 1
  OBVIOUS

\* The device asks, or gives back a stream.
LEMMA AgreedSaid ==
  ASSUME NEW p, NEW c, NEW t, NEW u \in Seq(Upward), NEW f, NEW m,
         Agreed(p, c, t, u, f, m), NEW w \in Upward, w.kind # "audio"
  PROVE  Agreed(p, c, t, Append(u, w), f, m)
<1> DEFINE v == Append(u, w)
           z == Len(u) + 1
<1>1. /\ \A k \in DOMAIN u : k \in DOMAIN v /\ v[k] = u[k]
      /\ v[z] = w /\ \A k \in DOMAIN v : k \in DOMAIN u \/ k = z
  BY OneMore
<1> HIDE DEF v, z
<1>2. \A k \in DOMAIN v : Is(v, k, "audio") =>
        k \in DOMAIN u /\ Is(u, k, "audio") /\ v[k] = u[k]
  BY <1>1 DEF Is
<1>3. InOrder(c, t, v, m)
  BY <1>2 DEF Agreed, InOrder
<1>4. Kept(p, c, t, v, f, m)
  <2> SUFFICES ASSUME f.owner = p PROVE Kept(p, c, t, v, f, m)
    BY DEF Kept
  <2>1. Accounted(c, t, v, f)
    BY <1>1 DEF Agreed, Kept, Accounted
  <2>2. ASSUME NEW s, NEW lo, NEW hi, InStep(u, s, lo, hi)
        PROVE  InStep(v, s, lo, hi)
    BY <1>1, <1>2, <2>2 DEF InStep
  <2> QED BY <2>1, <2>2 DEF Agreed, Kept
<1>5. Agreed(p, c, t, v, f, m)
  BY <1>3, <1>4 DEF Agreed
<1> QED BY <1>5 DEF v

\* The device sends the next frame.
LEMMA AgreedSpoke ==
  ASSUME NEW p \in Peers, NEW c \in Seq(Packet), NEW t \in Talks,
         NEW u \in Seq(Upward), NEW f \in Floors, NEW m \in Nat,
         Agreed(p, c, t, u, f, m), t.stream # 0,
         NEW w \in Talks, w.stream = t.stream, w.seq = t.seq + 1,
         w.pending = t.pending
  PROVE  Agreed(p, c, w, Append(u, Audio(t.stream, t.seq + 1)), f, m)
<1> DEFINE a == Audio(t.stream, t.seq + 1)
           v == Append(u, a)
           z == Len(u) + 1
<1>1. /\ a \in Upward /\ a.kind = "audio" /\ a.stream = t.stream
      /\ a.n = t.seq + 1 /\ t.seq \in Nat
  BY DEF Audio, Upward, Talks
<1>2. /\ \A k \in DOMAIN u : k \in DOMAIN v /\ v[k] = u[k] /\ k < z /\ ~(z < k)
      /\ z \in DOMAIN v /\ v[z] = a /\ ~(z < z)
      /\ \A k \in DOMAIN v : k \in DOMAIN u \/ k = z
  BY <1>1, OneMore
<1>3. \A k \in DOMAIN u : u[k].n \in Nat
  <2>1. \A k \in DOMAIN u : u[k] \in Upward
    OBVIOUS
  <2> QED BY <2>1 DEF Upward
<1> HIDE DEF v, z
<1>4. /\ \A kind : \A k \in DOMAIN u : Is(u, k, kind) <=> Is(v, k, kind)
      /\ \A k \in DOMAIN v : k \in DOMAIN u \/ v[k] = a
  BY <1>2 DEF Is
<1>5. InOrder(c, w, v, m)
  <2>1. t.stream <= m
    BY DEF Agreed, InOrder
  <2>2. \A k \in DOMAIN v : Is(v, k, "audio") =>
          v[k].stream = t.stream \/ (k \in DOMAIN u /\ Is(u, k, "audio") /\ v[k] = u[k])
    BY <1>1, <1>2, <1>4
  <2>3. \A k \in DOMAIN v : Is(v, k, "audio") => v[k].stream <= m
    BY <2>1, <2>2 DEF Agreed, InOrder
  <2>4. ASSUME NEW k \in DOMAIN c, Is(c, k, "grant"),
               NEW j \in DOMAIN v, Is(v, j, "audio")
        PROVE  v[j].stream # c[k].stream
    BY <2>2, <2>4 DEF Agreed, InOrder
  <2> QED BY <2>1, <2>3, <2>4 DEF Agreed, InOrder
<1>6. Told(p, c, w, f)
  BY DEF Agreed, Told
<1>7. Kept(p, c, w, v, f, m)
  <2> SUFFICES ASSUME f.owner = p PROVE Kept(p, c, w, v, f, m)
    BY DEF Kept
  <2>1. Accounted(c, w, v, f)
    BY <1>2 DEF Agreed, Kept, Accounted
  <2>2. ASSUME t.stream = f.stream PROVE InStep(v, f.stream, f.seq, w.seq)
    <3> DEFINE s == f.stream
               lo == f.seq
               hi == t.seq
    <3>1. InStep(u, s, lo, hi) /\ lo \in Nat /\ hi \in Nat
      BY <1>1, <2>2 DEF Agreed, Kept, Floors
    <3>2. w.seq = hi + 1 /\ a.n = hi + 1 /\ a.stream = s /\ a = Audio(s, hi + 1)
      BY <1>1, <2>2
    <3> HIDE DEF s, lo, hi, a
    <3>3. lo <= hi + 1
      BY <3>1 DEF InStep
    <3>4. ASSUME NEW k \in DOMAIN v, Is(v, k, "audio"), v[k].stream = s
          PROVE  /\ lo < v[k].n /\ v[k].n <= hi + 1
                 /\ \A j \in DOMAIN v :
                      Is(v, j, "audio") /\ v[j].stream = s /\ k < j
                        => v[k].n < v[j].n
      <4>1. CASE k \in DOMAIN u
        <5>1. /\ v[k] = u[k] /\ Is(u, k, "audio") /\ u[k].stream = s
              /\ lo < u[k].n /\ u[k].n <= hi /\ u[k].n \in Nat
          BY <1>2, <1>3, <1>4, <3>1, <3>4, <4>1 DEF InStep
        <5>2. ASSUME NEW j \in DOMAIN v, Is(v, j, "audio"), v[j].stream = s, k < j
              PROVE  v[k].n < v[j].n
          <6>1. CASE j \in DOMAIN u
            BY <1>2, <1>4, <3>1, <4>1, <5>1, <5>2, <6>1 DEF InStep
          <6>2. CASE j = z
            BY <1>2, <3>1, <3>2, <5>1, <6>2
          <6> QED BY <1>2, <6>1, <6>2
        <5> QED BY <3>1, <5>1, <5>2
      <4>2. CASE k = z
        <5>1. v[k].n = hi + 1 /\ lo < hi + 1
          BY <1>2, <3>1, <3>2, <4>2 DEF InStep
        <5>2. \A j \in DOMAIN v : ~(k < j)
          BY <1>2, <4>2
        <5> QED BY <3>1, <5>1, <5>2
      <4> QED BY <1>2, <4>1, <4>2
    <3>5. ASSUME NEW n \in lo+1..hi+1 PROVE \E k \in DOMAIN v : v[k] = Audio(s, n)
      <4>1. CASE n = hi + 1
        BY <1>2, <3>2, <4>1
      <4>2. CASE n # hi + 1
        <5>1. n \in lo+1..hi
          BY <3>1, <4>2
        <5>2. PICK k \in DOMAIN u : u[k] = Audio(s, n)
          BY <3>1, <5>1 DEF InStep
        <5> QED BY <1>2, <5>2
      <4> QED BY <4>1, <4>2
    <3>6. InStep(v, s, lo, hi + 1)
      BY <3>3, <3>4, <3>5 DEF InStep
    <3> QED BY <3>2, <3>6 DEF s, lo
  <2> QED BY <2>1, <2>2 DEF Agreed, Kept
<1>8. Agreed(p, c, w, v, f, m)
  BY <1>5, <1>6, <1>7 DEF Agreed
<1> QED BY <1>8 DEF v

\* The hub has read a request, or a release of a floor that is not the
\* device's any more.
LEMMA AgreedServed ==
  ASSUME NEW p, NEW c, NEW t, NEW u, NEW f, NEW m, Agreed(p, c, t, u, f, m),
         NEW x \in DOMAIN u, u[x].kind # "audio",
         u[x].kind = "release" => ~Own(p, f, u[x].stream),
         NEW v, NEW h, Thins(h, u, x, v)
  PROVE  Agreed(p, c, t, v, f, m)
<1>1. /\ \A k \in DOMAIN v : h[k] \in DOMAIN u /\ h[k] # x /\ v[k] = u[h[k]]
      /\ \A kind : \A k \in DOMAIN v : Is(v, k, kind) <=> Is(u, h[k], kind)
      /\ \A j, k \in DOMAIN v : (j < k <=> h[j] < h[k]) /\ (h[j] = h[k] => j = k)
      /\ \A k \in DOMAIN u : k = x \/ \E j \in DOMAIN v : h[j] = k
  BY ThinFacts
<1>2. InOrder(c, t, v, m)
  BY <1>1 DEF Agreed, InOrder
<1>3. Kept(p, c, t, v, f, m)
  <2> SUFFICES ASSUME f.owner = p PROVE Kept(p, c, t, v, f, m)
    BY DEF Kept
  <2>1. Accounted(c, t, v, f)
    <3>1. ASSUME NEW k \in DOMAIN u, u[k] = GiveBack(f.stream)
          PROVE  Accounted(c, t, v, f)
      <4>1. k # x
        BY <3>1 DEF Own, GiveBack
      <4> QED BY <1>1, <3>1, <4>1 DEF Accounted
    <3> QED BY <3>1 DEF Agreed, Kept, Accounted
  <2>2. ASSUME NEW s, NEW lo, NEW hi, InStep(u, s, lo, hi)
        PROVE  InStep(v, s, lo, hi)
    <3>1. ASSUME NEW n \in lo+1..hi PROVE \E k \in DOMAIN v : v[k] = Audio(s, n)
      <4>1. PICK k \in DOMAIN u : u[k] = Audio(s, n)
        BY <2>2, <3>1 DEF InStep
      <4>2. k # x
        BY <4>1 DEF Audio
      <4> QED BY <1>1, <4>1, <4>2
    <3>2. ASSUME NEW k \in DOMAIN v, Is(v, k, "audio"), v[k].stream = s
          PROVE  /\ lo < v[k].n /\ v[k].n <= hi
                 /\ \A j \in DOMAIN v :
                      Is(v, j, "audio") /\ v[j].stream = s /\ k < j
                        => v[k].n < v[j].n
      BY <1>1, <2>2, <3>2 DEF InStep
    <3> QED BY <2>2, <3>1, <3>2 DEF InStep
  <2> QED BY <2>1, <2>2 DEF Agreed, Kept
<1> QED BY <1>2, <1>3 DEF Agreed

\* The hub has passed on the oldest frame.
LEMMA AgreedCarried ==
  ASSUME NEW p, NEW c, NEW t, NEW u \in Seq(Upward), NEW f \in Floors, NEW m,
         Agreed(p, c, t, u, f, m), f.owner = p,
         NEW x \in DOMAIN u, u[x] = Audio(f.stream, u[x].n), f.seq < u[x].n,
         \A k \in DOMAIN u : x = k \/ x < k,
         NEW v, NEW h, Thins(h, u, x, v),
         NEW g, g.owner = p, g.stream = f.stream, g.seq = u[x].n
  PROVE  Agreed(p, c, t, v, g, m)
<1>1. /\ \A k \in DOMAIN v : h[k] \in DOMAIN u /\ h[k] # x /\ v[k] = u[h[k]]
      /\ \A kind : \A k \in DOMAIN v : Is(v, k, kind) <=> Is(u, h[k], kind)
      /\ \A j, k \in DOMAIN v : (j < k <=> h[j] < h[k]) /\ (h[j] = h[k] => j = k)
      /\ \A k \in DOMAIN u : k = x \/ \E j \in DOMAIN v : h[j] = k
  BY ThinFacts
<1>2. /\ Is(u, x, "audio") /\ u[x].kind = "audio" /\ u[x].stream = f.stream
      /\ \A k \in DOMAIN u : u[k].n \in Nat
      /\ f.seq \in Nat
  <2>1. \A k \in DOMAIN u : u[k] \in Upward
    OBVIOUS
  <2> QED BY <2>1 DEF Upward, Audio, Is, Floors
<1>3. InOrder(c, t, v, m)
  BY <1>1 DEF Agreed, InOrder
<1>4. Told(p, c, t, g)
  BY DEF Agreed, Told, Own
<1>5. Kept(p, c, t, v, g, m)
  <2>1. f.stream \in 1..m /\ Accounted(c, t, u, f)
    BY DEF Agreed, Kept
  <2>2. Accounted(c, t, v, g)
    <3>1. ASSUME NEW k \in DOMAIN u, u[k] = GiveBack(f.stream)
          PROVE  Accounted(c, t, v, g)
      <4>1. k # x
        BY <1>2, <3>1 DEF GiveBack
      <4> QED BY <1>1, <3>1, <4>1 DEF Accounted
    <3> QED BY <2>1, <3>1 DEF Accounted
  <2>3. ASSUME NEW k \in DOMAIN c, Is(c, k, "grant"), c[k].stream = f.stream
        PROVE  FALSE
    BY <1>2, <2>3 DEF Agreed, InOrder
  <2>4. ASSUME t.stream = f.stream
        PROVE  InStep(v, f.stream, u[x].n, t.seq)
    <3>1. InStep(u, f.stream, f.seq, t.seq)
      BY <2>4 DEF Agreed, Kept
    <3>2. u[x].n <= t.seq
      BY <1>2, <3>1 DEF InStep
    <3>3. ASSUME NEW n \in u[x].n+1..t.seq
          PROVE  \E k \in DOMAIN v : v[k] = Audio(f.stream, n)
      <4>1. n \in f.seq+1..t.seq
        BY <1>2, <3>3
      <4>2. PICK k \in DOMAIN u : u[k] = Audio(f.stream, n)
        BY <3>1, <4>1 DEF InStep
      <4>3. k # x
        BY <1>2, <3>3, <4>2 DEF Audio
      <4> QED BY <1>1, <4>2, <4>3
    <3>4. ASSUME NEW k \in DOMAIN v, Is(v, k, "audio"), v[k].stream = f.stream
          PROVE  /\ u[x].n < v[k].n /\ v[k].n <= t.seq
                 /\ \A j \in DOMAIN v :
                      Is(v, j, "audio") /\ v[j].stream = f.stream /\ k < j
                        => v[k].n < v[j].n
      <4>1. /\ h[k] \in DOMAIN u /\ x < h[k] /\ v[k] = u[h[k]]
            /\ Is(u, h[k], "audio")
        BY <1>1, <3>4
      <4>2. u[x].n < u[h[k]].n /\ u[h[k]].n <= t.seq
        BY <1>2, <3>1, <3>4, <4>1 DEF InStep
      <4>3. ASSUME NEW j \in DOMAIN v, Is(v, j, "audio"),
                   v[j].stream = f.stream, k < j
            PROVE  v[k].n < v[j].n
        <5>1. /\ h[j] \in DOMAIN u /\ v[j] = u[h[j]] /\ h[k] < h[j]
              /\ Is(u, h[j], "audio")
          BY <1>1, <3>4, <4>3
        <5>2. u[h[k]].stream = f.stream /\ u[h[j]].stream = f.stream
          BY <3>4, <4>1, <4>3, <5>1
        <5> QED BY <3>1, <4>1, <5>1, <5>2 DEF InStep
      <4> QED BY <4>1, <4>2, <4>3
    <3> QED BY <3>2, <3>3, <3>4 DEF InStep
  <2> QED BY <2>1, <2>2, <2>3, <2>4 DEF Agreed, Kept
<1> QED BY <1>3, <1>4, <1>5 DEF Agreed
-----------------------------------------------------------------------------
(* The invariant                                                           *)

Places == {"top", "receive", "send", "end"}

DeviceTypeOK ==
  /\ held \in [Devices -> BOOLEAN] /\ fault \in [Devices -> BOOLEAN]
  /\ link \in [Devices -> BOOLEAN]
  /\ ptt \in [Devices -> Talks] /\ pc \in [Devices -> Places]
  /\ up \in [Devices -> Seq(Upward)] /\ incoming \in [Devices -> Seq(Packet)]
  /\ \A p \in Devices : Len(up[p]) <= UpLimit /\ Len(incoming[p]) <= IncomingLimit
  /\ asks \in 0..MaxAsks

Away(p) == pc[p] = "end" => ptt[p].stream = 0 /\ (fault[p] \/ ~link[p])
Knows(p) == Agreed(p, Coming(p), ptt[p], up[p], floors[room[p]], next)

TalkInv ==
  /\ HubInv /\ DeviceTypeOK
  /\ \A p \in Devices : Away(p) /\ (Sound(p) => Knows(p))

\* What the invariant says of one device.
LEMMA TalkFacts ==
  ASSUME TalkInv, NEW p \in Devices
  PROVE  /\ p \in Peers /\ out[p] \in Seq(Packet) /\ incoming[p] \in Seq(Packet)
         /\ up[p] \in Seq(Upward) /\ ptt[p] \in Talks /\ next \in Nat
         /\ held[p] \in BOOLEAN /\ fault[p] \in BOOLEAN /\ link[p] \in BOOLEAN
         /\ pc[p] \in Places /\ asks \in 0..MaxAsks
         /\ Len(up[p]) <= UpLimit /\ Len(incoming[p]) <= IncomingLimit
         /\ UpLimit \in Nat /\ IncomingLimit \in Nat
         /\ Coming(p) \in Seq(Packet) /\ Coming(p) = incoming[p] \o out[p]
         /\ room[p] # NoRoom => room[p] \in Rooms /\ floors[room[p]] \in Floors
         /\ Fresh \in Talks /\ Fresh.stream = 0
<1>1. p \in Peers /\ UpLimit \in Nat /\ IncomingLimit \in Nat
  BY TalkAssumption
<1>2. DeviceTypeOK /\ HubInv
  BY DEF TalkInv
<1>3. Fresh \in Talks /\ Fresh.stream = 0
  BY DEF Fresh, Talks
<1>4. Coming(p) = incoming[p] \o out[p]
  BY DEF Coming
<1>5. out[p] \in Seq(Packet) /\ incoming[p] \in Seq(Packet)
  BY <1>1, <1>2, HubTypes DEF DeviceTypeOK
<1>6. Coming(p) \in Seq(Packet)
  BY <1>4, <1>5
<1> QED BY <1>1, <1>2, <1>3, <1>4, <1>5, <1>6, HubTypes DEF DeviceTypeOK

\* What a step leaves of a device that only hears of it.
Same(q) ==
  /\ ptt'[q] = ptt[q] /\ pc'[q] = pc[q] /\ fault'[q] = fault[q]
  /\ link'[q] = link[q] /\ up'[q] = up[q] /\ incoming'[q] = incoming[q]

\* What is coming grows at its end.
LEMMA ComingGrows ==
  ASSUME NEW a \in Seq(Packet), NEW b \in Seq(Packet), NEW c \in Seq(Packet)
  PROVE  a \o (b \o c) = (a \o b) \o c
  OBVIOUS

\* A device that follows a call of the hub agrees afterwards.
LEMMA FollowsKnows ==
  ASSUME TalkInv, NEW q \in Devices, Follows(q), Sound(q),
         floors'[room[q]] \in Floors
  PROVE  Agreed(q, incoming[q] \o out'[q], ptt[q], up[q],
                floors'[room'[q]], next')
<1>1. PICK ms \in Seq(Packet) :
        out'[q] = out[q] \o ms /\ Turn(q, floors[room[q]], floors'[room[q]], ms)
  BY DEF Follows
<1>2. room'[q] = room[q] /\ next' \in Nat /\ next <= next'
  BY DEF Follows
<1>3. room[q] # NoRoom /\ Knows(q)
  BY DEF Sound, TalkInv
<1>4. /\ q \in Peers /\ out[q] \in Seq(Packet) /\ incoming[q] \in Seq(Packet)
      /\ up[q] \in Seq(Upward) /\ ptt[q] \in Talks /\ next \in Nat
      /\ Coming(q) \in Seq(Packet) /\ Coming(q) = incoming[q] \o out[q]
      /\ floors[room[q]] \in Floors
  BY <1>3, TalkFacts
<1>5. incoming[q] \o (out[q] \o ms) = Coming(q) \o ms
  <2>1. incoming[q] \o (out[q] \o ms) = (incoming[q] \o out[q]) \o ms
    <3>1. out[q] \in Seq(Packet) /\ incoming[q] \in Seq(Packet)
      BY <1>4
    <3> QED BY <3>1, ComingGrows
  <2> QED BY <1>4, <2>1
<1>6. Agreed(q, Coming(q), ptt[q], up[q], floors[room[q]], next)
  BY <1>3 DEF Knows
<1>7. Agreed(q, Coming(q) \o ms, ptt[q], up[q], floors'[room[q]], next')
  BY <1>1, <1>2, <1>4, <1>6, AgreedHears
<1> QED BY <1>1, <1>2, <1>5, <1>7

\* A device that does not move agrees after a call that it follows.
LEMMA Bystander ==
  ASSUME TalkInv, HubInv', NEW q \in Devices, Same(q), Goes(q) => Follows(q)
  PROVE  Away(q)' /\ (Sound(q)' => Knows(q)')
<1>1. Away(q)'
  BY DEF TalkInv, Away, Same
<1>2. ASSUME Sound(q)' PROVE Knows(q)'
  <2>1. Goes(q)
    BY <1>2 DEF Sound, Goes
  <2>2. Follows(q)
    BY <2>1
  <2>3. Sound(q)
    BY <1>2, <2>2 DEF Sound, Same, Follows
  <2>4. floors'[room[q]] \in Floors
    <3>1. q \in Peers
      BY TalkFacts
    <3>2. /\ floors' \in [Rooms -> Floors] /\ room'[q] \in Rooms \cup {NoRoom}
      BY <3>1, HubTypes, ZenonT(30) DEF HubInv, HubTypeOK, Floors
    <3> QED BY <2>1, <2>2, <3>2 DEF Goes, Follows
  <2>5. Agreed(q, incoming[q] \o out'[q], ptt[q], up[q], floors'[room'[q]], next')
    BY <2>2, <2>3, <2>4, FollowsKnows
  <2> QED BY <2>5 DEF Knows, Coming, Same
<1> QED BY <1>1, <1>2

\* A step of the relay.
LEMMA RelayStep ==
  ASSUME TalkInv, HubInv', UNCHANGED deviceVars,
         \A q \in Devices : Goes(q) => Follows(q)
  PROVE  TalkInv'
<1>1. DeviceTypeOK'
  BY DEF TalkInv, DeviceTypeOK, deviceVars
<1>2. \A q \in Devices : Same(q)
  BY DEF Same, deviceVars
<1>3. \A q \in Devices : Away(q)' /\ (Sound(q)' => Knows(q)')
  BY <1>2, Bystander
<1> QED BY <1>1, <1>3 DEF TalkInv

\* A step of one device, what it becomes and what it knows then.
LEMMA LocalStep ==
  ASSUME TalkInv, NEW p \in Devices, HubInv',
         \A q \in Devices \ {p} : Goes(q) => Follows(q),
         NEW hd \in BOOLEAN, held' = [held EXCEPT ![p] = hd],
         NEW t \in Talks, ptt' = [ptt EXCEPT ![p] = t],
         NEW to \in Places, pc' = [pc EXCEPT ![p] = to],
         NEW fl \in BOOLEAN, fault' = [fault EXCEPT ![p] = fl],
         NEW lk \in BOOLEAN, link' = [link EXCEPT ![p] = lk],
         NEW u \in Seq(Upward), Len(u) <= UpLimit, up' = [up EXCEPT ![p] = u],
         NEW i \in Seq(Packet), Len(i) <= IncomingLimit,
         incoming' = [incoming EXCEPT ![p] = i],
         asks' \in 0..MaxAsks,
         to = "end" => t.stream = 0 /\ (fl \/ ~lk),
         Goes(p) /\ lk /\ ~fl =>
           Agreed(p, i \o out'[p], t, u, floors'[room'[p]], next')
  PROVE  TalkInv'
<1>1. DeviceTypeOK
  BY DEF TalkInv
<1>2. /\ ptt'[p] = t /\ pc'[p] = to /\ fault'[p] = fl /\ link'[p] = lk
      /\ up'[p] = u /\ incoming'[p] = i
  BY <1>1 DEF DeviceTypeOK
<1>3. ASSUME NEW q \in Devices, q # p PROVE Same(q)
  BY <1>1, <1>3 DEF DeviceTypeOK, Same
<1>4. /\ held' \in [Devices -> BOOLEAN] /\ fault' \in [Devices -> BOOLEAN]
      /\ link' \in [Devices -> BOOLEAN]
  BY <1>1 DEF DeviceTypeOK
<1>5. /\ ptt' \in [Devices -> Talks] /\ pc' \in [Devices -> Places]
      /\ up' \in [Devices -> Seq(Upward)] /\ incoming' \in [Devices -> Seq(Packet)]
  BY <1>1 DEF DeviceTypeOK
<1>6. \A q \in Devices : Len(up'[q]) <= UpLimit /\ Len(incoming'[q]) <= IncomingLimit
  BY <1>1, <1>2, <1>3 DEF DeviceTypeOK, Same
<1>7. DeviceTypeOK'
  BY <1>4, <1>5, <1>6 DEF DeviceTypeOK
<1>8. ASSUME NEW q \in Devices PROVE Away(q)' /\ (Sound(q)' => Knows(q)')
  <2>1. CASE q = p
    <3>1. Away(p)'
      BY <1>2 DEF Away
    <3>2. ASSUME Sound(p)' PROVE Knows(p)'
      <4>1. Goes(p) /\ lk /\ ~fl
        BY <1>2, <3>2 DEF Sound, Goes
      <4> QED BY <1>2, <4>1 DEF Knows, Coming
    <3> QED BY <2>1, <3>1, <3>2
  <2>2. CASE q # p
    BY <1>3, <2>2, Bystander
  <2> QED BY <2>1, <2>2
<1> QED BY <1>7, <1>8 DEF TalkInv
-----------------------------------------------------------------------------
(* Steps of the device alone                                               *)

\* A step of the device leaves the hub as it is.
LEMMA HubStays ==
  ASSUME TalkInv, UNCHANGED hubVars
  PROVE  /\ HubInv' /\ \A q \in Devices : Goes(q) => Follows(q)
         /\ UNCHANGED <<room, floors, next, out, life, allowed>>
<1>1. UNCHANGED <<room, floors, next, out, life, allowed>> /\ HubInv
  BY DEF hubVars, TalkInv
<1>2. /\ floors' \in [Rooms -> Floors] /\ life' \in [Peers -> Lives]
  BY <1>1, HubTypes
<1>3. HubInv' /\ \A q \in Peers : Goes(q) => Follows(q)
  BY <1>1, <1>2, StayFollows
<1> QED BY <1>1, <1>3, TalkAssumption

\* What is unchanged, as LocalStep asks for it.
LEMMA Unchanged ==
  ASSUME TalkInv, NEW p \in Devices
  PROVE  /\ held = [held EXCEPT ![p] = held[p]]
         /\ ptt = [ptt EXCEPT ![p] = ptt[p]]
         /\ pc = [pc EXCEPT ![p] = pc[p]]
         /\ fault = [fault EXCEPT ![p] = fault[p]]
         /\ link = [link EXCEPT ![p] = link[p]]
         /\ up = [up EXCEPT ![p] = up[p]]
         /\ incoming = [incoming EXCEPT ![p] = incoming[p]]
  BY DEF TalkInv, DeviceTypeOK

\* While the hub stands still, a device that counts on its session knows.
LEMMA Knowing ==
  ASSUME TalkInv, NEW p \in Devices, UNCHANGED hubVars, Goes(p),
         link[p], ~fault[p]
  PROVE  /\ Sound(p) /\ room[p] # NoRoom /\ floors[room[p]] \in Floors
         /\ Agreed(p, Coming(p), ptt[p], up[p], floors[room[p]], next)
         /\ floors'[room'[p]] = floors[room[p]] /\ next' = next
         /\ out'[p] = out[p]
<1>1. room' = room /\ floors' = floors /\ next' = next /\ out' = out /\ life' = life
  BY DEF hubVars
<1>2. Sound(p) /\ room[p] # NoRoom
  BY <1>1 DEF Goes, Sound
<1>3. Knows(p)
  BY <1>2 DEF TalkInv
<1> QED BY <1>1, <1>2, <1>3, TalkFacts DEF Knows

\* The task goes on.
LEMMA GoStep ==
  ASSUME TalkInv, NEW p \in Devices, UNCHANGED <<hubVars, link>>,
         asks' \in 0..MaxAsks,
         NEW t \in Talks, NEW to \in Places \ {"end"}, Go(p, t, to),
         NEW u \in Seq(Upward), Len(u) <= UpLimit, up' = [up EXCEPT ![p] = u],
         NEW i \in Seq(Packet), Len(i) <= IncomingLimit,
         incoming' = [incoming EXCEPT ![p] = i],
         Sound(p) => Agreed(p, i \o out[p], t, u, floors[room[p]], next)
  PROVE  TalkInv'
<1>1. /\ ptt' = [ptt EXCEPT ![p] = t] /\ pc' = [pc EXCEPT ![p] = to]
      /\ held' = [held EXCEPT ![p] = held[p]]
      /\ fault' = [fault EXCEPT ![p] = fault[p]]
      /\ link' = [link EXCEPT ![p] = link[p]]
  BY Unchanged DEF Go
<1>2. HubInv' /\ \A q \in Devices : Goes(q) => Follows(q)
  BY HubStays
<1>3. Goes(p) /\ link[p] /\ ~fault[p] =>
        Agreed(p, i \o out'[p], t, u, floors'[room'[p]], next')
  BY Knowing
<1>4. /\ held[p] \in BOOLEAN /\ fault[p] \in BOOLEAN /\ link[p] \in BOOLEAN
      /\ to \in Places /\ to # "end"
  BY TalkFacts
<1> QED BY <1>1, <1>2, <1>3, <1>4, LocalStep, ZenonT(120)

\* The task leaves its loop.
LEMMA EndStep ==
  ASSUME TalkInv, NEW p \in Devices, UNCHANGED <<hubVars, up>>, End(p),
         asks' \in 0..MaxAsks,
         NEW lk \in BOOLEAN, link' = [link EXCEPT ![p] = lk],
         NEW i \in Seq(Packet), Len(i) <= IncomingLimit,
         incoming' = [incoming EXCEPT ![p] = i]
  PROVE  TalkInv'
<1>1. /\ ptt' = [ptt EXCEPT ![p] = Fresh] /\ pc' = [pc EXCEPT ![p] = "end"]
      /\ held' = [held EXCEPT ![p] = FALSE]
      /\ fault' = [fault EXCEPT ![p] = TRUE]
      /\ up' = [up EXCEPT ![p] = up[p]]
  BY Unchanged DEF End
<1>2. HubInv' /\ \A q \in Devices : Goes(q) => Follows(q)
  BY HubStays
<1>3. /\ up[p] \in Seq(Upward) /\ Len(up[p]) <= UpLimit /\ "end" \in Places
      /\ Fresh \in Talks /\ Fresh.stream = 0
      /\ TRUE \in BOOLEAN /\ FALSE \in BOOLEAN
  BY TalkFacts DEF Places
<1> QED BY <1>1, <1>2, <1>3, LocalStep, ZenonT(120)

\* The task sends, or ends.
LEMMA SendStep ==
  ASSUME TalkInv, NEW p \in Devices, UNCHANGED <<hubVars, link>>,
         asks' \in 0..MaxAsks,
         NEW m \in Upward, NEW t \in Talks, NEW to \in Places \ {"end"},
         SendAndGo(p, m, t, to),
         NEW i \in Seq(Packet), Len(i) <= IncomingLimit,
         incoming' = [incoming EXCEPT ![p] = i],
         Sound(p) => Agreed(p, i \o out[p], t, Append(up[p], m),
                            floors[room[p]], next)
  PROVE  TalkInv'
<1>1. CASE ~CanSend(p) /\ End(p) /\ UNCHANGED up
  <2>1. link' = [link EXCEPT ![p] = link[p]] /\ link[p] \in BOOLEAN
    BY Unchanged, TalkFacts
  <2> QED BY <1>1, <2>1, EndStep
<1>2. CASE CanSend(p) /\ room[p] = NoRoom /\ up' = up /\ Go(p, t, to)
  <2>1. ~Sound(p) /\ up' = [up EXCEPT ![p] = up[p]]
    BY <1>2, Unchanged DEF Sound
  <2> QED BY <1>2, <2>1, TalkFacts, GoStep
<1>3. CASE /\ CanSend(p) /\ room[p] # NoRoom /\ Go(p, t, to)
           /\ up' = [up EXCEPT ![p] = Append(@, m)]
  <2> DEFINE u == Append(up[p], m)
  <2>0. up[p] \in Seq(Upward) /\ UpLimit \in Nat
    BY TalkFacts
  <2>1. u \in Seq(Upward) /\ Len(u) = Len(up[p]) + 1 /\ Len(up[p]) \in Nat
    BY <2>0, OneMore, Zenon
  <2>2. /\ up' = [up EXCEPT ![p] = u]
        /\ Sound(p) => Agreed(p, i \o out[p], t, u, floors[room[p]], next)
    BY <1>3
  <2> HIDE DEF u
  <2>3. Len(u) <= UpLimit
    <3>1. Len(up[p]) < UpLimit
      BY <1>3 DEF CanSend
    <3> QED BY <2>0, <2>1, <3>1
  <2> QED BY <1>3, <2>1, <2>2, <2>3, GoStep
<1> QED BY <1>1, <1>2, <1>3 DEF SendAndGo

\* The button: nobody else hears of it.
LEMMA ButtonKeeps ==
  ASSUME TalkInv, NEW p \in Devices, Button(p) PROVE TalkInv'
<1> DEFINE hd == ~held[p]
<1>1. /\ UNCHANGED hubVars /\ asks' = asks
      /\ ptt' = [ptt EXCEPT ![p] = ptt[p]] /\ pc' = [pc EXCEPT ![p] = pc[p]]
      /\ fault' = [fault EXCEPT ![p] = fault[p]]
      /\ link' = [link EXCEPT ![p] = link[p]]
      /\ up' = [up EXCEPT ![p] = up[p]]
      /\ incoming' = [incoming EXCEPT ![p] = incoming[p]]
  BY Unchanged DEF Button
<1>2. hd \in BOOLEAN /\ held' = [held EXCEPT ![p] = hd]
  BY DEF Button
<1> HIDE DEF hd
<1>3. HubInv' /\ \A q \in Devices : Goes(q) => Follows(q)
  BY <1>1, HubStays
<1>4. Goes(p) /\ link[p] /\ ~fault[p] =>
        Agreed(p, incoming[p] \o out'[p], ptt[p], up[p], floors'[room'[p]], next')
  BY <1>1, Knowing, TalkFacts
<1>5. pc[p] = "end" => ptt[p].stream = 0 /\ (fault[p] \/ ~link[p])
  BY DEF TalkInv, Away
<1>6. /\ ptt[p] \in Talks /\ pc[p] \in Places /\ fault[p] \in BOOLEAN
      /\ link[p] \in BOOLEAN /\ up[p] \in Seq(Upward) /\ Len(up[p]) <= UpLimit
      /\ incoming[p] \in Seq(Packet) /\ Len(incoming[p]) <= IncomingLimit
      /\ asks' \in 0..MaxAsks
  BY <1>1, TalkFacts
<1> QED BY <1>1, <1>2, <1>3, <1>4, <1>5, <1>6, LocalStep, ZenonT(120)

\* The connection is lost (ws_event): the session counts no longer.
LEMMA CutKeeps ==
  ASSUME TalkInv, NEW p \in Devices, Cut(p) PROVE TalkInv'
<1>1. /\ UNCHANGED hubVars /\ asks' = asks
      /\ held' = [held EXCEPT ![p] = FALSE]
      /\ fault' = [fault EXCEPT ![p] = TRUE]
      /\ link' = [link EXCEPT ![p] = FALSE]
      /\ ptt' = [ptt EXCEPT ![p] = ptt[p]] /\ pc' = [pc EXCEPT ![p] = pc[p]]
      /\ up' = [up EXCEPT ![p] = up[p]]
      /\ incoming' = [incoming EXCEPT ![p] = incoming[p]]
  BY Unchanged DEF Cut
<1>2. HubInv' /\ \A q \in Devices : Goes(q) => Follows(q)
  BY <1>1, HubStays
<1>3. pc[p] = "end" => ptt[p].stream = 0 /\ (TRUE \/ ~FALSE)
  BY DEF TalkInv, Away
<1>4. TRUE \in BOOLEAN /\ FALSE \in BOOLEAN
  OBVIOUS
<1> QED BY <1>1, <1>2, <1>3, <1>4, TalkFacts, LocalStep, ZenonT(120)

\* pl_voice_stop: the session counts no longer.
LEMMA QuitKeeps ==
  ASSUME TalkInv, NEW p \in Devices, Quit(p) PROVE TalkInv'
<1>1. /\ UNCHANGED <<hubVars, up>> /\ End(p) /\ asks' = asks
      /\ link' = [link EXCEPT ![p] = FALSE] /\ FALSE \in BOOLEAN
      /\ incoming' = [incoming EXCEPT ![p] = incoming[p]]
  BY Unchanged DEF Quit
<1> QED BY <1>1, TalkFacts, EndStep

\* The task ends on a fault: the session counts no longer.
LEMMA FinishKeeps ==
  ASSUME TalkInv, NEW p \in Devices, Finish(p) PROVE TalkInv'
<1>1. /\ UNCHANGED <<hubVars, up>> /\ End(p) /\ asks' = asks
      /\ link' = [link EXCEPT ![p] = link[p]] /\ link[p] \in BOOLEAN
      /\ incoming' = [incoming EXCEPT ![p] = incoming[p]]
  BY Unchanged, TalkFacts DEF Finish
<1> QED BY <1>1, TalkFacts, EndStep

-----------------------------------------------------------------------------
(* The voice task                                                          *)

\* A device in a session that counts agrees with the hub.
LEMMA SoundKnows ==
  ASSUME TalkInv, NEW p \in Devices, Sound(p)
  PROVE  Agreed(p, incoming[p] \o out[p], ptt[p], up[p], floors[room[p]], next)
BY DEF TalkInv, Knows, Coming

\* What a device sends are requests, releases and frames.
LEMMA UpwardTypes ==
  /\ \A s \in Nat : GiveBack(s) \in Upward /\ GiveBack(s).kind = "release"
  /\ \A q \in Nat : Ask(q) \in Upward /\ Ask(q).kind = "request"
  /\ \A s, n \in Nat : Audio(s, n) \in Upward
BY DEF GiveBack, Ask, Audio, Upward

\* The task changes nothing that the hub could know of.
LEMMA QuietStep ==
  ASSUME TalkInv, NEW p \in Devices,
         UNCHANGED <<hubVars, link, up, incoming, asks>>,
         NEW t \in Talks, t.stream = ptt[p].stream, t.seq = ptt[p].seq,
         Sound(p) /\ t.stream # 0 => t.pending = 0,
         NEW to \in Places \ {"end"}, Go(p, t, to)
  PROVE  TalkInv'
<1>1. /\ up' = [up EXCEPT ![p] = up[p]]
      /\ incoming' = [incoming EXCEPT ![p] = incoming[p]]
      /\ UNCHANGED <<hubVars, link>> /\ asks' = asks
  BY Unchanged
<1>2. Sound(p) => Agreed(p, incoming[p] \o out[p], t, up[p], floors[room[p]], next)
  BY SoundKnows, AgreedGoesOn
<1>3. /\ up[p] \in Seq(Upward) /\ Len(up[p]) <= UpLimit
      /\ incoming[p] \in Seq(Packet) /\ Len(incoming[p]) <= IncomingLimit
      /\ asks' \in 0..MaxAsks
  BY <1>1, TalkFacts
<1> QED BY <1>1, <1>2, <1>3, GoStep

\* The task stops talking and gives the floor back.
LEMMA GiveBackStep ==
  ASSUME TalkInv, NEW p \in Devices,
         UNCHANGED <<hubVars, link, incoming, asks>>,
         NEW t \in Talks, t.stream = 0,
         NEW to \in Places \ {"end"},
         SendAndGo(p, GiveBack(ptt[p].stream), t, to)
  PROVE  TalkInv'
<1> DEFINE m == GiveBack(ptt[p].stream)
           u == Append(up[p], m)
<1>1. /\ incoming' = [incoming EXCEPT ![p] = incoming[p]]
      /\ UNCHANGED <<hubVars, link>> /\ asks' = asks
  BY Unchanged
<1>2. /\ up[p] \in Seq(Upward) /\ ptt[p] \in Talks /\ next \in Nat
      /\ incoming[p] \in Seq(Packet) /\ Len(incoming[p]) <= IncomingLimit
      /\ asks' \in 0..MaxAsks
  BY <1>1, TalkFacts
<1>3. ptt[p].stream \in Nat
  BY <1>2 DEF Talks
<1>4. m \in Upward /\ m.kind = "release"
  BY <1>3, UpwardTypes
<1>5. m.kind # "audio"
  BY <1>4
<1>6. \E k \in DOMAIN u : u[k] = GiveBack(ptt[p].stream)
  <2>1. \A w \in Upward : /\ Len(up[p]) + 1 \in DOMAIN Append(up[p], w)
                          /\ Append(up[p], w)[Len(up[p]) + 1] = w
    BY <1>2, OneMore, Zenon
  <2>2. Len(up[p]) + 1 \in DOMAIN u /\ u[Len(up[p]) + 1] = m
    BY <1>4, <2>1, Zenon
  <2> QED BY <2>2, Zenon
<1>7. SendAndGo(p, m, t, to)
  OBVIOUS
<1> HIDE DEF m
<1>8. ASSUME Sound(p)
      PROVE  Agreed(p, incoming[p] \o out[p], t, u, floors[room[p]], next)
  <2>1. Agreed(p, incoming[p] \o out[p], ptt[p], up[p], floors[room[p]], next)
    BY <1>8, SoundKnows
  <2>2. Agreed(p, incoming[p] \o out[p], ptt[p], u, floors[room[p]], next)
    BY <1>2, <1>4, <1>5, <2>1, AgreedSaid
  <2> QED BY <1>2, <1>6, <2>2, AgreedStops
<1> QED BY <1>1, <1>2, <1>4, <1>7, <1>8, SendStep

\* pl_ptt_hold with the button up: the floor is given back.
LEMMA LetGoKeeps ==
  ASSUME TalkInv, NEW p \in Devices, LetGo(p) PROVE TalkInv'
<1> DEFINE t == [ptt[p] EXCEPT !.held = FALSE, !.armed = TRUE, !.pending = 0,
                               !.stream = 0]
<1>1. ptt[p] \in Talks /\ "receive" \in Places \ {"end"}
  BY TalkFacts DEF Places
<1>2. t \in Talks /\ t.stream = 0 /\ t.seq = ptt[p].seq
  BY <1>1 DEF Talks
<1>3. /\ UNCHANGED <<hubVars, link, incoming, asks>>
      /\ IF ptt[p].stream # 0
         THEN SendAndGo(p, GiveBack(ptt[p].stream), t, "receive")
         ELSE Go(p, t, "receive") /\ UNCHANGED up
  BY DEF LetGo
<1> HIDE DEF t
<1>4. CASE ptt[p].stream # 0
  BY <1>1, <1>2, <1>3, <1>4, GiveBackStep
<1>5. CASE ptt[p].stream = 0
  BY <1>1, <1>2, <1>3, <1>5, QuietStep
<1> QED BY <1>4, <1>5

\* pl_ptt_expire: the floor is given back.
LEMMA ExpireKeeps ==
  ASSUME TalkInv, NEW p \in Devices, Expire(p) PROVE TalkInv'
<1> DEFINE t == [Pressed(p) EXCEPT !.stream = 0]
<1>1. ptt[p] \in Talks /\ "receive" \in Places \ {"end"}
  BY TalkFacts DEF Places
<1>2. t \in Talks /\ t.stream = 0
  BY <1>1 DEF Talks, Pressed
<1>3. /\ UNCHANGED <<hubVars, link, incoming, asks>>
      /\ SendAndGo(p, GiveBack(ptt[p].stream), t, "receive")
  BY DEF Expire
<1> HIDE DEF t
<1> QED BY <1>1, <1>2, <1>3, GiveBackStep

\* While it talks, the device waits for no answer.
LEMMA TalksOrWaits ==
  ASSUME TalkInv, NEW p \in Devices, Sound(p)
  PROVE  ptt[p].stream # 0 => ptt[p].pending = 0
BY SoundKnows DEF Agreed, InOrder

\* pl_ptt_timeout: the request is forgotten, a late grant is refused.
LEMMA TimeOutKeeps ==
  ASSUME TalkInv, NEW p \in Devices, TimeOut(p) PROVE TalkInv'
<1> DEFINE t == [Pressed(p) EXCEPT !.pending = 0]
<1>1. ptt[p] \in Talks /\ "receive" \in Places \ {"end"}
  BY TalkFacts DEF Places
<1>2. /\ t \in Talks /\ t.stream = ptt[p].stream /\ t.seq = ptt[p].seq
      /\ t.pending = 0
  BY <1>1 DEF Talks, Pressed
<1>3. UNCHANGED <<hubVars, link, up, incoming, asks>> /\ Go(p, t, "receive")
  BY DEF TimeOut
<1> HIDE DEF t
<1> QED BY <1>1, <1>2, <1>3, QuietStep

\* A lap of the task that finds nothing to do.
LEMMA IdleKeeps ==
  ASSUME TalkInv, NEW p \in Devices, Idle(p) PROVE TalkInv'
<1> DEFINE t == Pressed(p)
<1>1. ptt[p] \in Talks /\ "receive" \in Places \ {"end"}
  BY TalkFacts DEF Places
<1>2. /\ t \in Talks /\ t.stream = ptt[p].stream /\ t.seq = ptt[p].seq
      /\ t.pending = ptt[p].pending
  BY <1>1 DEF Talks, Pressed
<1>3. UNCHANGED <<hubVars, link, up, incoming, asks>> /\ Go(p, t, "receive")
  BY DEF Idle
<1> HIDE DEF t
<1>4. Sound(p) /\ t.stream # 0 => t.pending = 0
  BY <1>2, TalksOrWaits
<1> QED BY <1>1, <1>2, <1>3, <1>4, QuietStep

\* The task sends something other than a frame, and is still of the same
\* stream.
LEMMA SayStep ==
  ASSUME TalkInv, NEW p \in Devices, UNCHANGED <<hubVars, link, incoming>>,
         asks' \in 0..MaxAsks,
         NEW m \in Upward, m.kind # "audio",
         NEW t \in Talks, t.stream = ptt[p].stream, t.seq = ptt[p].seq,
         Sound(p) /\ t.stream # 0 => t.pending = 0,
         NEW to \in Places \ {"end"}, SendAndGo(p, m, t, to)
  PROVE  TalkInv'
<1> DEFINE u == Append(up[p], m)
<1>1. /\ incoming' = [incoming EXCEPT ![p] = incoming[p]]
      /\ UNCHANGED <<hubVars, link>>
  BY Unchanged
<1>2. /\ up[p] \in Seq(Upward) /\ incoming[p] \in Seq(Packet)
      /\ Len(incoming[p]) <= IncomingLimit
  BY TalkFacts
<1>3. ASSUME Sound(p)
      PROVE  Agreed(p, incoming[p] \o out[p], t, u, floors[room[p]], next)
  <2>1. Agreed(p, incoming[p] \o out[p], ptt[p], up[p], floors[room[p]], next)
    BY <1>3, SoundKnows
  <2>2. Agreed(p, incoming[p] \o out[p], ptt[p], u, floors[room[p]], next)
    BY <1>2, <2>1, AgreedSaid
  <2> QED BY <1>3, <2>2, AgreedGoesOn
<1> QED BY <1>1, <1>2, <1>3, SendStep

\* pl_ptt_request: the request is sent.
LEMMA AskForFloorKeeps ==
  ASSUME TalkInv, NEW p \in Devices, AskForFloor(p) PROVE TalkInv'
<1> DEFINE q == ptt[p].request + 1
           t == [Pressed(p) EXCEPT !.request = q, !.pending = q, !.armed = FALSE]
<1>1. ptt[p] \in Talks /\ asks \in 0..MaxAsks /\ "receive" \in Places \ {"end"}
  BY TalkFacts DEF Places
<1>2. q \in Nat
  BY <1>1 DEF Talks
<1>3. /\ t \in Talks /\ t.stream = ptt[p].stream /\ t.seq = ptt[p].seq
  BY <1>1, <1>2 DEF Talks, Pressed
<1>4. /\ UNCHANGED <<hubVars, link, incoming>>
      /\ SendAndGo(p, Ask(q), t, "receive")
      /\ ptt[p].stream = 0 /\ asks < MaxAsks /\ asks' = asks + 1
  BY DEF AskForFloor, MayAsk
<1>5. asks' \in 0..MaxAsks
  <2>1. MaxAsks \in Nat
    BY TalkAssumption
  <2> QED BY <1>1, <1>4, <2>1
<1> HIDE DEF q, t
<1>6. Ask(q) \in Upward /\ Ask(q).kind # "audio"
  BY <1>2, UpwardTypes
<1> QED BY <1>1, <1>3, <1>4, <1>5, <1>6, SayStep

\* One frame of the stream in use, numbered after the last one.
LEMMA TransmitKeeps ==
  ASSUME TalkInv, NEW p \in Devices, Transmit(p) PROVE TalkInv'
<1> DEFINE t == [ptt[p] EXCEPT !.seq = @ + 1]
           m == Audio(ptt[p].stream, ptt[p].seq + 1)
<1>1. /\ ptt[p] \in Talks /\ "top" \in Places \ {"end"}
      /\ up[p] \in Seq(Upward) /\ incoming[p] \in Seq(Packet)
      /\ Len(incoming[p]) <= IncomingLimit /\ asks \in 0..MaxAsks
      /\ p \in Peers /\ incoming[p] \o out[p] \in Seq(Packet) /\ next \in Nat
  BY TalkFacts DEF Places
<1>2. ptt[p].stream \in Nat /\ ptt[p].seq \in Nat
  BY <1>1 DEF Talks
<1>3. /\ t \in Talks /\ t.stream = ptt[p].stream /\ t.seq = ptt[p].seq + 1
      /\ t.pending = ptt[p].pending
  <2>1. ptt[p].seq + 1 \in Nat
    BY <1>2
  <2> QED BY <1>1, <2>1 DEF Talks
<1>4. /\ UNCHANGED <<hubVars, link, incoming, asks>>
      /\ \/ ptt[p].stream # 0 /\ SendAndGo(p, m, t, "top")
         \/ Go(p, ptt[p], "top") /\ UNCHANGED up
  BY DEF Transmit
<1>5. m \in Upward
  BY <1>2, UpwardTypes
<1>6. CASE Go(p, ptt[p], "top") /\ UNCHANGED up
  BY <1>1, <1>4, <1>6, TalksOrWaits, QuietStep
<1>7. CASE ptt[p].stream # 0 /\ SendAndGo(p, m, t, "top")
  <2>1. /\ incoming' = [incoming EXCEPT ![p] = incoming[p]]
        /\ UNCHANGED <<hubVars, link>> /\ asks' \in 0..MaxAsks
    BY <1>1, <1>4, Unchanged
  <2>2. ASSUME Sound(p)
        PROVE  Agreed(p, incoming[p] \o out[p], t, Append(up[p], m),
                      floors[room[p]], next)
    <3>1. /\ Agreed(p, incoming[p] \o out[p], ptt[p], up[p], floors[room[p]], next)
          /\ floors[room[p]] \in Floors
      BY <2>2, SoundKnows, TalkFacts DEF Sound
    <3> HIDE DEF t
    <3> QED BY <1>1, <1>3, <1>7, <3>1, AgreedSpoke
  <2> HIDE DEF t, m
  <2> QED BY <1>1, <1>3, <1>5, <1>7, <2>1, <2>2, SendStep
<1> QED BY <1>4, <1>6, <1>7

-----------------------------------------------------------------------------
(* The voice task reads                                                    *)

\* A sequence and its first element.
LEMMA First ==
  ASSUME NEW S, NEW b \in Seq(S), b # <<>>
  PROVE  /\ 1 \in DOMAIN b /\ b[1] = Head(b) /\ Head(b) \in S
         /\ Tail(b) \in Seq(S) /\ Len(Tail(b)) \in Nat /\ Len(Tail(b)) <= Len(b)
         /\ \A k \in DOMAIN b : 1 = k \/ 1 < k
         /\ \E h : Thins(h, b, 1, Tail(b))
<1>1. /\ 1 \in DOMAIN b /\ b[1] = Head(b) /\ Head(b) \in S
      /\ Tail(b) \in Seq(S) /\ Len(Tail(b)) \in Nat /\ Len(Tail(b)) <= Len(b)
      /\ \A k \in DOMAIN b : 1 = k \/ 1 < k
      /\ <<>> \in Seq(S) /\ Len(<<>>) + 1 = 1
  OBVIOUS
<1>2. <<>> \o b = b /\ <<>> \o Tail(b) = Tail(b)
  BY <1>1, ConcatEmptySeq
<1>3. \E h : Thins(h, <<>> \o b, Len(<<>>) + 1, <<>> \o Tail(b))
  BY <1>1, Thinner, Zenon
<1>4. \E h : Thins(h, b, 1, Tail(b))
  BY <1>1, <1>2, <1>3, Zenon
<1> QED BY <1>1, <1>4, Zenon

\* The first element of two joined sequences.
LEMMA FirstOfTwo ==
  ASSUME NEW S, NEW i \in Seq(S), i # <<>>, NEW o \in Seq(S)
  PROVE  /\ 1 \in DOMAIN (i \o o) /\ (i \o o)[1] = Head(i) /\ Head(i) \in S
         /\ Tail(i) \in Seq(S) /\ Len(Tail(i)) <= Len(i) /\ Len(i) \in Nat
         /\ Len(Tail(i)) \in Nat
         /\ \A k \in DOMAIN (i \o o) : ~(k < 1)
         /\ \A j, k \in DOMAIN (i \o o) : j < k \/ j = k \/ k < j
         /\ \E h : Thins(h, i \o o, 1, Tail(i) \o o)
<1> DEFINE b == i \o o
           e == Tail(i)
           d == e \o o
           L == Len(i)
           M == Len(o)
<1>1. /\ b \in Seq(S) /\ L \in Nat /\ M \in Nat /\ L > 0
      /\ Len(b) = L + M /\ DOMAIN b = 1..(L + M)
      /\ \A k \in 1..L : b[k] = i[k]
      /\ \A k \in 1..M : b[L + k] = o[k]
      /\ Head(i) = i[1] /\ Head(i) \in S
      /\ e \in Seq(S) /\ Len(e) = L - 1
      /\ \A k \in 1..(L - 1) : e[k] = i[k + 1]
  OBVIOUS
<1> HIDE DEF b, e
<1>2. /\ d \in Seq(S) /\ Len(d) = (L - 1) + M
      /\ \A k \in 1..(L - 1) : d[k] = e[k]
      /\ \A k \in 1..M : d[(L - 1) + k] = o[k]
  <2>1. /\ d \in Seq(S) /\ Len(d) = Len(e) + M
        /\ \A k \in 1..Len(e) : d[k] = e[k]
        /\ \A k \in 1..M : d[Len(e) + k] = o[k]
    <3>1. e \in Seq(S)
      BY <1>1
    <3> QED BY <3>1
  <2> QED BY <1>1, <2>1
<1> HIDE DEF d, L, M
<1>3. /\ Tail(b) \in Seq(S) /\ Len(Tail(b)) = (L - 1) + M /\ b # <<>>
      /\ \A k \in 1..((L - 1) + M) : Tail(b)[k] = b[k + 1]
  <2>1. Len(b) > 0 /\ Len(b) - 1 = (L - 1) + M /\ b # <<>>
    BY <1>1
  <2>2. /\ Tail(b) \in Seq(S) /\ Len(Tail(b)) = Len(b) - 1
        /\ \A k \in 1..(Len(b) - 1) : Tail(b)[k] = b[k + 1]
    BY <1>1, <2>1
  <2> QED BY <2>1, <2>2
<1>4. ASSUME NEW k \in 1..((L - 1) + M) PROVE Tail(b)[k] = d[k]
  <2>1. CASE k <= L - 1
    <3>1. k \in 1..(L - 1) /\ k + 1 \in 1..L
      BY <1>1, <2>1
    <3> QED BY <1>1, <1>2, <1>3, <3>1
  <2>2. CASE ~(k <= L - 1)
    <3> DEFINE j == k - (L - 1)
    <3>1. j \in 1..M /\ k = (L - 1) + j /\ k + 1 = L + j
      BY <1>1, <2>2
    <3> HIDE DEF j
    <3>2. d[k] = o[j] /\ b[k + 1] = o[j]
      BY <1>1, <1>2, <3>1
    <3> QED BY <1>3, <3>2
  <2> QED BY <2>1, <2>2
<1>5. Tail(b) = d
  BY <1>2, <1>3, <1>4, SeqEqual
<1>6. \E h : Thins(h, b, 1, d)
  BY <1>1, <1>3, <1>5, First, Zenon
<1>7. /\ 1 \in DOMAIN b /\ b[1] = Head(i) /\ \A k \in DOMAIN b : ~(k < 1)
      /\ \A j, k \in DOMAIN b : j < k \/ j = k \/ k < j
      /\ Len(e) <= L /\ Len(e) \in Nat
  BY <1>1
<1> QED BY <1>1, <1>6, <1>7, Zenon DEF b, d, e, L

\* pl_ptt_grant, pl_ptt_deny and pl_ptt_floor: a message is handled.
LEMMA ReceiveKeeps ==
  ASSUME TalkInv, NEW p \in Devices, Receive(p) PROVE TalkInv'
<1> DEFINE i == Tail(incoming[p])
           m == Head(incoming[p])
           c == incoming[p] \o out[p]
           d == i \o out[p]
           t == ptt[p]
           f == floors[room[p]]
<1>1. /\ incoming[p] # <<>> /\ incoming' = [incoming EXCEPT ![p] = i]
      /\ UNCHANGED <<hubVars, link>> /\ asks' = asks
      /\ \E to \in {"receive", "send"} :
           \/ /\ m.kind # "grant"
              /\ Go(p, Heard(t, m), to) /\ UNCHANGED up
           \/ /\ m.kind = "grant" /\ Wanted(p, m)
              /\ Go(p, [t EXCEPT !.stream = m.stream, !.pending = 0,
                                 !.seq = 0], to)
              /\ UNCHANGED up
           \/ /\ m.kind = "grant" /\ ~Wanted(p, m)
              /\ SendAndGo(p, GiveBack(m.stream), t, to)
  BY DEF Receive
<1>2. /\ t \in Talks /\ up[p] \in Seq(Upward) /\ Len(up[p]) <= UpLimit
      /\ incoming[p] \in Seq(Packet) /\ out[p] \in Seq(Packet)
      /\ Len(incoming[p]) <= IncomingLimit /\ IncomingLimit \in Nat
      /\ asks' \in 0..MaxAsks /\ next \in Nat /\ p \in Peers
  BY <1>1, TalkFacts
<1>3. /\ 1 \in DOMAIN c /\ c[1] = m /\ m \in Packet
      /\ i \in Seq(Packet) /\ Len(i) <= Len(incoming[p])
      /\ Len(i) \in Nat /\ Len(incoming[p]) \in Nat
      /\ \A k \in DOMAIN c : ~(k < 1)
      /\ \A j, k \in DOMAIN c : j < k \/ j = k \/ k < j
      /\ \E h : Thins(h, c, 1, d)
  BY <1>1, <1>2, FirstOfTwo, Zenon
<1>4. Len(i) <= IncomingLimit
  BY <1>2, <1>3
<1>5. PICK h : Thins(h, c, 1, d)
  BY <1>3
<1>6. PICK to \in {"receive", "send"} :
           \/ /\ m.kind # "grant"
              /\ Go(p, Heard(t, m), to) /\ UNCHANGED up
           \/ /\ m.kind = "grant" /\ Wanted(p, m)
              /\ Go(p, [t EXCEPT !.stream = m.stream, !.pending = 0,
                                 !.seq = 0], to)
              /\ UNCHANGED up
           \/ /\ m.kind = "grant" /\ ~Wanted(p, m)
              /\ SendAndGo(p, GiveBack(m.stream), t, to)
  BY <1>1
<1>7. to \in Places \ {"end"}
  BY DEF Places
<1>8. Sound(p) => Agreed(p, c, t, up[p], f, next)
  BY SoundKnows
<1>9. m.stream \in Nat /\ m.n \in Nat
  BY <1>3 DEF Packet
<1>10. t.stream \in Nat /\ t.pending \in Nat /\ t.seq \in Nat
  BY <1>2 DEF Talks
<1> HIDE DEF i, m, c, d, t, f
<1>11. ASSUME NEW w \in Talks, Go(p, w, to), UNCHANGED up,
              Sound(p) => Agreed(p, d, w, up[p], f, next)
       PROVE  TalkInv'
  <2>1. up' = [up EXCEPT ![p] = up[p]]
    BY <1>11, Unchanged
  <2> USE DEF d, f
  <2> QED BY <1>1, <1>2, <1>3, <1>4, <1>7, <1>11, <2>1, GoStep
<1>12. CASE /\ m.kind # "grant"
            /\ Go(p, Heard(t, m), to) /\ UNCHANGED up
  <2> DEFINE w == Heard(t, m)
  <2>1. /\ w \in Talks /\ w.seq = t.seq
        /\ w.stream = IF m.kind = "floor" /\ m.stream # t.stream
                      THEN 0 ELSE t.stream
        /\ t.pending = 0 => w.pending = 0
    BY <1>2, <1>10 DEF Heard, Talks
  <2>2. Go(p, w, to) /\ UNCHANGED up
    BY <1>12
  <2> HIDE DEF w
  <2>3. ASSUME Sound(p), m.kind = "floor" PROVE Agreed(p, d, w, up[p], f, next)
    <3>1. w.stream = IF c[1].stream # t.stream THEN 0 ELSE t.stream
      BY <1>3, <2>1, <2>3
    <3>2. c[1].kind = "floor"
      BY <1>3, <2>3
    <3> QED BY <1>2, <1>3, <1>5, <1>8, <2>1, <2>3, <3>1, <3>2, ThinFloor
  <2>4. ASSUME Sound(p), m.kind # "floor" PROVE Agreed(p, d, w, up[p], f, next)
    <3>1. c[1].kind \notin {"grant", "floor"}
      BY <1>3, <1>12, <2>4
    <3>2. Agreed(p, d, t, up[p], f, next)
      BY <1>3, <1>5, <1>8, <2>4, <3>1, ThinOther
    <3>3. w.stream = t.stream /\ w.seq = t.seq
      BY <2>1, <2>4
    <3>4. w.stream # 0 => w.pending = 0
      BY <2>1, <2>4, <3>3, TalksOrWaits DEF t
    <3> QED BY <3>2, <3>3, <3>4, AgreedGoesOn
  <2> QED BY <1>11, <2>1, <2>2, <2>3, <2>4
<1>13. CASE /\ m.kind = "grant" /\ Wanted(p, m)
            /\ Go(p, [t EXCEPT !.stream = m.stream, !.pending = 0,
                               !.seq = 0], to)
            /\ UNCHANGED up
  <2> DEFINE w == [t EXCEPT !.stream = m.stream, !.pending = 0, !.seq = 0]
  <2>1. w \in Talks /\ w.stream = m.stream /\ w.seq = 0 /\ w.pending = 0
    BY <1>2, <1>9 DEF Talks
  <2>2. Go(p, w, to) /\ UNCHANGED up /\ t.pending # 0
    BY <1>13 DEF Wanted, t
  <2> HIDE DEF w
  <2>3. ASSUME Sound(p) PROVE Agreed(p, d, w, up[p], f, next)
    <3>1. t.stream = 0
      BY <2>2, <2>3, TalksOrWaits DEF t
    <3>2. w.stream = c[1].stream /\ c[1].kind = "grant"
      BY <1>3, <1>13, <2>1
    <3> QED BY <1>2, <1>3, <1>5, <1>8, <2>1, <2>3, <3>1, <3>2, ThinGranted
  <2> QED BY <1>11, <2>1, <2>2, <2>3
<1>14. CASE /\ m.kind = "grant" /\ ~Wanted(p, m)
            /\ SendAndGo(p, GiveBack(m.stream), t, to)
  <2> DEFINE b == GiveBack(m.stream)
             u == Append(up[p], b)
  <2>1. b \in Upward /\ b.kind # "audio"
    <3>1. b \in Upward /\ b.kind = "release"
      BY <1>9, UpwardTypes
    <3> QED BY <3>1
  <2>2. \E k \in DOMAIN u : u[k] = GiveBack(m.stream)
    <3>1. \A w \in Upward : /\ Len(up[p]) + 1 \in DOMAIN Append(up[p], w)
                            /\ Append(up[p], w)[Len(up[p]) + 1] = w
      BY <1>2, OneMore, Zenon
    <3>2. Len(up[p]) + 1 \in DOMAIN u /\ u[Len(up[p]) + 1] = b
      BY <2>1, <3>1, Zenon
    <3> QED BY <3>2, Zenon
  <2>3. SendAndGo(p, b, t, to)
    BY <1>14
  <2> HIDE DEF b
  <2>4. ASSUME Sound(p) PROVE Agreed(p, d, t, u, f, next)
    <3>1. Agreed(p, c, t, u, f, next)
      BY <1>2, <1>8, <2>1, <2>4, AgreedSaid
    <3>2. c[1].kind = "grant" /\ c[1].stream = m.stream
      BY <1>3, <1>14
    <3>3. \E k \in DOMAIN u : u[k] = GiveBack(c[1].stream)
      BY <2>2, <3>2
    <3> QED BY <1>3, <1>5, <3>1, <3>2, <3>3, ThinRefused
  <2> USE DEF d, f
  <2> QED BY <1>1, <1>2, <1>3, <1>4, <1>7, <2>1, <2>3, <2>4, SendStep
<1> QED BY <1>6, <1>12, <1>13, <1>14

-----------------------------------------------------------------------------
(* The session begins, ends and is served                                  *)

\* What a step of the hub needs not say of the device.
LEMMA Settled ==
  ASSUME TalkInv, NEW p \in Devices
  PROVE  /\ ptt[p] \in Talks /\ pc[p] \in Places /\ held[p] \in BOOLEAN
         /\ fault[p] \in BOOLEAN /\ link[p] \in BOOLEAN
         /\ up[p] \in Seq(Upward) /\ Len(up[p]) <= UpLimit
         /\ incoming[p] \in Seq(Packet) /\ Len(incoming[p]) <= IncomingLimit
         /\ <<>> \in Seq(Upward) /\ Len(<<>>) <= UpLimit
         /\ <<>> \in Seq(Packet) /\ Len(<<>>) <= IncomingLimit
         /\ asks \in 0..MaxAsks
         /\ pc[p] = "end" => ptt[p].stream = 0 /\ (fault[p] \/ ~link[p])
<1>1. UpLimit \in Nat /\ IncomingLimit \in Nat
  BY TalkFacts
<1>2. /\ <<>> \in Seq(Upward) /\ Len(<<>>) <= UpLimit
      /\ <<>> \in Seq(Packet) /\ Len(<<>>) <= IncomingLimit
  BY <1>1
<1> QED BY <1>2, TalkFacts DEF TalkInv, Away

\* pl_voice_start: a new session knows of no stream.
LEMMA EnterKeeps ==
  ASSUME TalkInv, NEW p \in Devices, NEW r \in Rooms, Enter(p, r) PROVE TalkInv'
<1>1. /\ HubInv' /\ \A q \in Devices \ {p} : Goes(q) => Follows(q)
      /\ room'[p] = r /\ floors'[r].owner # p /\ next' = next
      /\ Goes(p) => NoGrant(out'[p])
  <2>1. HubInv /\ p \in Peers /\ Join(p, r) /\ Devices \subseteq Peers
    BY TalkFacts, TalkAssumption DEF TalkInv, Enter
  <2>2. /\ HubInv' /\ \A q \in Peers \ {p} : Goes(q) => Follows(q)
        /\ room'[p] = r /\ floors'[r].owner # p /\ next' = next
        /\ Goes(p) => NoGrant(out'[p])
    BY <2>1, JoinFollows
  <2> QED BY <2>1, <2>2
<1>2. /\ held' = [held EXCEPT ![p] = held[p]]
      /\ ptt' = [ptt EXCEPT ![p] = ptt[p]]
      /\ pc' = [pc EXCEPT ![p] = "top"] /\ "top" \in Places
      /\ fault' = [fault EXCEPT ![p] = FALSE] /\ FALSE \in BOOLEAN
      /\ link' = [link EXCEPT ![p] = TRUE] /\ TRUE \in BOOLEAN
      /\ up' = [up EXCEPT ![p] = <<>>] /\ incoming' = [incoming EXCEPT ![p] = <<>>]
      /\ asks' = asks /\ pc[p] = "end" /\ "top" # "end"
  BY Unchanged DEF Enter, Places
<1>3. ASSUME Goes(p)
      PROVE  Agreed(p, <<>> \o out'[p], ptt[p], <<>>, floors'[room'[p]], next')
  <2>1. out'[p] \in Seq(Packet) /\ next' \in Nat
    BY <1>1, TalkFacts DEF HubInv, HubTypeOK
  <2>2. <<>> \o out'[p] = out'[p]
    BY <2>1, ConcatEmptySeq
  <2>3. ptt[p].stream = 0
    BY <1>2, Settled
  <2> QED BY <1>1, <1>3, <2>1, <2>2, <2>3, AgreedFresh
<1>4. asks' \in 0..MaxAsks
  BY <1>2, Settled
<1> QED BY <1>1, <1>2, <1>3, <1>4, Settled, LocalStep, ZenonT(120)

\* A step after which the hub knows the device no longer, or as before.
LEMMA HubStep ==
  ASSUME TalkInv, NEW p \in Devices, HubInv',
         \A q \in Devices \ {p} : Goes(q) => Follows(q),
         UNCHANGED <<held, ptt, pc, link, asks>>,
         NEW u \in Seq(Upward), Len(u) <= UpLimit, up' = [up EXCEPT ![p] = u],
         NEW i \in Seq(Packet), Len(i) <= IncomingLimit,
         incoming' = [incoming EXCEPT ![p] = i],
         NEW fl \in BOOLEAN, fault' = [fault EXCEPT ![p] = fl], fault[p] => fl,
         Goes(p) /\ link[p] /\ ~fl =>
           Agreed(p, i \o out'[p], ptt[p], u, floors'[room'[p]], next')
  PROVE  TalkInv'
<1>1. /\ held' = [held EXCEPT ![p] = held[p]]
      /\ ptt' = [ptt EXCEPT ![p] = ptt[p]]
      /\ pc' = [pc EXCEPT ![p] = pc[p]]
      /\ link' = [link EXCEPT ![p] = link[p]]
      /\ asks' = asks
  BY Unchanged
<1>2. asks' \in 0..MaxAsks
  BY <1>1, Settled
<1>3. pc[p] = "end" => ptt[p].stream = 0 /\ (fl \/ ~link[p])
  BY Settled
<1>4. /\ ptt[p] \in Talks /\ pc[p] \in Places /\ held[p] \in BOOLEAN
      /\ link[p] \in BOOLEAN
  BY Settled
<1> QED BY <1>1, <1>2, <1>3, <1>4, LocalStep, ZenonT(120)

\* The hub forgets the peer.
LEMMA ForgetKeeps ==
  ASSUME TalkInv, NEW p \in Devices, Forget(p) PROVE TalkInv'
<1>1. HubInv /\ p \in Peers /\ Leave(p) /\ Devices \subseteq Peers
  BY TalkFacts, TalkAssumption DEF TalkInv, Forget
<1>2. /\ HubInv' /\ room'[p] = NoRoom
      /\ \A q \in Peers \ {p} : Goes(q) => Follows(q)
  BY <1>1, LeaveFollows
<1>3. ~Goes(p) /\ \A q \in Devices \ {p} : Goes(q) => Follows(q)
  BY <1>1, <1>2 DEF Goes
<1>4. /\ UNCHANGED <<held, ptt, pc, link, asks>>
      /\ up' = [up EXCEPT ![p] = <<>>]
      /\ incoming' = [incoming EXCEPT ![p] = incoming[p]]
      /\ fault' = [fault EXCEPT ![p] = fault[p]]
  BY Unchanged DEF Forget
<1> QED BY <1>2, <1>3, <1>4, Settled, HubStep

\* A sequence is its head and its tail.
LEMMA HeadAndTail ==
  ASSUME NEW S, NEW q \in Seq(S), q # <<>>
  PROVE  /\ q = <<Head(q)>> \o Tail(q) /\ Tail(q) \in Seq(S)
         /\ <<Head(q)>> \in Seq(S)
<1> DEFINE h == Head(q)
           e == Tail(q)
<1>1. /\ h \in S /\ e \in Seq(S) /\ Len(e) = Len(q) - 1 /\ h = q[1]
      /\ \A i \in 1..Len(q)-1 : e[i] = q[i + 1]
      /\ Len(q) \in Nat /\ Len(q) > 0
  OBVIOUS
<1> HIDE DEF h, e
<1>2. <<h>> \in Seq(S) /\ Len(<<h>>) = 1 /\ <<h>>[1] = h
  BY <1>1
<1> DEFINE o == <<h>>
<1> HIDE DEF o
<1>3. /\ o \o e \in Seq(S) /\ Len(o \o e) = Len(q)
      /\ \A i \in 1..Len(q) : (o \o e)[i] = IF i <= 1 THEN o[i] ELSE e[i - 1]
  <2>1. o \in Seq(S) /\ Len(o) = 1
    BY <1>2 DEF o
  <2>2. /\ o \o e \in Seq(S) /\ Len(o \o e) = Len(o) + Len(e)
        /\ \A i \in 1..Len(o) + Len(e) :
             (o \o e)[i] = IF i <= Len(o) THEN o[i] ELSE e[i - Len(o)]
    <3>1. o \in Seq(S) /\ e \in Seq(S)
      BY <1>1, <2>1
    <3> QED BY <3>1, ConcatProperties
  <2>3. Len(o) + Len(e) = Len(q)
    BY <1>1, <2>1
  <2> QED BY <2>1, <2>2, <2>3
<1>4. ASSUME NEW i \in 1..Len(q) PROVE (o \o e)[i] = q[i]
  <2>1. CASE i = 1
    BY <1>1, <1>2, <1>3, <2>1 DEF o
  <2>2. CASE i # 1
    <3>1. i - 1 \in 1..Len(q)-1 /\ i - 1 + 1 = i /\ ~(i <= 1)
      BY <1>1, <2>2
    <3> QED BY <1>1, <1>3, <3>1
  <2> QED BY <2>1, <2>2
<1>5. o \o e = q
  BY <1>3, <1>4, SeqEqual
<1> QED BY <1>1, <1>2, <1>5 DEF h, e, o

\* ws_event: a message goes from the hub's queue to the device's.
LEMMA ArriveKeeps ==
  ASSUME TalkInv, NEW p \in Devices, Arrive(p) PROVE TalkInv'
<1> DEFINE full == Len(incoming[p]) >= IncomingLimit
           gone == full \/ ~link[p] \/ pc[p] = "end"
           m == Head(out[p])
           i == IF gone THEN incoming[p] ELSE Append(incoming[p], m)
           fl == fault[p] \/ full
<1>1. HubInv /\ p \in Peers /\ Deliver(p) /\ Devices \subseteq Peers
  BY TalkFacts, TalkAssumption DEF TalkInv, Arrive
<1>2. /\ HubInv' /\ UNCHANGED <<room, floors, next, life>>
      /\ out[p] # <<>> /\ out'[p] = Tail(out[p])
      /\ \A q \in Devices \ {p} : Goes(q) => Follows(q)
  <2>1. /\ HubInv' /\ UNCHANGED <<room, floors, next, life>>
        /\ out[p] # <<>> /\ out'[p] = Tail(out[p])
        /\ \A q \in Peers \ {p} : Goes(q) => Follows(q)
    BY <1>1, TakeFollows
  <2> QED BY <1>1, <2>1
<1>3. /\ UNCHANGED <<held, ptt, pc, link, asks>>
      /\ up' = [up EXCEPT ![p] = up[p]]
      /\ fault' = [fault EXCEPT ![p] = fl] /\ fl \in BOOLEAN /\ (fault[p] => fl)
  BY Unchanged DEF Arrive
<1>4. incoming' = [incoming EXCEPT ![p] = i]
  <2>1. incoming' = IF gone THEN incoming
                    ELSE [incoming EXCEPT ![p] = Append(incoming[p], m)]
    BY DEF Arrive
  <2>2. CASE gone
    BY <2>1, <2>2, Unchanged
  <2>3. CASE ~gone
    BY <2>1, <2>3
  <2> QED BY <2>2, <2>3
<1>5. /\ incoming[p] \in Seq(Packet) /\ out[p] \in Seq(Packet)
      /\ Len(incoming[p]) <= IncomingLimit /\ IncomingLimit \in Nat
  BY TalkFacts
<1>6. m \in Packet
  BY <1>2, <1>5
<1>7. i \in Seq(Packet) /\ Len(i) <= IncomingLimit
  <2>1. Len(incoming[p]) \in Nat /\ Append(incoming[p], m) \in Seq(Packet)
        /\ Len(Append(incoming[p], m)) = Len(incoming[p]) + 1
    BY <1>5, <1>6
  <2>2. CASE gone
    BY <1>5, <2>2
  <2>3. CASE ~gone
    <3>1. Len(incoming[p]) < IncomingLimit /\ i = Append(incoming[p], m)
      BY <1>5, <2>1, <2>3
    <3> HIDE DEF i, m
    <3> QED BY <1>5, <2>1, <3>1
  <2> QED BY <2>2, <2>3
<1>8. ASSUME Goes(p), link[p], ~fl
      PROVE  Agreed(p, i \o out'[p], ptt[p], up[p], floors'[room'[p]], next')
  <2>1. Sound(p) /\ ~gone
    BY <1>2, <1>8, Settled DEF Goes, Sound
  <2>2. i \o out'[p] = incoming[p] \o out[p]
    <3>1. out[p] = <<m>> \o Tail(out[p]) /\ Tail(out[p]) \in Seq(Packet)
          /\ <<m>> \in Seq(Packet)
      BY <1>2, <1>5, HeadAndTail
    <3>2. i = incoming[p] \o <<m>>
      BY <1>5, <1>6, <2>1, AppendIsConcat
    <3>3. incoming[p] \o (<<m>> \o Tail(out[p])) = (incoming[p] \o <<m>>) \o Tail(out[p])
      BY <1>5, <3>1, ComingGrows
    <3> QED BY <1>2, <3>1, <3>2, <3>3
  <2> QED BY <1>2, <2>1, <2>2, SoundKnows
<1> HIDE DEF i, fl
<1> QED BY <1>2, <1>3, <1>4, <1>7, <1>8, Settled, HubStep

\* The relay's reader handles one message of the device.
LEMMA ServeKeeps ==
  ASSUME TalkInv, NEW p \in Devices, Serve(p) PROVE TalkInv'
<1> DEFINE v == Tail(up[p])
           m == Head(up[p])
           c == incoming[p] \o out[p]
           e == incoming[p] \o out'[p]
           t == ptt[p]
           f == floors[room[p]]
           g == floors'[room'[p]]
<1>1. /\ HubInv /\ p \in Peers /\ Devices \subseteq Peers /\ room[p] # NoRoom
      /\ up[p] # <<>>
  BY TalkFacts, TalkAssumption DEF TalkInv, Serve, Reading
<1>2. /\ UNCHANGED <<held, ptt, pc, link, asks>>
      /\ up' = [up EXCEPT ![p] = v]
      /\ incoming' = [incoming EXCEPT ![p] = incoming[p]]
      /\ fault' = [fault EXCEPT ![p] = fault[p]]
  BY Unchanged DEF Serve
<1>3. /\ up[p] \in Seq(Upward) /\ Len(up[p]) <= UpLimit /\ UpLimit \in Nat
      /\ t \in Talks /\ incoming[p] \in Seq(Packet) /\ out[p] \in Seq(Packet)
      /\ c \in Seq(Packet) /\ next \in Nat
      /\ room[p] \in Rooms /\ f \in Floors
  BY <1>1, TalkFacts
<1>4. /\ 1 \in DOMAIN up[p] /\ up[p][1] = m /\ m \in Upward
      /\ v \in Seq(Upward) /\ Len(v) \in Nat /\ Len(v) <= Len(up[p])
      /\ \A k \in DOMAIN up[p] : 1 = k \/ 1 < k
      /\ \E h : Thins(h, up[p], 1, v)
  BY <1>1, <1>3, First, Zenon
<1>5. Len(v) <= UpLimit /\ m.n \in Nat /\ m.stream \in Nat
  <2>1. Len(up[p]) \in Nat
    BY <1>3
  <2> QED BY <1>3, <1>4, <2>1 DEF Upward
<1>6. PICK h : Thins(h, up[p], 1, v)
  BY <1>4
<1>7. \/ m.kind = "request" /\ Refuse(p, m.n) /\ UNCHANGED <<room, allowed>>
      \/ m.kind = "request" /\ Give(p, m.n) /\ UNCHANGED <<room, allowed>>
      \/ m.kind = "release" /\ Release(p, m.stream)
      \/ m.kind = "audio" /\ SendAudio(p, m.stream, m.n)
  BY DEF Serve, Request
<1> HIDE DEF v, m
<1>8. ASSUME HubInv', \A q \in Devices \ {p} : Goes(q) => Follows(q),
             Goes(p) /\ link[p] /\ ~fault[p] => Agreed(p, e, t, v, g, next')
      PROVE  TalkInv'
  BY <1>2, <1>4, <1>5, <1>8, Settled, HubStep
<1>9. ASSUME Follows(p), link[p], ~fault[p], HubInv', Goes(p)
      PROVE  Agreed(p, e, t, up[p], g, next')
  <2>1. room'[p] = room[p] /\ life[p] = "open"
    BY <1>9 DEF Follows
  <2>2. Sound(p)
    BY <1>1, <1>9, <2>1 DEF Sound
  <2>3. floors'[room[p]] \in Floors
    BY <1>3, <1>9 DEF HubInv, HubTypeOK, Floors
  <2> QED BY <1>9, <2>2, <2>3, FollowsKnows
<1>10. CASE m.kind = "request" /\ Refuse(p, m.n) /\ UNCHANGED <<room, allowed>>
  <2>1. HubInv' /\ \A q \in Peers : Goes(q) => Follows(q)
    BY <1>1, <1>5, <1>10, RefuseFollows
  <2>2. ASSUME Goes(p), link[p], ~fault[p] PROVE Agreed(p, e, t, v, g, next')
    <3>1. Agreed(p, e, t, up[p], g, next')
      BY <1>1, <1>9, <2>1, <2>2
    <3>2. up[p][1].kind = "request"
      BY <1>4, <1>10
    <3> HIDE DEF e, t, g
    <3> QED BY <1>4, <1>6, <3>1, <3>2, AgreedServed
  <2> HIDE DEF e, t, g
  <2> QED BY <1>1, <1>8, <2>1, <2>2
<1>11. CASE m.kind = "release" /\ Release(p, m.stream)
  <2>1. /\ HubInv' /\ \A q \in Peers : Goes(q) => Follows(q)
        /\ ~(floors'[room[p]].owner = p /\ floors'[room[p]].stream = m.stream)
    BY <1>1, <1>11, ReleaseFollows
  <2>2. ASSUME Goes(p), link[p], ~fault[p] PROVE Agreed(p, e, t, v, g, next')
    <3>1. Agreed(p, e, t, up[p], g, next')
      BY <1>1, <1>9, <2>1, <2>2
    <3>2. up[p][1].kind = "release" /\ up[p][1].stream = m.stream
      BY <1>4, <1>11
    <3>3. room'[p] = room[p]
      BY <1>1, <2>1, <2>2 DEF Follows
    <3>4. ~Own(p, g, up[p][1].stream)
      BY <2>1, <3>2, <3>3 DEF Own
    <3> HIDE DEF e, t, g
    <3> QED BY <1>4, <1>6, <3>1, <3>2, <3>4, AgreedServed
  <2> HIDE DEF e, t, g
  <2> QED BY <1>1, <1>8, <2>1, <2>2
<1>12. CASE m.kind = "audio" /\ SendAudio(p, m.stream, m.n)
  <2>1. /\ HubInv' /\ \A q \in Peers \ {p} : Goes(q) => Follows(q)
        /\ Goes(p) =>
              /\ room'[p] = room[p] /\ life[p] = "open" /\ next' = next
              /\ f.owner = p /\ f.stream = m.stream /\ f.seq < m.n
              /\ floors'[room[p]].owner = p /\ floors'[room[p]].stream = m.stream
              /\ floors'[room[p]].seq = m.n
              /\ out'[p] = out[p]
    BY <1>1, <1>5, <1>12, AudioFollows
  <2>2. ASSUME Goes(p), link[p], ~fault[p] PROVE Agreed(p, e, t, v, g, next')
    <3>1. /\ life[p] = "open" /\ next' = next /\ e = c
          /\ f.owner = p /\ f.stream = m.stream /\ f.seq < m.n
          /\ g.owner = p /\ g.stream = f.stream /\ g.seq = m.n
      BY <2>1, <2>2
    <3>2. Sound(p)
      BY <1>1, <2>2, <3>1 DEF Sound
    <3>3. Agreed(p, c, t, up[p], f, next)
      BY <3>2, SoundKnows
    <3>4. m = Audio(f.stream, m.n)
      BY <1>4, <1>12, <3>1 DEF Upward, Audio
    <3> HIDE DEF c, e, t, f, g
    <3>5. /\ up[p][1] = Audio(f.stream, up[p][1].n) /\ f.seq < up[p][1].n
          /\ g.seq = up[p][1].n
      BY <1>4, <3>1, <3>4
    <3>6. Agreed(p, c, t, v, g, next)
      BY <1>3, <1>4, <1>6, <3>1, <3>3, <3>5, AgreedCarried
    <3> QED BY <3>1, <3>6
  <2> HIDE DEF e, t, g
  <2> QED BY <1>1, <1>8, <2>1, <2>2
<1>13. CASE m.kind = "request" /\ Give(p, m.n) /\ UNCHANGED <<room, allowed>>
  <2> DEFINE a == Notices(room)[p]
             b == <<Floor(next + 1), Grant(next + 1, m.n)>>
  <2>1. /\ HubInv'
        /\ \A r \in Peers \ {p} : Goes(r) => Follows(r)
        /\ Goes(p) =>
              /\ room'[p] = room[p] /\ life[p] = "open" /\ next' = next + 1
              /\ floors'[room[p]] = Held(p, next + 1)
              /\ a \in Seq(Packet) /\ Turn(p, f, Free, a)
              /\ out'[p] = out[p] \o (a \o b)
    BY <1>1, <1>5, <1>13, GiveFollows
  <2>2. ASSUME Goes(p), link[p], ~fault[p] PROVE Agreed(p, e, t, v, g, next')
    <3>1. /\ life[p] = "open" /\ next' = next + 1 /\ g = Held(p, next + 1)
          /\ a \in Seq(Packet) /\ Turn(p, f, Free, a)
          /\ out'[p] = out[p] \o (a \o b)
      BY <2>1, <2>2
    <3>2. Sound(p)
      BY <1>1, <2>2, <3>1 DEF Sound
    <3>3. Agreed(p, c, t, up[p], f, next)
      BY <3>2, SoundKnows
    <3>4. /\ b \in Seq(Packet)
      <4>1. next + 1 \in Nat
        BY <1>3
      <4>2. Floor(next + 1) \in Packet /\ Grant(next + 1, m.n) \in Packet
        BY <1>5, <4>1, PacketTypes
      <4> QED BY <4>2
    <3> HIDE DEF a, b, f, g, t
    <3>5. e = (c \o a) \o b
      <4>1. /\ a \o b \in Seq(Packet) /\ out[p] \o a \in Seq(Packet)
        BY <1>3, <3>1, <3>4
      <4>2. out[p] \o (a \o b) = (out[p] \o a) \o b
        <5>1. out[p] \in Seq(Packet) /\ a \in Seq(Packet) /\ b \in Seq(Packet)
          BY <1>3, <3>1, <3>4
        <5> QED BY <5>1, ComingGrows
      <4>3. incoming[p] \o ((out[p] \o a) \o b) = (incoming[p] \o (out[p] \o a)) \o b
        <5> DEFINE x == out[p] \o a
        <5>1. x \in Seq(Packet) /\ incoming[p] \in Seq(Packet) /\ b \in Seq(Packet)
          BY <1>3, <3>4, <4>1
        <5> HIDE DEF x
        <5>2. incoming[p] \o (x \o b) = (incoming[p] \o x) \o b
          BY <5>1, ComingGrows
        <5> QED BY <5>2 DEF x
      <4>4. incoming[p] \o (out[p] \o a) = c \o a
        BY <1>3, <3>1, ComingGrows
      <4> QED BY <3>1, <4>2, <4>3, <4>4
    <3> HIDE DEF c, e
    <3>6. Free \in Floors /\ Free.owner # p
      BY <1>1, HubFloors
    <3>7. Agreed(p, c \o a, t, up[p], Free, next)
      BY <1>1, <1>3, <3>1, <3>3, <3>6, AgreedHears
    <3>8. c \o a \in Seq(Packet)
      BY <1>3, <3>1
    <3>9. Agreed(p, (c \o a) \o b, t, up[p], Held(p, next + 1), next + 1)
      BY <1>1, <1>3, <1>5, <3>6, <3>7, <3>8, AgreedGiven DEF b
    <3>10. Agreed(p, e, t, up[p], g, next')
      BY <3>1, <3>5, <3>9
    <3>11. up[p][1].kind = "request"
      BY <1>4, <1>13
    <3> QED BY <1>4, <1>6, <3>10, <3>11, AgreedServed
  <2> HIDE DEF e, t, g
  <2> QED BY <1>1, <1>8, <2>1, <2>2
<1> QED BY <1>7, <1>10, <1>11, <1>12, <1>13

-----------------------------------------------------------------------------
(* What the hub does otherwise                                             *)

\* The relay notices that the connection is gone.
LEMMA HubNoticesKeeps ==
  ASSUME TalkInv, NEW p \in Devices, HubNotices(p) PROVE TalkInv'
<1>1. HubInv /\ p \in Peers /\ Devices \subseteq Peers
  BY TalkFacts, TalkAssumption DEF TalkInv, HubNotices
<1>2. HubInv' /\ \A q \in Peers : Goes(q) => Follows(q)
  BY <1>1, LifeFollows DEF HubNotices
<1>3. UNCHANGED deviceVars
  BY DEF HubNotices
<1> QED BY <1>1, <1>2, <1>3, RelayStep

\* A device knows after any call of another peer.
LEMMA OthersFollow ==
  ASSUME HubInv, NEW p \in Peers, ByOthers(p) \/ Leave(p)
  PROVE  HubInv' /\ \A q \in Peers \ {p} : Goes(q) => Follows(q)
<1>1. CASE Handle(p)
  <2>1. room[p] # NoRoom /\ next \in Nat /\ MaxSeq \in Nat
    BY <1>1, HubTypes, VoiceAssumption DEF Handle, Reading
  <2>2. CASE Request(p, 1)
    <3>1. 1 \in Nat /\ UNCHANGED <<room, allowed>> /\ (Refuse(p, 1) \/ Give(p, 1))
      BY <2>2 DEF Request
    <3> QED BY <2>1, <3>1, RefuseFollows, GiveFollows
  <2>3. CASE \E s \in 0..next : Release(p, s)
    BY <2>1, <2>3, ReleaseFollows
  <2>4. CASE \E s \in 1..next, n \in 1..MaxSeq : SendAudio(p, s, n)
    <3>1. PICK s \in 1..next, n \in 1..MaxSeq : SendAudio(p, s, n)
      BY <2>4
    <3>2. s \in Nat /\ n \in Nat
      BY <2>1
    <3> QED BY <2>1, <3>1, <3>2, AudioFollows
  <2> QED BY <1>1, <2>2, <2>3, <2>4 DEF Handle
<1>2. CASE Leave(p)
  BY <1>2, LeaveFollows
<1>3. CASE Recheck(p) \/ Fail(p) \/ Hangup(p)
  BY <1>3, LifeFollows
<1>4. CASE \E r \in Rooms : Join(p, r)
  BY <1>4, JoinFollows
<1> QED BY <1>1, <1>2, <1>3, <1>4 DEF ByOthers

\* A frame that waited too long is of no meaning for the floor.
LEMMA DiscardKeeps ==
  ASSUME TalkInv, NEW p \in Devices, Discard(p), UNCHANGED deviceVars
  PROVE  TalkInv'
<1> DEFINE i == incoming[p]
           o == out[p]
           f == floors[room[p]]
<1>1. HubInv /\ p \in Peers /\ Devices \subseteq Peers /\ Head(o).kind = "audio"
  BY TalkFacts, TalkAssumption DEF TalkInv, Discard
<1>2. /\ HubInv' /\ UNCHANGED <<room, floors, next, life>>
      /\ o # <<>> /\ out'[p] = Tail(o)
      /\ \A q \in Devices \ {p} : Goes(q) => Follows(q)
  <2>1. /\ HubInv' /\ UNCHANGED <<room, floors, next, life>>
        /\ o # <<>> /\ out'[p] = Tail(o)
        /\ \A q \in Peers \ {p} : Goes(q) => Follows(q)
    BY <1>1, TakeFollows
  <2> QED BY <1>1, <2>1
<1>3. /\ UNCHANGED <<held, ptt, pc, link, asks>>
      /\ up' = [up EXCEPT ![p] = up[p]]
      /\ incoming' = [incoming EXCEPT ![p] = i]
      /\ fault' = [fault EXCEPT ![p] = fault[p]]
  BY Unchanged DEF deviceVars
<1>4. i \in Seq(Packet) /\ o \in Seq(Packet)
  BY TalkFacts
<1>5. ASSUME Goes(p), link[p], ~fault[p]
      PROVE  Agreed(p, i \o out'[p], ptt[p], up[p], floors'[room'[p]], next')
  <2>1. Sound(p)
    BY <1>2, <1>5 DEF Goes, Sound
  <2>2. Agreed(p, i \o o, ptt[p], up[p], f, next)
    BY <2>1, SoundKnows
  <2> HIDE DEF i, o
  <2>3. /\ Len(i) + 1 \in DOMAIN (i \o o) /\ (i \o o)[Len(i) + 1] = Head(o)
        /\ \E h : Thins(h, i \o o, Len(i) + 1, i \o Tail(o))
    BY <1>2, <1>4, Thinner, Zenon
  <2>4. PICK h : Thins(h, i \o o, Len(i) + 1, i \o Tail(o))
    BY <2>3
  <2>5. (i \o o)[Len(i) + 1].kind \notin {"grant", "floor"}
    BY <1>1, <2>3
  <2> DEFINE x == Len(i) + 1
             c == i \o o
             d == i \o Tail(o)
  <2>6. x \in DOMAIN c /\ c[x].kind \notin {"grant", "floor"} /\ Thins(h, c, x, d)
        /\ Agreed(p, c, ptt[p], up[p], f, next)
    BY <2>2, <2>3, <2>4, <2>5
  <2> HIDE DEF x, c, d, f
  <2>7. Agreed(p, d, ptt[p], up[p], f, next)
    BY <2>6, ThinOther
  <2> QED BY <1>2, <2>7 DEF d, f
<1> QED BY <1>2, <1>3, <1>5, Settled, HubStep

\* The hub without the device: leases, tickers, other clients.
LEMMA OnTheRelayKeeps ==
  ASSUME TalkInv, OnTheRelay PROVE TalkInv'
<1>1. HubInv /\ Devices \subseteq Peers /\ UNCHANGED deviceVars
  BY TalkAssumption DEF TalkInv, OnTheRelay
<1>2. CASE \E p \in Devices : Discard(p)
  BY <1>1, <1>2, DiscardKeeps
<1>3. CASE \E p \in Peers : Tick(p)
  <2>1. HubInv' /\ \A q \in Peers : Goes(q) => Follows(q)
    BY <1>1, <1>3, TickFollows
  <2> QED BY <1>1, <2>1, RelayStep
<1>4. CASE \E p \in Others : ByOthers(p)
  <2>1. PICK p \in Others : ByOthers(p)
    BY <1>4
  <2>2. p \in Peers /\ p \notin Devices
    BY DEF Others
  <2>3. HubInv' /\ \A q \in Peers \ {p} : Goes(q) => Follows(q)
    BY <1>1, <2>1, <2>2, OthersFollow
  <2> QED BY <1>1, <2>2, <2>3, RelayStep
<1>5. CASE \E r \in Rooms : TimePasses(r)
  <2>1. HubInv' /\ \A q \in Peers : Goes(q) => Follows(q)
    BY <1>1, <1>5, TimeFollows
  <2> QED BY <1>1, <2>1, RelayStep
<1> QED BY <1>2, <1>3, <1>4, <1>5 DEF OnTheRelay

\* Another client's session ends.
LEMMA GoneByOthersKeeps ==
  ASSUME TalkInv, NEW p \in Others, GoneByOthers(p) PROVE TalkInv'
<1>1. HubInv /\ Devices \subseteq Peers /\ Leave(p) /\ UNCHANGED deviceVars
  BY TalkAssumption DEF TalkInv, GoneByOthers
<1>2. p \in Peers /\ p \notin Devices
  BY DEF Others
<1>3. HubInv' /\ \A q \in Peers \ {p} : Goes(q) => Follows(q)
  BY <1>1, <1>2, OthersFollow
<1> QED BY <1>1, <1>2, <1>3, RelayStep

\* Other clients read their queues.
LEMMA CatchUpKeeps ==
  ASSUME TalkInv, CatchUp PROVE TalkInv'
<1>1. HubInv /\ Devices \subseteq Peers
  BY TalkAssumption DEF TalkInv
<1>2. PICK p \in Behind : Deliver(p) /\ UNCHANGED deviceVars
  BY DEF CatchUp
<1>3. p \in Peers /\ p \notin Devices
  BY DEF Behind, Others
<1>4. HubInv' /\ \A q \in Peers \ {p} : Goes(q) => Follows(q)
  BY <1>1, <1>2, <1>3, TakeFollows
<1> QED BY <1>1, <1>2, <1>3, <1>4, RelayStep

-----------------------------------------------------------------------------
(* The system                                                              *)

\* The system starts with the invariant.
LEMMA InitKeeps ==
  ASSUME Init PROVE TalkInv
<1>1. HubInv /\ \A p \in Peers : room[p] = NoRoom
  BY InitFollows DEF Init, HubInit
<1>2. DeviceTypeOK
  <2>1. Fresh \in Talks /\ "end" \in Places /\ FALSE \in BOOLEAN
    BY DEF Fresh, Talks, Places
  <2>2. /\ <<>> \in Seq(Upward) /\ <<>> \in Seq(Packet) /\ Len(<<>>) = 0
    OBVIOUS
  <2>3. UpLimit \in Nat /\ IncomingLimit \in Nat /\ MaxAsks \in Nat
    BY TalkAssumption
  <2> QED BY <2>1, <2>2, <2>3 DEF Init, DeviceTypeOK
<1>3. ASSUME NEW p \in Devices PROVE Away(p) /\ ~Sound(p)
  BY <1>3 DEF Init, Away, Sound, Fresh
<1> QED BY <1>1, <1>2, <1>3 DEF TalkInv

\* Every step keeps the invariant.
LEMMA StepKeeps ==
  ASSUME TalkInv, Next PROVE TalkInv'
<1>1. CASE CatchUp
  BY <1>1, CatchUpKeeps
<1>2. CASE OnTheRelay
  BY <1>2, OnTheRelayKeeps
<1>3. ASSUME NEW p \in Devices,
             \/ Button(p) \/ Quit(p) \/ Task(p) \/ Serve(p) \/ Arrive(p)
             \/ Forget(p) \/ HubNotices(p) \/ DeviceNotices(p)
             \/ \E r \in Rooms : Enter(p, r)
      PROVE  TalkInv'
  <2>1. CASE Task(p)
    BY <2>1, LetGoKeeps, AskForFloorKeeps, TimeOutKeeps, ExpireKeeps, IdleKeeps,
       ReceiveKeeps, TransmitKeeps, FinishKeeps DEF Task, Work
  <2>2. CASE Button(p) \/ Quit(p) \/ Serve(p) \/ Arrive(p) \/ Forget(p)
    BY <2>2, ButtonKeeps, QuitKeeps, ServeKeeps, ArriveKeeps, ForgetKeeps
  <2>3. CASE HubNotices(p)
    BY <2>3, HubNoticesKeeps
  <2>4. CASE DeviceNotices(p)
    BY <2>4, CutKeeps DEF DeviceNotices
  <2>5. CASE \E r \in Rooms : Enter(p, r)
    BY <2>5, EnterKeeps
  <2> QED BY <1>3, <2>1, <2>2, <2>3, <2>4, <2>5
<1> QED BY <1>1, <1>2, <1>3, GoneByOthersKeeps
        DEF Next, Step, Unheard, Task

\* A stuttering step keeps the invariant.
LEMMA StutterKeeps ==
  ASSUME TalkInv, UNCHANGED vars PROVE TalkInv'
<1>1. UNCHANGED hubVars /\ UNCHANGED deviceVars
  BY DEF vars
<1>2. HubInv' /\ \A q \in Devices : Goes(q) => Follows(q)
  BY <1>1, HubStays
<1> QED BY <1>1, <1>2, RelayStep

\* The inductive invariant: a device and the hub agree, while both count on
\* the session, on the floor, the messages on their way and the frames.
THEOREM TalkInvariant == Spec => []TalkInv
<1>1. Init => TalkInv
  BY InitKeeps
<1>2. TalkInv /\ [Next]_vars => TalkInv'
  BY StepKeeps, StutterKeeps
<1> QED BY <1>1, <1>2, PTL DEF Spec

\* Every variable of the device and of the hub keeps its type, and no queue
\* grows past its limit.
THEOREM TalkTypesHold == Spec => []TalkTypeOK
<1>1. TalkInv => TalkTypeOK
  BY DEF TalkInv, HubInv, DeviceTypeOK, TalkTypeOK, Talks, Places
<1> QED BY <1>1, TalkInvariant, PTL

\* A device that captures the microphone has the floor, or the message that
\* tells it otherwise is on its way (pl_ptt_floor, hub.go state).
THEOREM SpeakersWillKnow == Spec => []SpeakerWillKnow
<1>1. ASSUME TalkInv, NEW p \in Devices, Sound(p), ptt[p].stream # 0
      PROVE  \/ Holds(p, ptt[p].stream)
             \/ \E i \in DOMAIN Coming(p) :
                  /\ Coming(p)[i].kind = "floor"
                  /\ Coming(p)[i].stream # ptt[p].stream
  <2>1. Told(p, Coming(p), ptt[p], floors[room[p]])
    BY <1>1 DEF TalkInv, Knows, Agreed
  <2> QED BY <1>1, <2>1 DEF Told, Own, Notice, Is, Holds
<1>2. TalkInv => SpeakerWillKnow
  BY <1>1 DEF SpeakerWillKnow
<1> QED BY <1>2, TalkInvariant, PTL

\* The floor is never held by a device that does not know of it: it is used, or
\* its grant is on its way, or it is being given back (pl_ptt_grant, hub.go
\* Request and Release).
THEOREM FloorsAreAccountedFor == Spec => []FloorIsAccountedFor
<1>1. ASSUME TalkInv, NEW p \in Devices, NEW s, Sound(p), Holds(p, s)
      PROVE  \/ ptt[p].stream = s
             \/ \E i \in DOMAIN Coming(p) : /\ Coming(p)[i].kind = "grant"
                                            /\ Coming(p)[i].stream = s
             \/ \E i \in DOMAIN up[p] : up[p][i] = GiveBack(s)
  <2>1. Kept(p, Coming(p), ptt[p], up[p], floors[room[p]], next)
    BY <1>1 DEF TalkInv, Knows, Agreed
  <2>2. Accounted(Coming(p), ptt[p], up[p], floors[room[p]])
        /\ floors[room[p]].stream = s
    BY <1>1, <2>1 DEF Kept, Holds
  <2> QED BY <2>2 DEF Accounted, Is
<1>2. TalkInv => FloorIsAccountedFor
  BY <1>1 DEF FloorIsAccountedFor
<1> QED BY <1>2, TalkInvariant, PTL

\* The hub ends the session of a device for a frame of the stream it talks on
\* only if the device will hear that it lost the floor or if the frame is beyond
\* the rate of the second (hub.go Audio).
THEOREM FramesWillBeCarried == Spec => []FramesAreCarried
<1>1. ASSUME TalkInv, NEW p \in Devices, Sound(p), up[p] # <<>>,
             ptt[p].stream # 0, Head(up[p]).kind = "audio",
             Head(up[p]).stream = ptt[p].stream
      PROVE  \/ Carried(floors[room[p]], p, ptt[p].stream, Head(up[p]).n)
             \/ /\ InTurn(floors[room[p]], p, ptt[p].stream, Head(up[p]).n)
                /\ floors[room[p]].frames = MaxRate
             \/ \E i \in DOMAIN Coming(p) :
                  /\ Coming(p)[i].kind = "floor"
                  /\ Coming(p)[i].stream # ptt[p].stream
  <2> DEFINE f == floors[room[p]]
             u == up[p]
             t == ptt[p]
             s == t.stream
  <2>1. /\ Told(p, Coming(p), t, f)
        /\ Kept(p, Coming(p), t, u, f, next)
    BY <1>1 DEF TalkInv, Knows, Agreed
  <2>2. CASE \E k \in DOMAIN Coming(p) : Notice(Coming(p), k, s)
    BY <2>2 DEF Notice, Is
  <2>3. CASE Own(p, f, s)
    <3>1. InStep(u, s, f.seq, t.seq) /\ f.owner = p /\ f.stream = s
      BY <2>1, <2>3 DEF Kept, Own
    <3>2. u \in Seq(Upward) /\ f \in Floors /\ t \in Talks
      BY <1>1, TalkFacts DEF Sound
    <3>3. /\ 1 \in DOMAIN u /\ u[1] = Head(u) /\ Head(u) \in Upward
          /\ \A k \in DOMAIN u : 1 = k \/ 1 < k
      BY <1>1, <3>2, First, Zenon
    <3>4. f.seq \in Nat /\ t.seq \in Nat /\ Head(u).n \in Nat /\ MaxGap \in Nat
          /\ MaxGap > 0
      BY <3>2, <3>3, VoiceAssumption, TalkAssumption DEF Floors, Talks, Upward
    <3>5. Is(u, 1, "audio") /\ u[1].stream = s
      BY <1>1, <3>3 DEF Is
    <3> HIDE DEF u, f, t, s
    <3>6. f.seq < Head(u).n /\ Head(u).n <= t.seq
      BY <3>1, <3>3, <3>5 DEF InStep
    <3>7. f.seq + 1 \in f.seq + 1..t.seq
      BY <3>4, <3>6
    <3>8. PICK k \in DOMAIN u : u[k] = Audio(s, f.seq + 1)
      BY <3>1, <3>7 DEF InStep
    <3>9. Is(u, k, "audio") /\ u[k].stream = s /\ u[k].n = f.seq + 1
      BY <3>8 DEF Is, Audio
    <3>10. k = 1 \/ u[1].n < u[k].n
      BY <3>1, <3>3, <3>5, <3>9 DEF InStep
    <3>11. Head(u).n = f.seq + 1
      BY <3>3, <3>4, <3>6, <3>9, <3>10
    <3>12. InTurn(f, p, s, Head(u).n)
      BY <3>1, <3>4, <3>11 DEF InTurn
    <3>13. f.frames < MaxRate \/ f.frames = MaxRate
      BY <3>2, VoiceAssumption DEF Floors
    <3>14. Carried(f, p, s, Head(u).n) \/ f.frames = MaxRate
      BY <3>12, <3>13 DEF Carried
    <3> QED BY <3>12, <3>14 DEF u, f, t, s
  <2> QED BY <1>1, <2>1, <2>2, <2>3 DEF Told
<1>2. TalkInv => FramesAreCarried
  BY <1>1 DEF FramesAreCarried
<1> QED BY <1>2, TalkInvariant, PTL
=============================================================================
