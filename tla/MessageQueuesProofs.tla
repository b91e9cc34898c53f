-------------------------- MODULE MessageQueuesProofs --------------------------
(***************************************************************************)
(* Proofs about MessageQueues, for any registered features, mode, slots,   *)
(* sizes and bounds: what waits on the connections and what arrived are    *)
(* Delivery, step by step.                                                 *)
(*                                                                         *)
(* The inductive invariant says that the identities of connections are     *)
(* never given out twice, that a queued message is still served by the     *)
(* connection it waits on, and what became of the message that the         *)
(* transport has while the lock is released.                               *)
(***************************************************************************)
EXTENDS MessageQueues, Folding, TLAPS

-----------------------------------------------------------------------------
(* The inductive invariant.                                                *)

Shapes ==
    /\ frozen \in SUBSET Objects
    /\ conn \in [Slots -> Connections]
    /\ host \in Nat /\ local \in Nat
    /\ hellos \in [Slots -> Nat]
    /\ incoming \in Seq(Incoming)
    /\ pump \in Pumps
    /\ control \in Controls
    /\ sent \in [1..MaxPeers -> Seq(Nat)]
    /\ delivered \in Seq(Nat)
    /\ count \in Counts

(* Identities are given out once.  A client has one connection, to its     *)
(* host; a host is no connection of its own, and its own player is at the  *)
(* local slot and nowhere else.                                            *)
Endpoints ==
    /\ count.peers <= MaxPeers
    /\ host <= count.peers /\ local <= count.peers
    /\ \A s \in Live : conn[s].id <= count.peers
    /\ \A s, t \in Live : conn[s].id = conn[t].id => s = t
    /\ Live # {} => host # 0
    /\ \A s \in Live : conn[s].id = host <=> Mode = "Client"
    /\ Mode # "Client" => \A s \in Live : conn[s].id = local <=> IsLocal(s)
    /\ \A s \in Live : IsLocal(s) => conn[s].phase \in {"Established", "Failed"}

(* This connection is the one for messages of this feature with this peer. *)
Serves(s, o, peer) ==
    /\ conn[s].id # 0
    /\ s \in Route(o, peer)
    /\ Supports(s, o, peer)
    /\ IsLocal(s) \/ ManifestFits

Increasing(queue) == \A i, j \in DOMAIN queue : i < j => queue[i].n < queue[j].n

Outbound ==
    /\ \A s \in Slots : Increasing(conn[s].outgoing)
    /\ \A s \in Slots : \A m \in Range(conn[s].outgoing) :
          /\ 0 < m.n /\ m.n <= count.sends
          /\ conn[s].phase = "Established"
          /\ Serves(s, m.feature, m.peer)
    /\ \A s, t \in Slots : \A m \in Range(conn[s].outgoing), other \in Range(conn[t].outgoing) :
          m.n = other.n => s = t

(* The message that the transport has: still the first of its connection,  *)
(* or gone with all of its feature, which is not coming back.              *)
Front(c, frame) ==
    \E m \in Range(c.outgoing) :
        /\ m.n = frame.n /\ m.feature.id = frame.feature
        /\ \A other \in Range(c.outgoing) : m.n <= other.n

Gone(c, frame) ==
    /\ \A m \in Range(c.outgoing) : m.n # frame.n /\ m.feature.id # frame.feature
    /\ c.phase = "Failed" \/ frame.feature \in c.failed

Held(frame, peer) ==
    IF frame.kind = "Notice" THEN frame.n = 0
    ELSE /\ 0 < frame.n /\ frame.n <= count.sends
         /\ 0 < peer /\ peer <= count.peers
         /\ \A s \in Slots :
              IF conn[s].id = peer THEN Front(conn[s], frame) \/ Gone(conn[s], frame)
              ELSE \A m \in Range(conn[s].outgoing) : m.n # frame.n

Submitted ==
    pump.at = "Submitting" /\ pump.sub.result = "Accepted" => Held(pump.sub.frame, pump.peer)

Hand == IF control.at = "Calling" THEN {control.message} ELSE {}

Inbound ==
    /\ control.at = "Calling" => control.callback # 0
    /\ Increasing(incoming)
    /\ \A m \in Range(incoming), h \in Hand : h.n < m.n
    /\ \A m \in Range(incoming) \cup Hand :
          /\ 0 < m.n /\ m.n <= count.arrivals
          /\ 0 < m.connection /\ m.connection <= count.peers
          /\ \A s \in Slots : conn[s].id = m.connection =>
                conn[s].phase # "Pending" /\ Serves(s, m.feature, m.peer)
    /\ \A h \in Hand, s \in Slots : conn[s].id = h.connection =>
          conn[s].phase # "Ready" \/ h.feature.id \in conn[s].failed

IInv == Shapes /\ Endpoints /\ Outbound /\ Submitted /\ Inbound

-----------------------------------------------------------------------------
(* Queues: sequences of messages with increasing numbers.                  *)

Numbered(M) == \A m \in M : m.n \in Nat

LEMMA EmptyQueue == Range(<<>>) = {} /\ Increasing(<<>>)
BY DEF Range, Increasing

LEMMA RangeIn ==
    ASSUME NEW M, NEW queue \in Seq(M)
    PROVE  /\ DOMAIN queue = 1..Len(queue) /\ Len(queue) \in Nat
           /\ Range(queue) \subseteq M
           /\ \A i \in 1..Len(queue) : queue[i] \in Range(queue)
           /\ \A m \in Range(queue) : \E i \in 1..Len(queue) : queue[i] = m
           /\ queue = <<>> <=> Range(queue) = {}
BY DEF Range

(* A number stands for one message. *)
LEMMA OneMessage ==
    ASSUME NEW M, Numbered(M), NEW queue \in Seq(M), Increasing(queue),
           NEW m \in Range(queue), NEW other \in Range(queue), m.n = other.n
    PROVE  m = other
<1>1. PICK i \in 1..Len(queue), j \in 1..Len(queue) : queue[i] = m /\ queue[j] = other
  BY RangeIn
<1>2. m.n \in Nat /\ other.n \in Nat
  BY RangeIn DEF Numbered
<1>3. ~(i < j) /\ ~(j < i)
  BY SMTT(60), <1>1, <1>2, RangeIn DEF Increasing
<1> QED
  BY <1>1, <1>3

LEMMA AppendedQueue ==
    ASSUME NEW M, Numbered(M), NEW queue \in Seq(M), Increasing(queue),
           NEW m \in M, \A other \in Range(queue) : other.n < m.n
    PROVE  /\ Append(queue, m) \in Seq(M)
           /\ Range(Append(queue, m)) = Range(queue) \cup {m}
           /\ Increasing(Append(queue, m))
<1> DEFINE longer == Append(queue, m)
           n == Len(queue)
<1>1. /\ longer \in Seq(M) /\ n \in Nat /\ DOMAIN longer = 1..(n + 1)
      /\ \A i \in 1..n : longer[i] = queue[i]
      /\ longer[n + 1] = m
  OBVIOUS
<1>2. \A i \in 1..n : queue[i] \in Range(queue)
  BY RangeIn
<1>3. Range(longer) = Range(queue) \cup {m}
  <2>1. Range(longer) \subseteq Range(queue) \cup {m}
    BY <1>1, <1>2 DEF Range
  <2>2. Range(queue) \subseteq Range(longer)
    BY <1>1, RangeIn DEF Range
  <2>3. m \in Range(longer)
    BY <1>1 DEF Range
  <2> QED
    BY <2>1, <2>2, <2>3
<1>4. Increasing(longer)
  <2> SUFFICES ASSUME NEW i \in 1..(n + 1), NEW j \in 1..(n + 1), i < j
               PROVE  longer[i].n < longer[j].n
    BY <1>1 DEF Increasing
  <2>1. CASE j = n + 1
    BY <1>1, <1>2, <2>1
  <2>2. CASE j # n + 1
    <3>1. i \in 1..n /\ j \in 1..n
      BY <1>1, <2>2
    <3> QED
      BY <1>1, <3>1, RangeIn DEF Increasing
  <2> QED
    BY <2>1, <2>2
<1> QED
  BY <1>1, <1>3, <1>4

(* The first has the least number. *)
LEMMA FrontOfQueue ==
    ASSUME NEW M, Numbered(M), NEW queue \in Seq(M), Increasing(queue), queue # <<>>
    PROVE  /\ Head(queue) \in Range(queue) /\ Head(queue) \in M
           /\ \A m \in Range(queue) : Head(queue).n <= m.n
           /\ Tail(queue) \in Seq(M)
           /\ Range(Tail(queue)) = Range(queue) \ {Head(queue)}
           /\ Increasing(Tail(queue))
           /\ \A m \in Range(Tail(queue)) : Head(queue).n < m.n
<1> DEFINE n == Len(queue)
           rest == Tail(queue)
<1>1. /\ n \in Nat /\ n > 0 /\ Head(queue) = queue[1] /\ Head(queue) \in M
      /\ rest \in Seq(M) /\ DOMAIN rest = 1..(n - 1)
      /\ \A i \in 1..(n - 1) : rest[i] = queue[i + 1]
  OBVIOUS
<1>2. /\ \A i \in 1..n : queue[i] \in Range(queue) /\ queue[i] \in M /\ queue[i].n \in Nat
      /\ \A m \in Range(queue) : \E i \in 1..n : queue[i] = m
  BY RangeIn DEF Numbered
<1>3. \A i, j \in 1..n : i < j => queue[i].n < queue[j].n
  BY RangeIn DEF Increasing
<1>4. \A i \in 2..n : queue[1].n < queue[i].n
  BY <1>1, <1>3
<1>5. \A m \in Range(queue) : Head(queue).n <= m.n
  <2> SUFFICES ASSUME NEW m \in Range(queue) PROVE Head(queue).n <= m.n
    OBVIOUS
  <2>1. PICK i \in 1..n : queue[i] = m
    BY <1>2
  <2> QED
    BY <1>1, <1>2, <1>4, <2>1
<1>6. Increasing(rest)
  <2> SUFFICES ASSUME NEW i \in 1..(n - 1), NEW j \in 1..(n - 1), i < j
               PROVE  rest[i].n < rest[j].n
    BY <1>1 DEF Increasing
  <2>1. i + 1 \in 1..n /\ j + 1 \in 1..n /\ i + 1 < j + 1
    BY <1>1
  <2> QED
    BY <1>1, <1>3, <2>1
<1>7. \A m \in Range(rest) : m \in Range(queue) /\ Head(queue).n < m.n
  <2> SUFFICES ASSUME NEW m \in Range(rest) PROVE m \in Range(queue) /\ Head(queue).n < m.n
    OBVIOUS
  <2>1. PICK i \in 1..(n - 1) : rest[i] = m
    BY <1>1 DEF Range
  <2>2. i + 1 \in 2..n /\ i + 1 \in 1..n
    BY <1>1
  <2> QED
    BY <1>1, <1>2, <1>4, <2>1, <2>2
<1>8. \A m \in Range(queue) : m # Head(queue) => m \in Range(rest)
  <2> SUFFICES ASSUME NEW m \in Range(queue), m # Head(queue) PROVE m \in Range(rest)
    OBVIOUS
  <2>1. PICK i \in 1..n : queue[i] = m
    BY <1>2
  <2>2. i - 1 \in 1..(n - 1) /\ i = (i - 1) + 1
    BY <1>1, <2>1
  <2>3. rest[i - 1] = m
    BY <1>1, <2>1, <2>2
  <2> QED
    BY <1>1, <2>2, <2>3 DEF Range
<1>9. Head(queue) \notin Range(rest)
  BY <1>1, <1>2, <1>7
<1>10. Range(rest) = Range(queue) \ {Head(queue)}
  BY <1>7, <1>8, <1>9
<1> QED
  BY <1>1, <1>2, <1>5, <1>6, <1>7, <1>10

(* A function may be defined step by step along a prefix of the numbers.   *)
Stepwise(n, V, base, step, f) ==
    f \in [0..n -> V] /\ f[0] = base /\ \A i \in 1..n : f[i] = step[i][f[i - 1]]

LEMMA StepByStep ==
    ASSUME NEW V, NEW base \in V, NEW n \in Nat, NEW step \in [1..n -> [V -> V]]
    PROVE  \E f : Stepwise(n, V, base, step, f)
<1> DEFINE Ok(k, f) == f[0] = base /\ \A i \in 1..k : f[i] = step[i][f[i - 1]]
           G == {k \in Nat : k <= n => \E f \in [0..k -> V] : Ok(k, f)}
<1>1. 0 \in G
  <2> DEFINE f == [i \in 0..0 |-> base]
  <2>1. f \in [0..0 -> V] /\ f[0] = base
    OBVIOUS
  <2>2. \A i \in 1..0 : f[i] = step[i][f[i - 1]]
    OBVIOUS
  <2> HIDE DEF f
  <2> QED
    BY <2>1, <2>2
<1>2. ASSUME NEW k \in Nat, k \in G PROVE k + 1 \in G
  <2> SUFFICES ASSUME k + 1 <= n PROVE \E f \in [0..(k + 1) -> V] : Ok(k + 1, f)
    OBVIOUS
  <2>1. PICK f \in [0..k -> V] : Ok(k, f)
    BY <1>2
  <2> DEFINE g == [i \in 0..(k + 1) |-> IF i = k + 1 THEN step[k + 1][f[k]] ELSE f[i]]
  <2>2. f[k] \in V /\ step[k + 1][f[k]] \in V
    BY <2>1
  <2>3. g \in [0..(k + 1) -> V]
    BY <2>1, <2>2
  <2>4. g[0] = base /\ g[k + 1] = step[k + 1][f[k]] /\ \A i \in 0..k : g[i] = f[i]
    BY <2>1
  <2> HIDE DEF g
  <2>5. ASSUME NEW i \in 1..(k + 1) PROVE g[i] = step[i][g[i - 1]]
    <3>1. CASE i = k + 1
      BY <2>4, <3>1
    <3>2. CASE i # k + 1
      <4>1. i \in 1..k /\ i \in 0..k /\ i - 1 \in 0..k
        BY <3>2
      <4> QED
        BY <2>1, <2>4, <4>1
    <3> QED
      BY <3>1, <3>2
  <2> QED
    BY <2>3, <2>4, <2>5
<1> HIDE DEF G
<1>3. Nat \subseteq G
  BY <1>1, <1>2, NatSetInduction
<1>4. n \in G
  BY <1>3
<1> QED
  BY <1>4 DEF G, Stepwise

KeptIn(queue, gone, f) ==
    f = [i \in 0..Len(queue) |->
            IF i = 0 THEN <<>>
            ELSE IF queue[i] \in gone THEN f[i - 1] ELSE Append(f[i - 1], queue[i])]

LEMMA WithoutIsKept ==
    ASSUME NEW queue, NEW gone
    PROVE  Without(queue, gone) = (CHOOSE f : KeptIn(queue, gone, f))[Len(queue)]
BY DEF Without, KeptIn

LEMMA KeptExists ==
    ASSUME NEW M, NEW queue \in Seq(M), NEW gone
    PROVE  \E f : KeptIn(queue, gone, f)
<1> DEFINE n == Len(queue)
           step == [i \in 1..n |-> [q \in Seq(M) |->
                      IF queue[i] \in gone THEN q ELSE Append(q, queue[i])]]
<1>1. n \in Nat /\ \A i \in 1..n : queue[i] \in M
  OBVIOUS
<1>2. step \in [1..n -> [Seq(M) -> Seq(M)]]
  BY <1>1
<1>3. /\ <<>> \in Seq(M)
      /\ \A i \in 1..n, v \in Seq(M) :
           step[i][v] = IF queue[i] \in gone THEN v ELSE Append(v, queue[i])
  OBVIOUS
<1> DEFINE V == Seq(M)
           base == <<>>
<1>n. n \in Nat /\ base \in V /\ step \in [1..n -> [V -> V]]
  BY <1>1, <1>2, <1>3
<1> HIDE DEF step, V, n, base
<1>p. \E f : Stepwise(n, V, base, step, f)
  BY <1>n, StepByStep, Zenon
<1> USE DEF V, n, base
<1>4. PICK f \in [0..n -> Seq(M)] : f[0] = <<>> /\ \A i \in 1..n : f[i] = step[i][f[i - 1]]
  BY <1>p DEF Stepwise
<1>5. ASSUME NEW i \in 0..n
      PROVE  f[i] = IF i = 0 THEN <<>>
                    ELSE IF queue[i] \in gone THEN f[i - 1] ELSE Append(f[i - 1], queue[i])
  <2>1. CASE i = 0
    BY <1>4, <2>1
  <2>2. CASE i # 0
    <3>1. i \in 1..n /\ f[i - 1] \in Seq(M)
      BY <1>1, <1>4, <2>2
    <3> QED
      BY <1>3, <1>4, <2>2, <3>1
  <2> QED
    BY <2>1, <2>2
<1>6. KeptIn(queue, gone, f)
  BY <1>4, <1>5 DEF KeptIn
<1> QED
  BY <1>6

(* What is left of a queue keeps its order. *)
LEMMA LeftInQueue ==
    ASSUME NEW M, Numbered(M), NEW queue \in Seq(M), Increasing(queue), NEW gone
    PROVE  /\ Without(queue, gone) \in Seq(M)
           /\ Range(Without(queue, gone)) = Range(queue) \ gone
           /\ Increasing(Without(queue, gone))
<1> DEFINE n == Len(queue)
           Before(i) == {queue[j] : j \in 1..i}
           Good(i, q) == /\ q \in Seq(M)
                         /\ Range(q) = Before(i) \ gone
                         /\ Increasing(q)
<1>1. n \in Nat /\ \A i \in 1..n : queue[i] \in M /\ queue[i].n \in Nat
  BY DEF Numbered
<1>2. \E f : KeptIn(queue, gone, f) /\ Without(queue, gone) = f[n]
  BY KeptExists, WithoutIsKept, Zenon
<1> SUFFICES ASSUME NEW f, KeptIn(queue, gone, f), Without(queue, gone) = f[n]
             PROVE  Good(n, f[n]) /\ Before(n) = Range(queue)
  BY <1>2
<1> DEFINE G == {i \in Nat : i <= n => Good(i, f[i])}
<1>3. /\ f[0] = <<>>
      /\ \A i \in 1..n : f[i] = IF queue[i] \in gone THEN f[i - 1] ELSE Append(f[i - 1], queue[i])
  <2>1. \A i \in 0..Len(queue) :
          f[i] = IF i = 0 THEN <<>>
                 ELSE IF queue[i] \in gone THEN f[i - 1] ELSE Append(f[i - 1], queue[i])
    BY Zenon DEF KeptIn
  <2>2. 0 \in 0..Len(queue) /\ \A i \in 1..n : i \in 0..Len(queue) /\ i # 0
    BY <1>1
  <2> QED
    BY <2>1, <2>2, Zenon
<1>4. 0 \in G
  <2>1. Before(0) = {} /\ <<>> \in Seq(M)
    OBVIOUS
  <2>2. Good(0, <<>>)
    BY <2>1, EmptyQueue
  <2> QED
    BY <1>3, <2>2
<1>5. ASSUME NEW i \in Nat, i \in G PROVE i + 1 \in G
  <2> SUFFICES ASSUME i + 1 <= n PROVE Good(i + 1, f[i + 1])
    OBVIOUS
  <2>1. i + 1 \in 1..n /\ Good(i, f[i])
    BY <1>1, <1>5
  <2>2. f[i + 1] = IF queue[i + 1] \in gone THEN f[i] ELSE Append(f[i], queue[i + 1])
    BY <1>3, <2>1
  <2>3. Before(i + 1) = Before(i) \cup {queue[i + 1]}
    BY <1>5
  <2>4. CASE queue[i + 1] \in gone
    BY <2>1, <2>2, <2>3, <2>4
  <2>5. CASE queue[i + 1] \notin gone
    <3>1. \A other \in Range(f[i]) : other.n < queue[i + 1].n
      <4> SUFFICES ASSUME NEW other \in Range(f[i]) PROVE other.n < queue[i + 1].n
        OBVIOUS
      <4>1. PICK j \in 1..i : other = queue[j]
        BY <2>1
      <4>2. j \in DOMAIN queue /\ i + 1 \in DOMAIN queue /\ j < i + 1
        BY <1>1, <1>5, <2>1
      <4> QED
        BY <4>1, <4>2 DEF Increasing
    <3>2. queue[i + 1] \in M
      BY <1>1, <2>1
    <3>3. /\ Append(f[i], queue[i + 1]) \in Seq(M)
          /\ Range(Append(f[i], queue[i + 1])) = Range(f[i]) \cup {queue[i + 1]}
          /\ Increasing(Append(f[i], queue[i + 1]))
      BY <2>1, <3>1, <3>2, AppendedQueue
    <3> QED
      BY <2>1, <2>2, <2>3, <2>5, <3>3
  <2> QED
    BY <2>4, <2>5
<1>6. n \in G
  <2> HIDE DEF G
  <2>1. Nat \subseteq G
    BY <1>4, <1>5, NatSetInduction
  <2> QED
    BY <1>1, <2>1
<1>7. Good(n, f[n])
  BY <1>1, <1>6
<1>8. Before(n) = Range(queue)
  BY RangeIn DEF Range
<1> QED
  BY <1>7, <1>8

-----------------------------------------------------------------------------
(* Where messages go.                                                      *)

Reaches(s, o, peer) ==
    /\ peer # 0 /\ conn[s].id # 0
    /\ IF "Client" \in FrozenRoles(o) /\ peer = host THEN Mode = "Client" \/ IsLocal(s)
       ELSE "Host" \in FrozenRoles(o) /\ conn[s].id = peer

RoutesReach == \A o, peer : \A s \in Slots : s \in Route(o, peer) <=> Reaches(s, o, peer)

LEMMA RouteIs == Endpoints => RoutesReach
<1> SUFFICES ASSUME Endpoints, NEW o, NEW peer, NEW s \in Slots
             PROVE  s \in Route(o, peer) <=> Reaches(s, o, peer)
  BY DEF RoutesReach
<1> DEFINE toHost == "Client" \in FrozenRoles(o) /\ peer = host
           own == {t \in Live : conn[t].id = local}
<1>1. s \in Live <=> conn[s].id # 0
  BY DEF Live
<1>2. s \in Live => (conn[s].id = host <=> Mode = "Client")
  BY DEF Endpoints
<1>3. CASE peer = 0
  BY <1>3 DEF Route, Reaches
<1>4. CASE peer # 0 /\ toHost /\ Mode = "Client"
  BY <1>1, <1>2, <1>4, Zenon DEF Route, Reaches
<1>5. CASE peer # 0 /\ toHost /\ Mode # "Client"
  <2>1. s \in own <=> s \in Live /\ IsLocal(s)
    BY <1>5 DEF Endpoints
  <2>2. CASE own # {}
    <3>1. Route(o, peer) = own
      BY <1>5, <2>2, Zenon DEF Route
    <3> QED
      BY <1>1, <1>5, <2>1, <3>1, Zenon DEF Reaches
  <2>3. CASE own = {}
    <3>1. s \in Route(o, peer) => s \in Live /\ conn[s].id = peer
      BY <1>5, <2>3, Zenon DEF Route
    <3>2. s \notin Route(o, peer)
      BY <1>2, <1>5, <3>1
    <3> QED
      BY <1>1, <1>5, <2>1, <2>3, <3>2, Zenon DEF Reaches
  <2> QED
    BY <2>2, <2>3
<1>6. CASE peer # 0 /\ ~toHost
  BY <1>1, <1>6, Zenon DEF Route, Reaches
<1> QED
  BY <1>3, <1>4, <1>5, <1>6

LEMMA OneRoute ==
    Endpoints =>
      \A o \in Objects : \A peer : \A s, t \in Slots :
         s \in Route(o, peer) /\ t \in Route(o, peer) => s = t
<1> SUFFICES ASSUME Endpoints, NEW o \in Objects, NEW peer, NEW s \in Slots, NEW t \in Slots,
                    s \in Route(o, peer), t \in Route(o, peer)
             PROVE  s = t
  OBVIOUS
<1>1. Reaches(s, o, peer) /\ Reaches(t, o, peer)
  BY RouteIs DEF RoutesReach
<1>2. s \in Live /\ t \in Live
  BY <1>1 DEF Reaches, Live
<1>3. conn[s].id = conn[t].id => s = t
  BY <1>2 DEF Endpoints
<1>4. CASE "Client" \in FrozenRoles(o) /\ peer = host
  <2>1. CASE Mode = "Client"
    BY <1>2, <1>3, <2>1 DEF Endpoints
  <2>2. CASE Mode # "Client"
    BY <1>1, <1>4, <2>2 DEF Reaches, IsLocal
  <2> QED
    BY <2>1, <2>2
<1>5. CASE ~("Client" \in FrozenRoles(o) /\ peer = host)
  BY <1>1, <1>3, <1>5 DEF Reaches
<1> QED
  BY <1>4, <1>5

LEMMA AgreementIs ==
    Endpoints =>
      \A o \in Objects : \A peer : \A s \in Slots :
         s \in Route(o, peer) => Agreement(o, peer) = AgreementAt(s, o, peer)
<1> SUFFICES ASSUME Endpoints, NEW o \in Objects, NEW peer, NEW s \in Slots, s \in Route(o, peer)
             PROVE  Agreement(o, peer) = AgreementAt(s, o, peer)
  OBVIOUS
<1> DEFINE t == CHOOSE t \in Route(o, peer) : TRUE
<1>1. t \in Route(o, peer)
  OBVIOUS
<1>2. Route(o, peer) \subseteq Slots
  BY DEF Route, Live
<1>3. t = s
  BY <1>1, <1>2, OneRoute
<1> QED
  BY <1>3 DEF Agreement

(* The connection that serves a message agrees to it once it is            *)
(* established, unless the feature failed on it.                           *)
LEMMA ServedAgrees ==
    Shapes /\ Endpoints =>
      \A o \in Objects : \A peer : \A s \in Slots :
         Serves(s, o, peer) =>
           /\ conn[s].phase \in {"Pending", "Ready"} /\ o.id \notin conn[s].failed
                => Agreement(o, peer) = "Pending"
           /\ conn[s].phase = "Established" /\ o.id \notin conn[s].failed
                => Agreement(o, peer) = "Compatible"
           /\ Agreement(o, peer) = "Compatible"
                => conn[s].phase = "Established" /\ o.id \notin conn[s].failed
<1> SUFFICES ASSUME Shapes, Endpoints, NEW o \in Objects, NEW peer, NEW s \in Slots, Serves(s, o, peer)
             PROVE  /\ conn[s].phase \in {"Pending", "Ready"} /\ o.id \notin conn[s].failed
                         => Agreement(o, peer) = "Pending"
                    /\ conn[s].phase = "Established" /\ o.id \notin conn[s].failed
                         => Agreement(o, peer) = "Compatible"
                    /\ Agreement(o, peer) = "Compatible"
                         => conn[s].phase = "Established" /\ o.id \notin conn[s].failed
  OBVIOUS
<1>1. s \in Route(o, peer) /\ Supports(s, o, peer) /\ (IsLocal(s) \/ ManifestFits)
  BY DEF Serves
<1>2. Agreement(o, peer) = AgreementAt(s, o, peer)
  BY <1>1, AgreementIs
<1>3. conn[s].phase \in Phases
  BY DEF Shapes, Connections
<1> QED
  BY <1>1, <1>2, <1>3, SMT DEF AgreementAt, Phases

LEMMA CompatibleServes ==
    Shapes /\ Endpoints =>
      \A o \in Objects : \A peer : \A s \in Slots :
         s \in Route(o, peer) /\ Agreement(o, peer) = "Compatible" =>
           /\ Serves(s, o, peer)
           /\ conn[s].phase = "Established" /\ o.id \notin conn[s].failed
<1> SUFFICES ASSUME Shapes, Endpoints, NEW o \in Objects, NEW peer, NEW s \in Slots,
                    s \in Route(o, peer), Agreement(o, peer) = "Compatible"
             PROVE  Serves(s, o, peer)
  BY ServedAgrees
<1>1. AgreementAt(s, o, peer) = "Compatible"
  BY AgreementIs
<1>2. Supports(s, o, peer) /\ (IsLocal(s) \/ ManifestFits)
  BY <1>1, SMT DEF AgreementAt
<1>3. conn[s].id # 0
  BY DEF Route, Live
<1> QED
  BY <1>2, <1>3 DEF Serves

-----------------------------------------------------------------------------
(* What a step does to the connection at a slot: the connection goes on,   *)
(* it loses messages at most, or there is none or a new one.               *)

Lasts(s) ==
    /\ host' = host /\ frozen' = frozen
    /\ conn[s].id # 0 /\ conn'[s].id = conn[s].id
    /\ conn[s].failed \subseteq conn'[s].failed
    /\ conn[s].phase # "Pending" => conn'[s].supported = conn[s].supported
    /\ \/ conn'[s].phase = conn[s].phase
       \/ conn[s].phase \in {"Pending", "Ready"} /\ conn'[s].phase # "Pending"
       \/ conn'[s].phase = "Failed" /\ conn'[s].outgoing = <<>>

Shrinks(s) ==
    /\ Range(conn'[s].outgoing) \subseteq Range(conn[s].outgoing)
    /\ Increasing(conn'[s].outgoing)

Fresh(s) ==
    /\ conn'[s].outgoing = <<>>
    /\ conn'[s].id = 0 \/ conn'[s].id > count.peers

Tidy == \A s \in Slots : (Lasts(s) /\ Shrinks(s)) \/ Fresh(s)

LEMMA PeersKnown ==
    Shapes => /\ count.peers \in Nat /\ count.sends \in Nat /\ count.arrivals \in Nat
              /\ \A s \in Slots : /\ conn[s] \in Connections
                                  /\ conn[s].id \in Nat /\ conn[s].phase \in Phases
                                  /\ conn[s].outgoing \in Seq(Outgoing)
                                  /\ conn[s].failed \in SUBSET Ids
                                  /\ \A m \in Range(conn[s].outgoing) : m \in Outgoing
              /\ \A m \in Range(incoming) : m \in Incoming
<1> SUFFICES ASSUME Shapes PROVE
              /\ count.peers \in Nat /\ count.sends \in Nat /\ count.arrivals \in Nat
              /\ \A s \in Slots : /\ conn[s] \in Connections
                                  /\ conn[s].id \in Nat /\ conn[s].phase \in Phases
                                  /\ conn[s].outgoing \in Seq(Outgoing)
                                  /\ conn[s].failed \in SUBSET Ids
                                  /\ \A m \in Range(conn[s].outgoing) : m \in Outgoing
              /\ \A m \in Range(incoming) : m \in Incoming
  OBVIOUS
<1>1. count.peers \in Nat /\ count.sends \in Nat /\ count.arrivals \in Nat
  BY DEF Shapes, Counts
<1>2. ASSUME NEW s \in Slots
      PROVE  /\ conn[s] \in Connections
             /\ conn[s].id \in Nat /\ conn[s].phase \in Phases
             /\ conn[s].outgoing \in Seq(Outgoing)
             /\ conn[s].failed \in SUBSET Ids
  BY DEF Shapes, Connections
<1>3. \A s \in Slots : \A m \in Range(conn[s].outgoing) : m \in Outgoing
  BY <1>2, RangeIn, Zenon
<1>4. \A m \in Range(incoming) : m \in Incoming
  BY RangeIn DEF Shapes
<1> QED
  BY <1>1, <1>2, <1>3, <1>4

LEMMA ServesLasts ==
    ASSUME Shapes, Endpoints, Endpoints', NEW s \in Slots, Lasts(s),
           conn[s].phase # "Pending", NEW o \in Objects, NEW peer, Serves(s, o, peer)
    PROVE  Serves(s, o, peer)'
<1>1. Reaches(s, o, peer) /\ Supports(s, o, peer) /\ (IsLocal(s) \/ ManifestFits)
  BY RouteIs DEF RoutesReach, Serves
<1>2. \A role : FrozenRoles(o)' = FrozenRoles(o) /\ Implementation(o.id, role)' = Implementation(o.id, role)
  BY DEF Lasts, FrozenRoles, Implementation
<1>3. Reaches(s, o, peer)'
  BY <1>1, <1>2 DEF Lasts, Reaches, IsLocal
<1>4. (s \in Route(o, peer))'
  <2>1. (Endpoints => RoutesReach)'
    BY RouteIs, PTL
  <2> QED
    BY <1>3, <2>1, Zenon DEF RoutesReach
<1>5. Supports(s, o, peer)'
  BY <1>1, <1>2 DEF Lasts, Supports, IsLocal
<1>6. (conn[s].id # 0)' /\ (IsLocal(s) \/ ManifestFits)'
  BY <1>1 DEF Lasts, IsLocal
<1> QED
  BY <1>4, <1>5, <1>6, Zenon DEF Serves

(* Nothing but connections that end or go on: the endpoints stay as they   *)
(* are.                                                                    *)
LEMMA EndpointsLast ==
    ASSUME Shapes, Endpoints, host' = host, local' = local, count'.peers = count.peers,
           \A s \in Slots : Lasts(s) \/ conn'[s].id = 0
    PROVE  Endpoints'
<1>1. \A s \in Live' : s \in Live /\ conn'[s].id = conn[s].id /\ Lasts(s)
  BY DEF Live, Lasts
<1>2. \A s \in Live' : IsLocal(s) => conn'[s].phase \in {"Established", "Failed"}
  BY <1>1 DEF Endpoints, Lasts
<1>3. /\ \A s \in Live' : conn'[s].id <= count'.peers
      /\ \A s, t \in Live' : conn'[s].id = conn'[t].id => s = t
      /\ Live' # {} => host' # 0
      /\ \A s \in Live' : conn'[s].id = host' <=> Mode = "Client"
      /\ Mode # "Client" => \A s \in Live' : conn'[s].id = local' <=> IsLocal(s)
  BY <1>1 DEF Endpoints
<1>4. count'.peers <= MaxPeers /\ host' <= count'.peers /\ local' <= count'.peers
  BY DEF Endpoints
<1> QED
  BY <1>2, <1>3, <1>4 DEF Endpoints, IsLocal

LEMMA OutboundKept ==
    ASSUME Shapes, Shapes', Endpoints, Endpoints', Outbound, Tidy, count'.sends >= count.sends
    PROVE  Outbound'
<1>1. ASSUME NEW s \in Slots, NEW m \in Range(conn'[s].outgoing)
      PROVE  m \in Range(conn[s].outgoing) /\ Lasts(s) /\ m \in Outgoing
  <2>1. conn'[s].outgoing # <<>>
    BY EmptyQueue
  <2>2. Lasts(s) /\ m \in Range(conn[s].outgoing)
    BY <2>1 DEF Tidy, Fresh, Shrinks
  <2> QED
    BY <2>2, PeersKnown
<1>2. ASSUME NEW s \in Slots PROVE Increasing(conn'[s].outgoing)
  BY EmptyQueue DEF Tidy, Fresh, Shrinks
<1>3. ASSUME NEW s \in Slots, NEW m \in Range(conn'[s].outgoing)
      PROVE  /\ 0 < m.n /\ m.n <= count'.sends
             /\ conn'[s].phase = "Established"
             /\ Serves(s, m.feature, m.peer)'
  <2>1. /\ m \in Range(conn[s].outgoing) /\ Lasts(s)
        /\ m.n \in Nat /\ m.feature \in Objects /\ m.peer \in Nat
    BY <1>1 DEF Outgoing
  <2>2. /\ 0 < m.n /\ m.n <= count.sends
        /\ conn[s].phase = "Established" /\ Serves(s, m.feature, m.peer)
    BY <2>1 DEF Outbound
  <2>3. m.n <= count'.sends
    BY SMTT(60), <2>1, <2>2, PeersKnown DEF Shapes, Counts
  <2>4. conn'[s].phase = "Established"
    BY <2>1, <2>2, EmptyQueue DEF Lasts
  <2> QED
    BY <2>1, <2>2, <2>3, <2>4, ServesLasts
<1>4. \A s, t \in Slots : \A m \in Range(conn'[s].outgoing), other \in Range(conn'[t].outgoing) :
          m.n = other.n => s = t
  BY <1>1 DEF Outbound
<1> QED
  BY <1>2, <1>3, <1>4 DEF Outbound

(* A message only goes with all of its feature, which is not coming back.  *)
Whole ==
    \A s \in Slots :
       \/ Fresh(s)
       \/ \A m \in Range(conn[s].outgoing) \ Range(conn'[s].outgoing) :
             /\ conn'[s].phase = "Failed" \/ m.feature.id \in conn'[s].failed
             /\ \A other \in Range(conn'[s].outgoing) : other.feature.id # m.feature.id

LEMMA SubmittedKept ==
    ASSUME Shapes, Shapes', Outbound, Submitted, Tidy, Whole, pump' = pump,
           count'.sends >= count.sends, count'.peers >= count.peers
    PROVE  Submitted'
<1> SUFFICES ASSUME pump.at = "Submitting", pump.sub.result = "Accepted",
                    NEW frame, frame = pump.sub.frame, NEW peer, peer = pump.peer
             PROVE  Held(frame, peer)'
  BY DEF Submitted
<1>1. Held(frame, peer)
  BY DEF Submitted
<1>2. frame.n \in Nat /\ peer \in Nat
  BY DEF Shapes, Pumps, PumpIdle, Submissions, Frames
<1>3. /\ count.peers \in Nat /\ count.sends \in Nat
      /\ count'.peers \in Nat /\ count'.sends \in Nat
  BY DEF Shapes, Counts
<1>4. CASE frame.kind = "Notice"
  BY <1>1, <1>4 DEF Held
<1>5. CASE frame.kind # "Notice"
  <2>1. /\ 0 < frame.n /\ frame.n <= count'.sends
        /\ 0 < peer /\ peer <= count'.peers /\ peer <= count.peers
    BY <1>1, <1>2, <1>3, <1>5 DEF Held
  <2>2. ASSUME NEW s \in Slots
        PROVE  IF conn'[s].id = peer THEN Front(conn'[s], frame) \/ Gone(conn'[s], frame)
               ELSE \A m \in Range(conn'[s].outgoing) : m.n # frame.n
    <3>1. CASE Fresh(s)
      <4>1. conn'[s].id # peer
        BY <1>2, <1>3, <2>1, <3>1 DEF Fresh
      <4> QED
        BY <3>1, <4>1, EmptyQueue DEF Fresh
    <3>2. CASE ~Fresh(s)
      <4>1. /\ Lasts(s) /\ Range(conn'[s].outgoing) \subseteq Range(conn[s].outgoing)
            /\ conn'[s].id = conn[s].id
        BY <3>2 DEF Tidy, Shrinks, Lasts
      <4>2. CASE conn[s].id # peer
        BY <1>1, <1>5, <4>1, <4>2 DEF Held
      <4>3. CASE conn[s].id = peer /\ Gone(conn[s], frame)
        <5>1. Gone(conn'[s], frame)
          BY <4>1, <4>3 DEF Gone, Lasts
        <5> QED
          BY <4>1, <4>3, <5>1
      <4>4. CASE conn[s].id = peer /\ Front(conn[s], frame)
        <5>1. PICK m \in Range(conn[s].outgoing) :
                /\ m.n = frame.n /\ m.feature.id = frame.feature
                /\ \A other \in Range(conn[s].outgoing) : m.n <= other.n
          BY <4>4 DEF Front
        <5>2. CASE m \in Range(conn'[s].outgoing)
          BY <4>1, <4>4, <5>1, <5>2, Zenon DEF Front
        <5>3. CASE m \notin Range(conn'[s].outgoing)
          <6>1. /\ conn'[s].phase = "Failed" \/ m.feature.id \in conn'[s].failed
                /\ \A other \in Range(conn'[s].outgoing) : other.feature.id # m.feature.id
            BY <3>2, <5>3 DEF Whole
          <6>2. conn[s].outgoing \in Seq(Outgoing) /\ Increasing(conn[s].outgoing) /\ Numbered(Outgoing)
            BY PeersKnown DEF Outbound, Numbered, Outgoing
          <6>3. \A other \in Range(conn'[s].outgoing) : other.n # frame.n
            BY <4>1, <5>1, <5>3, <6>2, OneMessage
          <6>4. Gone(conn'[s], frame)
            BY <5>1, <6>1, <6>3 DEF Gone
          <6> QED
            BY <4>1, <4>4, <6>4
        <5> QED
          BY <5>2, <5>3
      <4>5. conn[s].id = peer => Front(conn[s], frame) \/ Gone(conn[s], frame)
        BY <1>1, <1>5 DEF Held
      <4> QED
        BY <4>2, <4>3, <4>4, <4>5
    <3> QED
      BY <3>1, <3>2
  <2> QED
    BY <1>5, <2>1, <2>2 DEF Held
<1> QED
  BY <1>4, <1>5

(* What has arrived is still served, or its connection is gone.            *)
LEMMA ArrivedKept ==
    ASSUME Shapes, Shapes', Endpoints, Endpoints', Inbound,
           \A s \in Slots : Lasts(s) \/ Fresh(s),
           count'.arrivals >= count.arrivals, count'.peers >= count.peers,
           NEW m \in Range(incoming) \cup Hand
    PROVE  /\ m \in Incoming /\ m.n \in Nat
           /\ 0 < m.n /\ m.n <= count'.arrivals
           /\ 0 < m.connection /\ m.connection <= count'.peers
           /\ \A s \in Slots : conn'[s].id = m.connection =>
                 /\ Lasts(s) /\ conn[s].id = m.connection
                 /\ conn'[s].phase # "Pending" /\ Serves(s, m.feature, m.peer)'
<1>1. /\ count.peers \in Nat /\ count.arrivals \in Nat
      /\ count'.peers \in Nat /\ count'.arrivals \in Nat
  BY DEF Shapes, Counts
<1>2. m \in Incoming
  BY PeersKnown DEF Hand, Shapes, Controls, ControlIdle
<1>3. /\ m.n \in Nat /\ m.connection \in Nat /\ m.feature \in Objects
      /\ 0 < m.n /\ m.n <= count.arrivals
      /\ 0 < m.connection /\ m.connection <= count.peers
  BY <1>2 DEF Inbound, Incoming
<1>4. ASSUME NEW s \in Slots, conn'[s].id = m.connection
      PROVE  /\ Lasts(s) /\ conn[s].id = m.connection
             /\ conn'[s].phase # "Pending" /\ Serves(s, m.feature, m.peer)'
  <2>1. conn'[s].id \in Nat
    BY DEF Shapes, Connections
  <2>2. ~Fresh(s)
    BY <1>1, <1>3, <1>4, <2>1 DEF Fresh
  <2>3. Lasts(s) /\ conn[s].id = m.connection
    BY <1>4, <2>2 DEF Lasts
  <2>4. conn[s].phase # "Pending" /\ Serves(s, m.feature, m.peer)
    BY <2>3 DEF Inbound
  <2>5. conn'[s].phase # "Pending"
    BY <2>3, <2>4 DEF Lasts
  <2> QED
    BY <1>3, <2>3, <2>4, <2>5, ServesLasts
<1>5. m.n <= count'.arrivals /\ m.connection <= count'.peers
  BY <1>1, <1>3
<1> QED
  BY <1>2, <1>3, <1>4, <1>5

LEMMA InboundKept ==
    ASSUME Shapes, Shapes', Endpoints, Endpoints', Inbound,
           \A s \in Slots : Lasts(s) \/ Fresh(s), control' = control,
           Increasing(incoming'), Range(incoming') \subseteq Range(incoming),
           count'.arrivals >= count.arrivals, count'.peers >= count.peers
    PROVE  Inbound'
<1>1. Hand' = Hand
  BY DEF Hand
<1>2. \A m \in Range(incoming') \cup Hand' :
        /\ 0 < m.n /\ m.n <= count'.arrivals
        /\ 0 < m.connection /\ m.connection <= count'.peers
        /\ \A s \in Slots : conn'[s].id = m.connection =>
              /\ Lasts(s) /\ conn[s].id = m.connection
              /\ conn'[s].phase # "Pending" /\ Serves(s, m.feature, m.peer)'
  BY <1>1, ArrivedKept
<1>3. ASSUME NEW h \in Hand, NEW s \in Slots, conn'[s].id = h.connection
      PROVE  conn'[s].phase # "Ready" \/ h.feature.id \in conn'[s].failed
  <2>1. Lasts(s) /\ conn[s].id = h.connection
    BY <1>1, <1>2, <1>3
  <2>2. conn[s].phase # "Pending" /\ (conn[s].phase # "Ready" \/ h.feature.id \in conn[s].failed)
    BY <2>1 DEF Inbound
  <2> QED
    BY <2>1, <2>2 DEF Lasts
<1>4. \A m \in Range(incoming'), h \in Hand' : h.n < m.n
  BY <1>1 DEF Inbound
<1>5. control'.at = "Calling" => control'.callback # 0
  BY DEF Inbound
<1> QED
  BY <1>1, <1>2, <1>3, <1>4, <1>5 DEF Inbound

-----------------------------------------------------------------------------
(* What the steps are for Delivery.                                        *)

Continues == \A s \in Slots : Lasts(s) \/ Fresh(s)

LEMMA EndedIsClosed ==
    ASSUME Shapes, Shapes', Endpoints, Continues, count'.peers >= count.peers,
           NEW s \in Slots, conn[s].id # 0, NEW f \in Ids,
           Fresh(s) \/ conn'[s].phase = "Failed" \/ f \in conn'[s].failed
    PROVE  <<conn[s].id, f>> \in Closed'
<1>1. /\ conn[s].id \in Nat /\ count.peers \in Nat /\ count'.peers \in Nat
      /\ conn[s].id <= count.peers
  BY PeersKnown DEF Endpoints, Live, Shapes, Counts
<1>2. ASSUME NEW t \in Slots, conn'[t].id = conn[s].id
      PROVE  conn'[t].phase = "Failed" \/ f \in conn'[t].failed
  <2>1. ~Fresh(t)
    BY <1>1, <1>2 DEF Fresh
  <2>2. conn[t].id = conn[s].id
    BY <1>2, <2>1 DEF Continues, Lasts
  <2>3. t = s
    BY <2>2 DEF Endpoints, Live
  <2> QED
    BY <2>1, <2>3
<1> SUFFICES ASSUME NEW id, id = conn[s].id PROVE <<id, f>> \in Closed'
  OBVIOUS
<1>3. ~Open(id, f)'
  BY <1>2 DEF Open, At, Live
<1>4. id \in 1..count'.peers
  BY <1>1
<1> QED
  BY <1>3, <1>4 DEF Closed

LEMMA ClosedGrows ==
    ASSUME Shapes, Shapes', Endpoints, Endpoints', Continues, count'.peers >= count.peers
    PROVE  /\ Closed \subseteq Closed'
           /\ Closed' \in SUBSET ((1..MaxPeers) \X Ids)
<1>1. count.peers \in Nat /\ count'.peers \in Nat /\ count'.peers <= MaxPeers /\ MaxPeers \in Nat
  BY MessageQueuesAssumption DEF Shapes, Counts, Endpoints
<1>2. ASSUME NEW id \in 1..count.peers, NEW f \in Ids, ~Open(id, f)
      PROVE  ~Open(id, f)'
  <2> SUFFICES ASSUME NEW s \in Slots, conn'[s].id = id,
                      conn'[s].phase \notin {"Failed", "Expired"}, f \notin conn'[s].failed
               PROVE  FALSE
    BY DEF Open, At, Live
  <2>1. ~Fresh(s)
    BY <1>1 DEF Fresh
  <2>2. Lasts(s) /\ conn[s].id = id /\ id # 0
    BY <2>1 DEF Continues, Lasts
  <2>3. conn[s].phase \notin {"Failed", "Expired"} /\ f \notin conn[s].failed
    BY <2>2 DEF Lasts
  <2> QED
    BY <1>2, <2>2, <2>3 DEF Open, At, Live
<1>3. 1..count.peers \subseteq 1..count'.peers /\ 1..count'.peers \subseteq 1..MaxPeers
  BY <1>1
<1>4. ASSUME NEW t \in Closed PROVE t \in Closed'
  <2>1. PICK id \in 1..count.peers, f \in Ids : t = <<id, f>> /\ ~Open(id, f)
    BY DEF Closed
  <2>2. ~Open(id, f)' /\ id \in 1..count'.peers
    BY <1>2, <1>3, <2>1
  <2> QED
    BY <2>1, <2>2 DEF Closed
<1>5. Closed' \subseteq (1..count'.peers) \X Ids
  BY DEF Closed
<1> QED
  BY <1>3, <1>4, <1>5

Item(id, m) == [n |-> m.n, topic |-> <<id, m.feature.id>>]

OutWaits ==
    /\ OutWaiting \in [1..MaxPeers -> SUBSET Outbox!Messages]
    /\ \A id \in 1..MaxPeers : \A x : x \in OutWaiting[id] <=>
          \E s \in Slots : \E m \in Range(conn[s].outgoing) :
             conn[s].id = id /\ m.n \notin InTransport /\ x = Item(id, m)

LEMMA OutWaitsIs == Shapes => OutWaits
<1> SUFFICES ASSUME Shapes PROVE OutWaits
  OBVIOUS
<1>1. ASSUME NEW id \in 1..MaxPeers, NEW x
      PROVE  x \in OutWaiting[id] <=>
               \E s \in Slots : \E m \in Range(conn[s].outgoing) :
                  conn[s].id = id /\ m.n \notin InTransport /\ x = Item(id, m)
  <2>1. OutWaiting[id] = {m \in UNION {OnLine(s) : s \in At(id)} : m.n \notin InTransport}
    BY DEF OutWaiting
  <2>2. \A s \in Slots : s \in At(id) <=> conn[s].id = id
    BY DEF At, Live
  <2>3. \A s : s \in At(id) => s \in Slots
    BY DEF At, Live
  <2>4. x \in UNION {OnLine(s) : s \in At(id)} <=>
          \E s \in At(id) : \E m \in Range(conn[s].outgoing) : x = Item(conn[s].id, m)
    BY DEF OnLine, Item
  <2>5. \A m : Item(id, m).n = m.n
    BY DEF Item
  <2> QED
    BY <2>1, <2>2, <2>3, <2>4, <2>5, Zenon
<1>2. ASSUME NEW id \in 1..MaxPeers, NEW x \in OutWaiting[id] PROVE x \in Outbox!Messages
  <2>1. PICK s \in Slots : \E m \in Range(conn[s].outgoing) : x = Item(id, m)
    BY <1>1
  <2>2. PICK m \in Range(conn[s].outgoing) : x = Item(id, m)
    BY <2>1
  <2>3. m.n \in Nat /\ m.feature.id \in Ids
    BY PeersKnown DEF Outgoing, Ids
  <2> QED
    BY <2>2, <2>3 DEF Item, Outbox!Messages
<1>3. OutWaiting \in [1..MaxPeers -> SUBSET Outbox!Messages]
  <2>1. OutWaiting = [id \in 1..MaxPeers |-> OutWaiting[id]]
    BY DEF OutWaiting
  <2>2. \A id \in 1..MaxPeers : OutWaiting[id] \in SUBSET Outbox!Messages
    BY <1>2
  <2> QED
    BY <2>1, <2>2
<1> QED
  BY <1>1, <1>3 DEF OutWaits

(* A step that takes no message for the transport, and removes only what   *)
(* the transport has or what is closed.                                    *)
OutLoses ==
    /\ Tidy
    /\ count'.peers >= count.peers /\ count'.sends = count.sends /\ sent' = sent
    /\ \A s \in Slots :
          \/ Fresh(s)
          \/ \A m \in Range(conn[s].outgoing) \ Range(conn'[s].outgoing) :
                \/ conn'[s].phase = "Failed" \/ m.feature.id \in conn'[s].failed
                \/ m.n \in InTransport
    /\ \A s \in Slots : \A m \in Range(conn'[s].outgoing) :
          m.n \in InTransport' <=> m.n \in InTransport

LEMMA OutLosesDrops ==
    ASSUME Shapes, Shapes', Endpoints, Endpoints', OutLoses
    PROVE  Outbox!Drop
<1>1. OutWaits /\ OutWaits'
  <2>1. Shapes' => OutWaits'
    BY OutWaitsIs, PTL
  <2> QED
    BY <2>1, OutWaitsIs
<1>2. Continues /\ count'.peers >= count.peers
  BY DEF OutLoses, Tidy, Continues
<1>3. Closed \subseteq Closed' /\ Closed' \in SUBSET ((1..MaxPeers) \X Ids)
  BY <1>2, ClosedGrows
<1>4. ASSUME NEW id \in 1..MaxPeers, NEW x \in OutWaiting'[id]
      PROVE  x \in OutWaiting[id]
  <2>0. PICK s \in Slots : \E m \in Range(conn'[s].outgoing) :
          conn'[s].id = id /\ m.n \notin InTransport' /\ x = Item(id, m)
    BY <1>1 DEF OutWaits
  <2>1. PICK m \in Range(conn'[s].outgoing) :
          conn'[s].id = id /\ m.n \notin InTransport' /\ x = Item(id, m)
    BY <2>0
  <2>2. conn'[s].outgoing # <<>>
    BY <2>1, EmptyQueue
  <2>3. conn[s].id = id /\ m \in Range(conn[s].outgoing)
    BY <2>1, <2>2 DEF OutLoses, Tidy, Fresh, Lasts, Shrinks
  <2>4. m.n \notin InTransport
    BY <2>1 DEF OutLoses
  <2> QED
    BY <1>1, <2>1, <2>3, <2>4 DEF OutWaits
<1>5. ASSUME NEW id \in 1..MaxPeers, NEW x \in OutWaiting[id] \ OutWaiting'[id]
      PROVE  x.topic \in Closed'
  <2>0. PICK s \in Slots : \E m \in Range(conn[s].outgoing) :
          conn[s].id = id /\ m.n \notin InTransport /\ x = Item(id, m)
    BY <1>1 DEF OutWaits
  <2>1. PICK m \in Range(conn[s].outgoing) :
          conn[s].id = id /\ m.n \notin InTransport /\ x = Item(id, m)
    BY <2>0
  <2>2. x.topic = <<conn[s].id, m.feature.id>> /\ conn[s].id # 0 /\ m.feature.id \in Ids
    BY <2>1, PeersKnown DEF Item, Outgoing, Ids
  <2>3. CASE Fresh(s)
    BY <1>2, <2>2, <2>3, EndedIsClosed
  <2>4. CASE ~Fresh(s)
    <3>1. conn'[s].id = id
      BY <2>1, <2>4 DEF OutLoses, Tidy, Lasts
    <3>2. m \notin Range(conn'[s].outgoing)
      BY <1>1, <2>1, <3>1 DEF OutWaits, OutLoses
    <3>3. conn'[s].phase = "Failed" \/ m.feature.id \in conn'[s].failed
      BY <2>1, <2>4, <3>2 DEF OutLoses
    <3> QED
      BY <1>2, <2>2, <3>3, EndedIsClosed
  <2> QED
    BY <2>3, <2>4
<1>6. OutWaiting' \in [1..MaxPeers -> SUBSET Outbox!Messages]
  BY <1>1 DEF OutWaits
<1>7. count'.sends = count.sends /\ sent' = sent
  BY DEF OutLoses
<1> QED
  BY <1>3, <1>4, <1>5, <1>6, <1>7 DEF Outbox!Drop, Outbox!Messages

(* A step that takes the front message of the connection at s for the      *)
(* transport, or for the local queue.                                      *)
OutTakes(s, m) ==
    /\ conn[s].id # 0 /\ conn'[s].id = conn[s].id
    /\ m \in Range(conn[s].outgoing) /\ \A other \in Range(conn[s].outgoing) : m.n <= other.n
    /\ conn[s].phase = "Established" /\ m.feature.id \notin conn[s].failed
    /\ InTransport = {}
    /\ \/ InTransport' = {m.n} /\ conn' = conn
       \/ /\ InTransport' = {}
          /\ Range(conn'[s].outgoing) = Range(conn[s].outgoing) \ {m}
          /\ conn'[s].phase = conn[s].phase /\ conn'[s].failed = conn[s].failed
          /\ \A t \in Slots \ {s} : conn'[t] = conn[t]
    /\ count'.peers = count.peers /\ count'.sends = count.sends
    /\ sent' = [sent EXCEPT ![conn[s].id] = Append(@, m.n)]

LEMMA OutTakesTakes ==
    ASSUME Shapes, Shapes', Endpoints, Endpoints', Outbound, NEW s \in Slots, NEW m, OutTakes(s, m)
    PROVE  \E l \in 1..MaxPeers : Outbox!Take(l)
<1>1. OutWaits /\ OutWaits'
  <2>1. Shapes' => OutWaits'
    BY OutWaitsIs, PTL
  <2> QED
    BY <2>1, OutWaitsIs
<1> DEFINE l == conn[s].id
           x == Item(l, m)
<1>2. l \in 1..MaxPeers /\ m \in Outgoing
  BY SMTT(60), PeersKnown, MessageQueuesAssumption DEF Endpoints, Live, OutTakes
<1>3. x \in OutWaiting[l] /\ x.n = m.n /\ x.topic = <<l, m.feature.id>>
  BY <1>1, <1>2 DEF OutWaits, OutTakes, Item
<1>4. x.topic \notin Closed
  BY <1>3 DEF Closed, Open, At, Live, OutTakes
<1>5. \A other \in OutWaiting[l] : x.n <= other.n
  <2> SUFFICES ASSUME NEW other \in OutWaiting[l] PROVE x.n <= other.n
    OBVIOUS
  <2>0. PICK t \in Slots : \E k \in Range(conn[t].outgoing) :
          conn[t].id = l /\ other = Item(l, k)
    BY <1>1, <1>2 DEF OutWaits
  <2>1. PICK k \in Range(conn[t].outgoing) :
          conn[t].id = l /\ other = Item(l, k)
    BY <2>0
  <2>2. t = s
    BY <2>1 DEF OutTakes, Endpoints, Live
  <2> QED
    BY <1>3, <2>1, <2>2 DEF OutTakes, Item
<1>6. ASSUME NEW t \in Slots, NEW k \in Range(conn[t].outgoing), k.n = m.n
      PROVE  k = m /\ t = s
  <2>1. t = s
    BY <1>6 DEF Outbound, OutTakes
  <2>2. conn[s].outgoing \in Seq(Outgoing) /\ Increasing(conn[s].outgoing) /\ Numbered(Outgoing)
    BY PeersKnown DEF Outbound, Numbered, Outgoing
  <2> QED
    BY <1>6, <2>1, <2>2, OneMessage DEF OutTakes
<1>7. ASSUME NEW id \in 1..MaxPeers
      PROVE  OutWaiting'[id] = IF id = l THEN OutWaiting[l] \ {x} ELSE OutWaiting[id]
  <2>1. ASSUME NEW y \in OutWaiting'[id]
        PROVE  y \in OutWaiting[id] /\ (id = l => y # x)
    <3>0. PICK t \in Slots : \E k \in Range(conn'[t].outgoing) :
            conn'[t].id = id /\ k.n \notin InTransport' /\ y = Item(id, k)
      BY <1>1 DEF OutWaits
    <3>1. PICK k \in Range(conn'[t].outgoing) :
            conn'[t].id = id /\ k.n \notin InTransport' /\ y = Item(id, k)
      BY <3>0
    <3>2. conn[t].id = id /\ k \in Range(conn[t].outgoing) /\ k # m
      <4>1. CASE conn' = conn /\ InTransport' = {m.n}
        BY <3>1, <4>1
      <4>2. CASE /\ Range(conn'[s].outgoing) = Range(conn[s].outgoing) \ {m}
                 /\ \A u \in Slots \ {s} : conn'[u] = conn[u]
        <5>1. CASE t = s
          BY <3>1, <4>2, <5>1 DEF OutTakes
        <5>2. CASE t # s
          BY <1>6, <3>1, <4>2, <5>2
        <5> QED
          BY <5>1, <5>2
      <4> QED
        BY <4>1, <4>2 DEF OutTakes
    <3>3. y \in OutWaiting[id]
      BY <1>1, <3>1, <3>2 DEF OutWaits, OutTakes
    <3>4. k.n # m.n
      BY <1>6, <3>2
    <3> QED
      BY <3>1, <3>3, <3>4 DEF Item
  <2>2. ASSUME NEW y \in OutWaiting[id], id = l => y # x
        PROVE  y \in OutWaiting'[id]
    <3>0. PICK t \in Slots : \E k \in Range(conn[t].outgoing) :
            conn[t].id = id /\ y = Item(id, k)
      BY <1>1 DEF OutWaits
    <3>1. PICK k \in Range(conn[t].outgoing) :
            conn[t].id = id /\ y = Item(id, k)
      BY <3>0
    <3>2. k # m \/ t # s
      BY <2>2, <3>1
    <3>3. k.n # m.n
      BY <1>6, <3>2
    <3>4. conn'[t].id = id /\ k \in Range(conn'[t].outgoing) /\ k.n \notin InTransport'
      BY <3>1, <3>3 DEF OutTakes
    <3> QED
      BY <1>1, <3>1, <3>4 DEF OutWaits
  <2> QED
    BY <2>1, <2>2
<1>8. OutWaiting' = [OutWaiting EXCEPT ![l] = @ \ {x}]
  BY <1>1, <1>2, <1>7 DEF OutWaits
<1>9. Closed' = Closed
  <2>1. \A id, f : Open(id, f)' <=> Open(id, f)
    BY DEF Open, At, Live, OutTakes
  <2> QED
    BY <2>1 DEF Closed, OutTakes
<1>10. sent' = [sent EXCEPT ![l] = Append(@, x.n)] /\ count'.sends = count.sends
  BY <1>3 DEF OutTakes
<1>11. Outbox!Take(l)
  <2> HIDE DEF x, l
  <2> QED
    BY <1>3, <1>4, <1>5, <1>8, <1>9, <1>10 DEF Outbox!Take
<1> QED
  BY <1>2, <1>11

LEMMA ClosedSame ==
    ASSUME count'.peers = count.peers,
           \A s \in Slots : /\ conn'[s].id = conn[s].id
                            /\ conn'[s].phase = conn[s].phase /\ conn'[s].failed = conn[s].failed
    PROVE  Closed' = Closed
<1>1. \A id, f : Open(id, f)' <=> Open(id, f)
  BY DEF Open, At, Live
<1> QED
  BY <1>1 DEF Closed

(* A message is put on the connection that agrees to it.                   *)
OutPuts(s, m) ==
    /\ conn[s].id # 0 /\ m \in Outgoing
    /\ conn[s].phase = "Established" /\ m.feature.id \notin conn[s].failed
    /\ m.n = count.sends + 1 /\ count'.sends = m.n /\ count'.peers = count.peers
    /\ conn' = [conn EXCEPT ![s].outgoing = Append(@, m)]
    /\ pump' = pump /\ sent' = sent

LEMMA OutPutsPuts ==
    ASSUME Shapes, Shapes', Endpoints, Outbound, Submitted,
           NEW s \in Slots, NEW m, OutPuts(s, m)
    PROVE  \E l \in 1..MaxPeers : Outbox!Put(l)
<1>1. OutWaits /\ OutWaits'
  <2>1. Shapes' => OutWaits'
    BY OutWaitsIs, PTL
  <2> QED
    BY <2>1, OutWaitsIs
<1> DEFINE l == conn[s].id
           x == Item(l, m)
<1>2. /\ l \in 1..MaxPeers /\ m.feature.id \in Ids /\ m.n = count.sends + 1
      /\ l \in 1..count.peers /\ count.sends \in Nat
  BY SMTT(60), PeersKnown, MessageQueuesAssumption DEF Endpoints, Live, OutPuts, Outgoing, Ids
<1>3. x = [n |-> count.sends + 1, topic |-> <<l, m.feature.id>>]
  BY <1>2 DEF Item
<1>4. <<l, m.feature.id>> \in ((1..MaxPeers) \X Ids) \ Closed
  BY <1>2 DEF Closed, Open, At, Live, OutPuts
<1>5. /\ \A t \in Slots \ {s} : conn'[t] = conn[t]
      /\ conn'[s].id = conn[s].id /\ conn'[s].phase = conn[s].phase /\ conn'[s].failed = conn[s].failed
      /\ conn'[s].outgoing = Append(conn[s].outgoing, m)
  BY PeersKnown DEF OutPuts, Shapes, Connections
<1>6. Range(conn'[s].outgoing) = Range(conn[s].outgoing) \cup {m}
  <2>1. Numbered(Outgoing) /\ m \in Outgoing /\ conn[s].outgoing \in Seq(Outgoing)
        /\ Increasing(conn[s].outgoing)
    BY PeersKnown DEF Numbered, Outgoing, OutPuts, Outbound
  <2>2. \A other \in Range(conn[s].outgoing) : other.n < m.n
    <3> SUFFICES ASSUME NEW other \in Range(conn[s].outgoing) PROVE other.n < m.n
      OBVIOUS
    <3>1. other.n \in Nat /\ other.n <= count.sends
      BY PeersKnown DEF Outbound, Outgoing
    <3> QED
      BY <1>2, <3>1
  <2> QED
    BY <1>5, <2>1, <2>2, AppendedQueue
<1>7. m.n \notin InTransport /\ InTransport' = InTransport
  <2>1. InTransport' = InTransport
    BY DEF InTransport, OutPuts
  <2>2. ASSUME m.n \in InTransport PROVE FALSE
    <3>1. pump.at = "Submitting" /\ pump.sub.result = "Accepted" /\ pump.sub.frame.n = m.n
      BY <2>2 DEF InTransport
    <3>2. pump.sub.frame.n = 0 \/ pump.sub.frame.n <= count.sends
      BY <3>1 DEF Submitted, Held
    <3> QED
      BY <1>2, <3>1, <3>2
  <2> QED
    BY <2>1, <2>2
<1>8. ASSUME NEW id \in 1..MaxPeers
      PROVE  OutWaiting'[id] = IF id = l THEN OutWaiting[l] \cup {x} ELSE OutWaiting[id]
  <2>1. ASSUME NEW y \in OutWaiting'[id]
        PROVE  y \in OutWaiting[id] \/ (id = l /\ y = x)
    <3>0. PICK t \in Slots : \E k \in Range(conn'[t].outgoing) :
            conn'[t].id = id /\ k.n \notin InTransport' /\ y = Item(id, k)
      BY <1>1 DEF OutWaits
    <3>1. PICK k \in Range(conn'[t].outgoing) :
            conn'[t].id = id /\ k.n \notin InTransport' /\ y = Item(id, k)
      BY <3>0
    <3>2. CASE t = s /\ k = m
      BY <1>5, <3>1, <3>2
    <3>3. CASE ~(t = s /\ k = m)
      <4>1. conn[t].id = id /\ k \in Range(conn[t].outgoing) /\ k.n \notin InTransport
        BY <1>5, <1>6, <1>7, <3>1, <3>3
      <4> QED
        BY <1>1, <3>1, <4>1 DEF OutWaits
    <3> QED
      BY <3>2, <3>3
  <2>2. ASSUME NEW y \in OutWaiting[id]
        PROVE  y \in OutWaiting'[id]
    <3>0. PICK t \in Slots : \E k \in Range(conn[t].outgoing) :
            conn[t].id = id /\ k.n \notin InTransport /\ y = Item(id, k)
      BY <1>1 DEF OutWaits
    <3>1. PICK k \in Range(conn[t].outgoing) :
            conn[t].id = id /\ k.n \notin InTransport /\ y = Item(id, k)
      BY <3>0
    <3>2. conn'[t].id = id /\ k \in Range(conn'[t].outgoing) /\ k.n \notin InTransport'
      BY <1>5, <1>6, <1>7, <3>1
    <3> QED
      BY <1>1, <3>1, <3>2 DEF OutWaits
  <2>3. x \in OutWaiting'[l]
    BY <1>1, <1>2, <1>5, <1>6, <1>7 DEF OutWaits
  <2> QED
    BY <2>1, <2>2, <2>3
<1>9. OutWaiting' = [OutWaiting EXCEPT ![l] = @ \cup {x}]
  BY <1>1, <1>2, <1>8 DEF OutWaits
<1>10. Closed' = Closed
  BY <1>5, ClosedSame DEF OutPuts
<1>11. sent' = sent /\ count'.sends = count.sends + 1
  BY <1>2 DEF OutPuts
<1>12. Outbox!Put(l)
  <2> HIDE DEF l, x
  <2>1. OutWaiting' = [OutWaiting EXCEPT ![l] =
                         @ \cup {[n |-> count.sends + 1, topic |-> <<l, m.feature.id>>]}]
    BY <1>3, <1>9
  <2> QED
    BY <1>4, <1>10, <1>11, <2>1 DEF Outbox!Put
<1> QED
  BY <1>2, <1>12

Arrival(m) == [n |-> m.n, topic |-> <<m.connection, m.feature.id>>]

Unread == Range(incoming) \cup InHand

InWaits ==
    /\ InWaiting \in [{"incoming"} -> SUBSET Inbox!Messages]
    /\ \A x : x \in InWaiting["incoming"] <=> \E m \in Unread : x = Arrival(m)
    /\ \A m \in Unread : m.n \in Nat /\ m.n <= count.arrivals /\ m \in Incoming

LEMMA InWaitsIs == Shapes /\ Endpoints /\ Inbound => InWaits
<1> SUFFICES ASSUME Shapes, Endpoints, Inbound PROVE InWaits
  OBVIOUS
<1>1. \A x : x \in InWaiting["incoming"] <=> \E m \in Unread : x = Arrival(m)
  BY DEF InWaiting, Arrival, Unread
<1>2. ASSUME NEW m \in Unread
      PROVE  /\ m.n \in Nat /\ m.n <= count.arrivals /\ m \in Incoming
             /\ <<m.connection, m.feature.id>> \in (1..MaxPeers) \X Ids
  <2>1. InHand \subseteq Hand /\ Hand \subseteq Incoming
    BY DEF InHand, Hand, Shapes, Controls, ControlIdle
  <2>2. m \in Incoming /\ m \in Range(incoming) \cup Hand
    BY <2>1, PeersKnown DEF Unread
  <2>3. m.n \in Nat /\ m.connection \in Nat /\ m.feature \in Objects
    BY <2>2 DEF Incoming
  <2>4. m.n <= count.arrivals /\ 0 < m.connection /\ m.connection <= count.peers
    BY <2>2 DEF Inbound
  <2>5. count.peers \in Nat /\ count.peers <= MaxPeers /\ MaxPeers \in Nat
    BY PeersKnown, MessageQueuesAssumption DEF Endpoints
  <2>6. m.connection \in 1..MaxPeers
    BY <2>3, <2>4, <2>5
  <2> QED
    BY <2>2, <2>3, <2>4, <2>6 DEF Ids
<1>3. \A m \in Unread : Arrival(m) \in Inbox!Messages
  BY <1>2 DEF Arrival, Inbox!Messages
<1>4. InWaiting \in [{"incoming"} -> SUBSET Inbox!Messages]
  <2>1. InWaiting = [l \in {"incoming"} |-> InWaiting["incoming"]]
    BY DEF InWaiting
  <2>2. InWaiting["incoming"] \in SUBSET Inbox!Messages
    BY <1>1, <1>3
  <2> QED
    BY <2>1, <2>2
<1> QED
  BY <1>1, <1>2, <1>4 DEF InWaits

LEMMA InWaitsBoth ==
    ASSUME Shapes, Endpoints, Inbound, Shapes', Endpoints', Inbound'
    PROVE  InWaits /\ InWaits'
<1>1. Shapes' /\ Endpoints' /\ Inbound' => InWaits'
  BY InWaitsIs, PTL
<1> QED
  BY <1>1, InWaitsIs

(* A step that gives no message to the patches, and removes only what is   *)
(* closed.                                                                 *)
InLoses ==
    /\ Continues
    /\ count'.peers >= count.peers /\ count'.arrivals = count.arrivals
    /\ delivered' = delivered
    /\ Unread' \subseteq Unread
    /\ \A m \in Unread \ Unread' : <<m.connection, m.feature.id>> \in Closed'

LEMMA InLosesDrops ==
    ASSUME Shapes, Endpoints, Inbound, Shapes', Endpoints', Inbound', InLoses
    PROVE  Inbox!Drop
<1>1. InWaits /\ InWaits'
  BY InWaitsBoth
<1>2. Closed \subseteq Closed' /\ Closed' \in SUBSET ((1..MaxPeers) \X Ids)
  BY ClosedGrows DEF InLoses
<1>3. InWaiting'["incoming"] \subseteq InWaiting["incoming"]
  BY <1>1 DEF InWaits, InLoses
<1>4. \A x \in InWaiting["incoming"] \ InWaiting'["incoming"] : x.topic \in Closed'
  <2> SUFFICES ASSUME NEW x \in InWaiting["incoming"] \ InWaiting'["incoming"]
               PROVE  x.topic \in Closed'
    OBVIOUS
  <2>1. PICK m \in Unread : x = Arrival(m)
    BY <1>1 DEF InWaits
  <2>2. m \notin Unread'
    BY <1>1, <2>1 DEF InWaits
  <2> QED
    BY <2>1, <2>2 DEF InLoses, Arrival
<1>5. InWaiting' \in [{"incoming"} -> SUBSET Inbox!Messages]
  BY <1>1 DEF InWaits
<1>6. count'.arrivals = count.arrivals /\ delivered' = delivered
  BY DEF InLoses
<1> QED
  BY <1>2, <1>3, <1>4, <1>5, <1>6 DEF Inbox!Drop, Inbox!Messages

(* A message arrives over an open connection.                              *)
InPuts(m) ==
    /\ m \in Incoming /\ m.n = count.arrivals + 1 /\ count'.arrivals = m.n
    /\ <<m.connection, m.feature.id>> \in ((1..MaxPeers) \X Ids) \ Closed
    /\ Closed' = Closed
    /\ Range(incoming') = Range(incoming) \cup {m}
    /\ control' = control /\ delivered' = delivered

LEMMA InPutsPuts ==
    ASSUME Shapes, Endpoints, Inbound, Shapes', Endpoints', Inbound', NEW m, InPuts(m)
    PROVE  Inbox!Put("incoming")
<1>1. InWaits /\ InWaits'
  BY InWaitsBoth
<1>2. Unread' = Unread \cup {m}
  BY DEF Unread, InHand, InPuts
<1>3. Arrival(m) = [n |-> count.arrivals + 1, topic |-> <<m.connection, m.feature.id>>]
  BY DEF Arrival, InPuts
<1>4. InWaiting'["incoming"] = InWaiting["incoming"] \cup {Arrival(m)}
  BY <1>1, <1>2 DEF InWaits
<1>5. InWaiting' = [InWaiting EXCEPT !["incoming"] = @ \cup {Arrival(m)}]
  BY <1>1, <1>4 DEF InWaits
<1>6. /\ <<m.connection, m.feature.id>> \in ((1..MaxPeers) \X Ids) \ Closed
      /\ Closed' = Closed /\ count'.arrivals = count.arrivals + 1 /\ delivered' = delivered
  BY DEF InPuts
<1> QED
  BY <1>3, <1>5, <1>6 DEF Inbox!Put

(* The message in deliver()'s hands is given to the patch.                 *)
InTakes(m) ==
    /\ InHand = {m} /\ InHand' = {}
    /\ <<m.connection, m.feature.id>> \notin Closed
    /\ Closed' = Closed /\ incoming' = incoming /\ count' = count
    /\ delivered' = Append(delivered, m.n)

LEMMA InTakesTakes ==
    ASSUME Shapes, Endpoints, Inbound, Shapes', Endpoints', Inbound', NEW m, InTakes(m)
    PROVE  Inbox!Take("incoming")
<1>1. InWaits /\ InWaits'
  BY InWaitsBoth
<1>2. Hand = {m} /\ m \in Unread
  BY DEF InTakes, InHand, Hand, Unread
<1>3. \A other \in Range(incoming) : m.n < other.n
  BY <1>2 DEF Inbound
<1>4. m.n \in Nat
  BY <1>1, <1>2 DEF InWaits
<1>5. Unread' = Unread \ {m}
  BY <1>3, <1>4 DEF Unread, InTakes
<1>6. \A other \in Unread : m.n <= other.n
  <2> SUFFICES ASSUME NEW other \in Unread PROVE m.n <= other.n
    OBVIOUS
  <2>1. other.n \in Nat
    BY <1>1 DEF InWaits
  <2>2. other = m \/ other \in Range(incoming)
    BY DEF Unread, InTakes
  <2> QED
    BY <1>3, <1>4, <2>1, <2>2
<1>7. \A other \in Unread : other # m => other.n # m.n
  BY <1>3, <1>4 DEF Unread, InTakes
<1>8. /\ Arrival(m) \in InWaiting["incoming"]
      /\ Arrival(m).n = m.n /\ Arrival(m).topic = <<m.connection, m.feature.id>>
      /\ \A x \in InWaiting["incoming"] : Arrival(m).n <= x.n
  BY <1>1, <1>2, <1>6 DEF InWaits, Arrival
<1>9. InWaiting'["incoming"] = InWaiting["incoming"] \ {Arrival(m)}
  <2>1. \A other \in Unread : other # m => Arrival(other) # Arrival(m)
    BY <1>7 DEF Arrival
  <2> QED
    BY <1>1, <1>2, <1>5, <2>1 DEF InWaits
<1>10. InWaiting' = [InWaiting EXCEPT !["incoming"] = @ \ {Arrival(m)}]
  BY <1>1, <1>9 DEF InWaits
<1>11. /\ Arrival(m).topic \notin Closed /\ Closed' = Closed
       /\ count'.arrivals = count.arrivals /\ delivered' = Append(delivered, Arrival(m).n)
  BY <1>8 DEF InTakes
<1> QED
  BY <1>8, <1>10, <1>11 DEF Inbox!Take

-----------------------------------------------------------------------------
(* Steps that send nothing and give nothing to the patches.                *)

(* Messages that arrived go with connections that end or fail.             *)
Discards ==
    \/ incoming' = incoming
    \/ \E S \in SUBSET Slots :
          /\ \A s \in S : Fresh(s) \/ conn'[s].phase = "Failed"
          /\ incoming' = Without(incoming, Arrived(S))

LEMMA DiscardsShrink ==
    ASSUME Shapes, Inbound, Discards
    PROVE  /\ incoming' \in Seq(Incoming) /\ Increasing(incoming')
           /\ Range(incoming') \subseteq Range(incoming)
           /\ \A m \in Range(incoming) \ Range(incoming') :
                \E s \in Slots : /\ conn[s].id = m.connection
                                 /\ Fresh(s) \/ conn'[s].phase = "Failed"
<1>1. incoming \in Seq(Incoming) /\ Increasing(incoming) /\ Numbered(Incoming)
  BY DEF Shapes, Inbound, Numbered, Incoming
<1>2. CASE incoming' = incoming
  BY <1>1, <1>2
<1>3. CASE incoming' # incoming
  <2>1. PICK S \in SUBSET Slots :
          /\ \A s \in S : Fresh(s) \/ conn'[s].phase = "Failed"
          /\ incoming' = Without(incoming, Arrived(S))
    BY <1>3 DEF Discards
  <2>2. /\ Without(incoming, Arrived(S)) \in Seq(Incoming)
        /\ Range(Without(incoming, Arrived(S))) = Range(incoming) \ Arrived(S)
        /\ Increasing(Without(incoming, Arrived(S)))
    BY <1>1, LeftInQueue
  <2>3. \A m \in Arrived(S) : \E s \in S : conn[s].id = m.connection
    BY DEF Arrived, From
  <2> QED
    BY <2>1, <2>2, <2>3
<1> QED
  BY <1>2, <1>3

LEMMA InboxLoses ==
    ASSUME IInv, Shapes', Endpoints', Continues, Discards,
           control' = control, delivered' = delivered,
           count'.arrivals = count.arrivals, count'.peers >= count.peers
    PROVE  Inbound' /\ Inbox!Drop
<1>1. /\ Increasing(incoming') /\ Range(incoming') \subseteq Range(incoming)
      /\ \A m \in Range(incoming) \ Range(incoming') :
           \E s \in Slots : /\ conn[s].id = m.connection
                            /\ Fresh(s) \/ conn'[s].phase = "Failed"
  BY DiscardsShrink DEF IInv
<1>2. count'.arrivals >= count.arrivals
  BY PeersKnown DEF IInv
<1>3. Inbound'
  BY <1>1, <1>2, InboundKept DEF IInv, Continues
<1>4. InLoses
  <2>1. InHand' = InHand
    BY DEF InHand
  <2>2. ASSUME NEW m \in Unread \ Unread'
        PROVE  <<m.connection, m.feature.id>> \in Closed'
    <3>1. m \in Range(incoming) \ Range(incoming')
      BY <2>1, <2>2 DEF Unread
    <3>2. PICK s \in Slots : conn[s].id = m.connection /\ (Fresh(s) \/ conn'[s].phase = "Failed")
      BY <1>1, <3>1
    <3>3. m.feature.id \in Ids /\ m.connection # 0
      BY <3>1, PeersKnown DEF IInv, Incoming, Ids, Inbound
    <3> QED
      BY <3>2, <3>3, EndedIsClosed DEF IInv
  <2> QED
    BY <1>1, <2>1, <2>2 DEF InLoses, Unread
<1> QED
  BY <1>3, <1>4, InLosesDrops DEF IInv

LEMMA OutboxLoses ==
    ASSUME IInv, Shapes', Endpoints', OutLoses
    PROVE  Outbound' /\ Outbox!Drop
<1>1. count'.sends >= count.sends
  BY PeersKnown DEF IInv, OutLoses
<1> QED
  BY <1>1, OutboundKept, OutLosesDrops DEF IInv, OutLoses

(* A step outside the pump and deliver(). *)
Loses ==
    /\ Tidy /\ Whole /\ Discards
    /\ UNCHANGED <<pump, control, sent, delivered>>
    /\ count'.sends = count.sends /\ count'.arrivals = count.arrivals
    /\ count'.peers >= count.peers

Done == IInv' /\ Outbox!Next /\ Inbox!Next

LEMMA LosesDone ==
    ASSUME IInv, Shapes', Endpoints', Loses
    PROVE  Done
<1>1. Continues
  BY DEF Loses, Tidy, Continues
<1>2. Inbound' /\ Inbox!Drop
  BY <1>1, InboxLoses DEF Loses
<1>3. count'.sends >= count.sends
  BY PeersKnown DEF IInv, Loses
<1>4. Submitted'
  BY <1>3, SubmittedKept DEF IInv, Loses
<1>5. InTransport' = InTransport
  BY DEF InTransport, Loses
<1>6. OutLoses
  BY <1>5 DEF OutLoses, Loses, Whole
<1>7. Outbound' /\ Outbox!Drop
  BY <1>6, OutboxLoses
<1> QED
  BY <1>2, <1>4, <1>7 DEF Done, IInv, Outbox!Next, Inbox!Next

LEMMA Endings ==
    ASSUME IInv, Clear, frozen' \in SUBSET Objects, count'.peers = count.peers,
           count' \in Counts, count'.sends = count.sends, count'.arrivals = count.arrivals
    PROVE  Done
<1>1. conn' = [s \in Slots |-> NoConnection] /\ host' = 0 /\ local' = 0
  BY DEF Clear
<1>2. \A s \in Slots : Fresh(s)
  BY <1>1 DEF Fresh, NoConnection
<1>3. Discards
  <2>1. Live \in SUBSET Slots /\ incoming' = Without(incoming, Arrived(Live))
    BY DEF Clear, Discard, Live
  <2> QED
    BY <1>2, <2>1 DEF Discards
<1>4. Loses
  BY <1>2, <1>3, PeersKnown DEF Loses, Tidy, Whole, Clear, IInv
<1>5. NoConnection \in Connections
  BY DEF NoConnection, Connections, Phases
<1>6. Shapes'
  <2>1. incoming' \in Seq(Incoming)
    BY <1>3, DiscardsShrink DEF IInv
  <2>2. conn' \in [Slots -> Connections]
    BY <1>1, <1>5
  <2>3. hellos' \in [Slots -> Nat]
    BY DEF Clear, NoHellos
  <2> QED
    BY <1>1, <2>1, <2>2, <2>3 DEF Shapes, Clear, IInv
<1>7. Endpoints'
  <2>1. Live' = {}
    BY <1>1 DEF Live, NoConnection
  <2> QED
    BY <1>1, <2>1, PeersKnown DEF Endpoints, IInv
<1> QED
  BY <1>4, <1>6, <1>7, LosesDone

LEMMA SessionsDone == IInv /\ (Begin \/ End \/ Reset) => Done
<1> SUFFICES ASSUME IInv, Begin \/ End \/ Reset PROVE Done
  OBVIOUS
<1>1. count \in Counts
  BY DEF IInv, Shapes
<1>2. /\ Clear /\ frozen' \in SUBSET Objects /\ count' \in Counts
      /\ count'.peers = count.peers /\ count'.sends = count.sends
      /\ count'.arrivals = count.arrivals
  <2>1. CASE Begin
    BY <1>1, <2>1 DEF Begin, Counts
  <2>2. CASE End
    BY <1>1, <2>2 DEF End
  <2>3. CASE Reset
    BY <1>1, <2>3 DEF Reset, IInv, Shapes
  <2> QED
    BY <2>1, <2>2, <2>3
<1> QED
  BY <1>2, Endings

LEMMA NoConnectionIs ==
    /\ NoConnection \in Connections /\ NoConnection.id = 0
    /\ NoConnection.outgoing = <<>>
BY DEF NoConnection, Connections, Phases

(* A connection gets another queue. *)
LEMMA NewQueue ==
    ASSUME Shapes, NEW s \in Slots, NEW queue \in Seq(Outgoing),
           conn' = [conn EXCEPT ![s].outgoing = queue]
    PROVE  /\ conn' \in [Slots -> Connections]
           /\ \A t \in Slots \ {s} : conn'[t] = conn[t]
           /\ conn'[s].id = conn[s].id /\ conn'[s].phase = conn[s].phase
           /\ conn'[s].supported = conn[s].supported /\ conn'[s].failed = conn[s].failed
           /\ conn'[s].outgoing = queue
<1>1. \A c \in Connections :
        LET d == [c EXCEPT !.outgoing = queue]
        IN  /\ d \in Connections /\ d.id = c.id /\ d.phase = c.phase
            /\ d.supported = c.supported /\ d.failed = c.failed /\ d.outgoing = queue
  BY DEF Connections
<1>2. conn \in [Slots -> Connections]
  BY DEF Shapes
<1> QED
  BY <1>1, <1>2

(* A slot that the step leaves alone. *)
LEMMA SlotStays ==
    ASSUME Shapes, Outbound, NEW s \in Slots, conn'[s] = conn[s],
           conn[s].id # 0 => host' = host /\ frozen' = frozen
    PROVE  (Lasts(s) /\ Shrinks(s)) \/ Fresh(s)
<1>1. CASE conn[s].id = 0
  <2>1. \A m \in Range(conn[s].outgoing) : FALSE
    BY <1>1 DEF Outbound, Serves
  <2>2. conn[s].outgoing = <<>>
    BY <2>1, PeersKnown, RangeIn
  <2> QED
    BY <1>1, <2>2 DEF Fresh
<1>2. CASE conn[s].id # 0
  BY <1>2 DEF Lasts, Shrinks, Outbound
<1> QED
  BY <1>1, <1>2

LEMMA ConnectDone ==
    ASSUME IInv, NEW s \in Slots, Connect(s)
    PROVE  Done
<1> DEFINE id == count.peers + 1
           second == count.peers + 2
<1>1. /\ count.peers \in Nat /\ id \in Nat /\ second \in Nat /\ count \in Counts
      /\ host \in Nat /\ local \in Nat /\ host <= count.peers /\ local <= count.peers
  BY PeersKnown DEF IInv, Shapes, Endpoints
<1>2. PICK phase \in NewPhases(s) :
        conn' = [x \in Slots |->
                   IF x = s THEN [NoConnection EXCEPT !.id = id, !.phase = phase]
                   ELSE IF x \in ConnectEnds(s) THEN NoConnection ELSE conn[x]]
  BY DEF Connect
<1> DEFINE c == [NoConnection EXCEPT !.id = id, !.phase = phase]
<1>3. c \in Connections /\ c.id = id /\ c.phase = phase /\ c.outgoing = <<>>
  <2>1. phase \in Phases
    BY DEF NewPhases, Phases
  <2>2. id \in Nat
    BY <1>1
  <2> HIDE DEF id
  <2>3. \A b \in Connections : [b EXCEPT !.id = id, !.phase = phase] \in Connections
    BY <2>1, <2>2 DEF Connections
  <2>4. c \in Connections
    BY <2>3, NoConnectionIs
  <2>5. c.id = id /\ c.phase = phase /\ c.outgoing = <<>>
    BY NoConnectionIs DEF NoConnection
  <2> QED
    BY <2>4, <2>5
<1>4. /\ count' = [count EXCEPT !.peers = IF DrawsSecond THEN second ELSE id]
      /\ frozen' = frozen /\ UNCHANGED <<pump, control, sent, delivered>>
      /\ host' = IF Mode = "Client" THEN id ELSE IF DrawsSecond THEN second ELSE host
      /\ local' = IF Mode = "Client" THEN IF DrawsSecond THEN second ELSE local
                  ELSE IF IsLocal(s) THEN id ELSE local
      /\ count.peers + (IF DrawsSecond THEN 2 ELSE 1) <= MaxPeers
  BY DEF Connect
<1>5. /\ count'.peers = (IF DrawsSecond THEN second ELSE id)
      /\ count'.sends = count.sends /\ count'.arrivals = count.arrivals /\ count' \in Counts
      /\ count'.peers \in Nat /\ count'.peers >= id /\ count'.peers <= MaxPeers
  BY <1>1, <1>4 DEF Counts
<1> HIDE DEF c
<1>6. /\ conn'[s] = c /\ Fresh(s)
      /\ \A t \in ConnectEnds(s) \ {s} : t \in Slots => conn'[t] = NoConnection /\ Fresh(t)
      /\ \A t \in Slots \ ConnectEnds(s) : t # s => conn'[t] = conn[t]
      /\ conn' \in [Slots -> Connections]
  <2>1. /\ conn'[s] = c
        /\ \A t \in Slots : t # s => conn'[t] = IF t \in ConnectEnds(s) THEN NoConnection ELSE conn[t]
    BY <1>2 DEF c
  <2>2. \A t \in Slots : conn'[t] \in Connections
    BY <1>3, <2>1, NoConnectionIs, PeersKnown DEF IInv
  <2>3. conn' \in [Slots -> Connections]
    BY <1>2, <2>2
  <2> QED
    BY <1>1, <1>3, <2>1, <2>3, NoConnectionIs DEF Fresh
<1>7. ASSUME NEW t \in Slots, t # s, conn[t].id # 0
      PROVE  \/ t \in ConnectEnds(s)
             \/ Mode # "Client" /\ host' = host /\ host # 0
  <2>1. t \in Live /\ host # 0
    BY <1>7 DEF Live, IInv, Endpoints
  <2> QED
    BY <1>4, <2>1 DEF ConnectEnds, DrawsSecond
<1>8. \A t \in Slots : (Lasts(t) /\ Shrinks(t)) \/ Fresh(t)
  <2> SUFFICES ASSUME NEW t \in Slots PROVE (Lasts(t) /\ Shrinks(t)) \/ Fresh(t)
    OBVIOUS
  <2>1. CASE t = s \/ t \in ConnectEnds(s)
    BY <1>6, <2>1
  <2>2. CASE t # s /\ t \notin ConnectEnds(s)
    <3>1. conn'[t] = conn[t] /\ (conn[t].id # 0 => host' = host /\ frozen' = frozen)
      BY <1>4, <1>6, <1>7, <2>2
    <3> QED
      BY <3>1, SlotStays DEF IInv
  <2> QED
    BY <2>1, <2>2
<1>9. Discards
  <2>1. incoming' = Without(incoming, Arrived(ConnectEnds(s)))
    BY DEF Connect, Discard
  <2>2. ConnectEnds(s) \in SUBSET Slots
    BY DEF ConnectEnds, Live
  <2>3. \A t \in ConnectEnds(s) : Fresh(t)
    BY <1>6, <2>2
  <2> QED
    BY <2>1, <2>2, <2>3 DEF Discards
<1>10. Loses
  <2>1. Whole
    <3> SUFFICES ASSUME NEW t \in Slots, ~Fresh(t)
                 PROVE  Range(conn[t].outgoing) \ Range(conn'[t].outgoing) = {}
      BY DEF Whole
    <3>1. conn'[t] = conn[t]
      BY <1>6
    <3> QED
      BY <3>1
  <2> QED
    BY <1>1, <1>4, <1>5, <1>8, <1>9, <2>1 DEF Loses, Tidy
<1>11. Shapes'
  <2>1. incoming' \in Seq(Incoming)
    BY <1>9, DiscardsShrink DEF IInv
  <2>2. hellos' \in [Slots -> Nat]
    <3>1. PICK kept \in HellosAfterExpiry : hellos' = [kept EXCEPT ![s] = 0]
      BY DEF Connect
    <3>2. kept \in [Slots -> Nat]
      BY SMTT(60) DEF HellosAfterExpiry, IInv, Shapes
    <3> QED
      BY <3>1, <3>2
  <2>3. host' \in Nat /\ local' \in Nat
    BY <1>1, <1>4
  <2> QED
    BY <1>4, <1>5, <1>6, <2>1, <2>2, <2>3 DEF IInv, Shapes
<1>12. Endpoints'
  <2>1. host' <= count'.peers /\ local' <= count'.peers
    BY <1>1, <1>4, <1>5
  <2>2. ASSUME NEW t \in Live', t # s
        PROVE  /\ t \in Live /\ conn'[t] = conn[t] /\ Mode # "Client"
               /\ conn'[t].id \in Nat /\ conn'[t].id <= count.peers
               /\ conn'[t].id # host'
    <3>1. t \in Slots /\ t \notin ConnectEnds(s) /\ conn'[t] = conn[t] /\ t \in Live
      BY <1>6, <2>2, NoConnectionIs DEF Live
    <3>2. Mode # "Client" /\ host' = host
      BY <1>7, <2>2, <3>1 DEF Live
    <3> QED
      BY <3>1, <3>2, PeersKnown DEF IInv, Endpoints
  <2>3. conn'[s].id = id /\ conn'[s].phase = phase /\ s \in Live'
    BY <1>1, <1>3, <1>6 DEF Live
  <2>4. host' # 0 /\ (conn'[s].id = host' <=> Mode = "Client")
    BY <1>1, <1>4, <2>3 DEF DrawsSecond
  <2>5. \A t \in Live' : conn'[t].id = host' <=> Mode = "Client"
    BY <2>2, <2>4
  <2>6. \A t \in Live' : conn'[t].id <= count'.peers
    <3> SUFFICES ASSUME NEW t \in Live' PROVE conn'[t].id <= count'.peers
      OBVIOUS
    <3>1. CASE t = s
      BY <1>5, <2>3, <3>1
    <3>2. CASE t # s
      BY <1>1, <1>5, <2>2, <3>2
    <3> QED
      BY <3>1, <3>2
  <2>7. \A t, u \in Live' : conn'[t].id = conn'[u].id => t = u
    <3> SUFFICES ASSUME NEW t \in Live', NEW u \in Live', t # u PROVE conn'[t].id # conn'[u].id
      OBVIOUS
    <3>1. CASE t # s /\ u # s
      BY <2>2, <3>1 DEF IInv, Endpoints
    <3>2. CASE t = s
      BY <1>1, <2>2, <2>3, <3>2
    <3>3. CASE u = s
      BY <1>1, <2>2, <2>3, <3>3
    <3> QED
      BY <3>1, <3>2, <3>3
  <2>8. ASSUME Mode # "Client", NEW t \in Live'
        PROVE  conn'[t].id = local' <=> IsLocal(t)
    <3>1. CASE t = s
      BY <1>1, <1>4, <2>3, <2>8, <3>1
    <3>2. CASE t # s /\ IsLocal(s)
      BY <1>1, <1>4, <2>2, <2>8, <3>2 DEF IsLocal
    <3>3. CASE t # s /\ ~IsLocal(s)
      BY <1>4, <2>2, <2>8, <3>3 DEF IInv, Endpoints
    <3> QED
      BY <3>1, <3>2, <3>3
  <2>9. \A t \in Live' : IsLocal(t) => conn'[t].phase \in {"Established", "Failed"}
    <3> SUFFICES ASSUME NEW t \in Live', IsLocal(t)
                 PROVE  conn'[t].phase \in {"Established", "Failed"}
      OBVIOUS
    <3>1. CASE t = s
      BY <1>2, <2>3, <3>1 DEF NewPhases
    <3>2. CASE t # s
      BY <2>2, <3>2 DEF IInv, Endpoints
    <3> QED
      BY <3>1, <3>2
  <2> QED
    BY <1>5, <2>1, <2>4, <2>5, <2>6, <2>7, <2>8, <2>9 DEF Endpoints, IsLocal
<1> QED
  BY <1>10, <1>11, <1>12, LosesDone

LEMMA DisconnectDone ==
    ASSUME IInv, NEW s \in Slots, Disconnect(s)
    PROVE  Done
<1>1. /\ conn' \in [Slots -> Connections] /\ conn'[s] = NoConnection
      /\ \A t \in Slots \ {s} : conn'[t] = conn[t]
      /\ Fresh(s)
  BY NoConnectionIs DEF Disconnect, IInv, Shapes, Fresh
<1>2. /\ UNCHANGED <<frozen, hellos, pump, control, sent, delivered, count>>
      /\ s \in Live /\ incoming' = Without(incoming, Arrived({s}))
      /\ IF conn[s].id = host THEN host' = 0 /\ local' = 0
         ELSE host' = host /\ local' = IF conn[s].id = local THEN 0 ELSE local
  BY DEF Disconnect, Discard
<1>3. ASSUME NEW t \in Live, t # s PROVE host' = host
  <2>1. conn[s].id # host
    BY <1>2, <1>3 DEF IInv, Endpoints
  <2> QED
    BY <1>2, <2>1
<1>4. \A t \in Slots : (Lasts(t) /\ Shrinks(t)) \/ Fresh(t)
  <2> SUFFICES ASSUME NEW t \in Slots, t # s PROVE (Lasts(t) /\ Shrinks(t)) \/ Fresh(t)
    BY <1>1
  <2>1. conn'[t] = conn[t] /\ (conn[t].id # 0 => host' = host /\ frozen' = frozen)
    BY <1>1, <1>2, <1>3 DEF Live
  <2> QED
    BY <2>1, SlotStays DEF IInv
<1>5. Discards
  BY <1>1, <1>2 DEF Discards
<1>6. Loses
  <2>1. Whole
    BY <1>1 DEF Whole
  <2> QED
    BY <1>2, <1>4, <1>5, <2>1, PeersKnown DEF Loses, Tidy, IInv
<1>7. Shapes'
  <2>1. incoming' \in Seq(Incoming)
    BY <1>5, DiscardsShrink DEF IInv
  <2>2. host' \in Nat /\ local' \in Nat
    BY <1>2 DEF IInv, Shapes
  <2> QED
    BY <1>1, <1>2, <2>1, <2>2 DEF IInv, Shapes
<1>8. Endpoints'
  <2>1. \A t \in Live' : t \in Live /\ t # s /\ conn'[t] = conn[t] /\ host' = host
    BY <1>1, <1>3, NoConnectionIs DEF Live
  <2>2. \A t \in Live' : conn'[t].id # conn[s].id
    BY <1>2, <2>1 DEF IInv, Endpoints
  <2>3. host' <= count'.peers /\ local' <= count'.peers /\ count'.peers <= MaxPeers
    BY <1>2, PeersKnown DEF IInv, Endpoints
  <2>4. Mode # "Client" => \A t \in Live' : conn'[t].id = local' <=> IsLocal(t)
    <3> SUFFICES ASSUME Mode # "Client", NEW t \in Live' PROVE conn'[t].id = local' <=> IsLocal(t)
      OBVIOUS
    <3>1. conn[t].id = local <=> IsLocal(t)
      BY <2>1 DEF IInv, Endpoints
    <3>2. conn[s].id # host
      BY <1>2 DEF IInv, Endpoints
    <3>3. local' = IF conn[s].id = local THEN 0 ELSE local
      BY <1>2, <3>2
    <3> QED
      BY <2>1, <2>2, <3>1, <3>3 DEF Live
  <2> QED
    BY <1>2, <2>1, <2>3, <2>4 DEF IInv, Endpoints, IsLocal
<1> QED
  BY <1>6, <1>7, <1>8, LosesDone

LEMMA ObserveLocalDone == IInv /\ ObserveLocal => Done
<1> SUFFICES ASSUME IInv, ObserveLocal PROVE Done
  OBVIOUS
<1>1. /\ UNCHANGED <<frozen, conn, hellos, incoming, pump, control, sent, delivered>>
      /\ count.peers < MaxPeers /\ count' = [count EXCEPT !.peers = @ + 1]
      /\ \/ Mode # "Client" /\ host = 0 /\ host' = count.peers + 1 /\ local' = local
         \/ Mode = "Client" /\ local = 0 /\ local' = count.peers + 1 /\ host' = host
  BY DEF ObserveLocal
<1>2. /\ count.peers \in Nat /\ count' \in Counts /\ count'.peers = count.peers + 1
      /\ count'.sends = count.sends /\ count'.arrivals = count.arrivals
  <2>1. count \in Counts /\ count' = [count EXCEPT !.peers = @ + 1]
    BY <1>1 DEF IInv, Shapes
  <2> QED
    BY <2>1 DEF Counts
<1>3. Live # {} => host' = host
  BY <1>1 DEF IInv, Endpoints
<1>4. Tidy
  <2> SUFFICES ASSUME NEW t \in Slots PROVE (Lasts(t) /\ Shrinks(t)) \/ Fresh(t)
    BY DEF Tidy
  <2>1. conn'[t] = conn[t] /\ (conn[t].id # 0 => host' = host /\ frozen' = frozen)
    BY <1>1, <1>3 DEF Live
  <2> QED
    BY <2>1, SlotStays DEF IInv
<1>5. Loses
  <2>1. Whole
    BY <1>1 DEF Whole
  <2> QED
    BY <1>1, <1>2, <1>4, <2>1 DEF Loses, Discards
<1>6. Shapes'
  <2>1. host' \in Nat /\ local' \in Nat
    BY <1>1, <1>2 DEF IInv, Shapes
  <2> QED
    BY <1>1, <1>2, <2>1 DEF IInv, Shapes
<1>7. Endpoints'
  <2>1. Live' = Live
    BY <1>1 DEF Live
  <2>2. count'.peers <= MaxPeers /\ host' <= count'.peers /\ local' <= count'.peers
    BY SMTT(60), <1>1, <1>2, MessageQueuesAssumption DEF IInv, Endpoints, Shapes
  <2>3. \A t \in Live' : conn'[t].id <= count'.peers
    BY <1>1, <1>2, <2>1, PeersKnown DEF IInv, Endpoints, Live
  <2>4. Mode # "Client" => local' = local
    BY <1>1
  <2> QED
    BY <1>1, <1>3, <2>1, <2>2, <2>3, <2>4 DEF IInv, Endpoints, IsLocal
<1> QED
  BY <1>5, <1>6, <1>7, LosesDone

(* One connection changes, or all remote ones do; the endpoints stay.      *)
LEMMA SlotsDone ==
    ASSUME IInv, conn' \in [Slots -> Connections], NEW S \in SUBSET Live,
           \A t \in Slots \ S : conn'[t] = conn[t],
           \A s \in S : /\ Lasts(s) /\ Shrinks(s)
                        /\ \A m \in Range(conn[s].outgoing) \ Range(conn'[s].outgoing) :
                              /\ conn'[s].phase = "Failed" \/ m.feature.id \in conn'[s].failed
                              /\ \A other \in Range(conn'[s].outgoing) :
                                    other.feature.id # m.feature.id,
           UNCHANGED <<frozen, host, local, pump, control, sent, delivered>>,
           Discards, hellos' \in [Slots -> Nat], count' \in Counts,
           count'.peers = count.peers, count'.sends = count.sends,
           count'.arrivals = count.arrivals
    PROVE  Done
<1>1. ASSUME NEW t \in Slots
      PROVE  /\ (Lasts(t) /\ Shrinks(t)) \/ Fresh(t)
             /\ Lasts(t) \/ conn'[t].id = 0
  <2>1. CASE t \in S
    BY <2>1
  <2>2. CASE t \notin S
    <3>1. conn'[t] = conn[t]
      BY <2>2
    <3>2. (Lasts(t) /\ Shrinks(t)) \/ Fresh(t)
      BY <3>1, SlotStays DEF IInv
    <3>3. conn[t].id # 0 => Lasts(t)
      BY <3>1 DEF Lasts
    <3> QED
      BY <3>1, <3>2, <3>3
  <2> QED
    BY <2>1, <2>2
<1>2. Whole
  <2> SUFFICES ASSUME NEW t \in Slots \ S
               PROVE  Range(conn[t].outgoing) \ Range(conn'[t].outgoing) = {}
    BY DEF Whole
  <2> QED
    OBVIOUS
<1>3. Loses
  BY <1>1, <1>2, PeersKnown DEF Loses, Tidy, IInv
<1>4. Shapes'
  <2>1. incoming' \in Seq(Incoming)
    BY DiscardsShrink DEF IInv
  <2> QED
    BY <2>1 DEF IInv, Shapes
<1>5. Endpoints'
  BY <1>1, EndpointsLast DEF IInv
<1> QED
  BY <1>3, <1>4, <1>5, LosesDone

LEMMA QuietDone ==
    ASSUME IInv, UNCHANGED <<frozen, conn, host, local, incoming, pump, control, sent,
                             delivered, count>>,
           hellos' \in [Slots -> Nat]
    PROVE  Done
<1>1. conn' \in [Slots -> Connections] /\ count' \in Counts
  BY DEF IInv, Shapes
<1>2. {} \in SUBSET Live
  OBVIOUS
<1> QED
  BY <1>1, <1>2, SlotsDone DEF Discards

LEMMA KeptHellos == Shapes => HellosAfterExpiry \subseteq [Slots -> Nat]
BY DEF Shapes, HellosAfterExpiry

LEMMA HellosDone == IInv /\ (ExpireHellos \/ \E s \in Slots : RetainHello(s)) => Done
<1>1. ASSUME IInv, ExpireHellos PROVE Done
  BY <1>1, KeptHellos, QuietDone DEF ExpireHellos, IInv
<1>2. ASSUME IInv, NEW s \in Slots, RetainHello(s) PROVE Done
  <2>1. PICK kept \in HellosAfterExpiry, charge \in HelloCharges :
          hellos' = [kept EXCEPT ![s] = charge] \/ hellos' = kept
    BY <1>2 DEF RetainHello
  <2>2. charge \in Nat
    BY MessageQueuesAssumption
  <2>3. hellos' \in [Slots -> Nat]
    BY <1>2, <2>1, <2>2, KeptHellos DEF IInv
  <2> QED
    BY <1>2, <2>3, QuietDone DEF RetainHello
<1> QED
  BY <1>1, <1>2

LEMMA Counted ==
    ASSUME Shapes, NEW name \in {"sessions", "faults"},
           count' = [count EXCEPT ![name] = @ + 1]
    PROVE  /\ count' \in Counts
           /\ count'.peers = count.peers /\ count'.sends = count.sends
           /\ count'.arrivals = count.arrivals
BY DEF Shapes, Counts

LEMMA FailedIs ==
    ASSUME NEW c \in Connections
    PROVE  /\ Failed(c) \in Connections /\ Failed(c).phase = "Failed"
           /\ Failed(c).outgoing = <<>> /\ Failed(c).id = c.id
           /\ Failed(c).failed = c.failed /\ Failed(c).supported = c.supported
<1>1. <<>> \in Seq(Outgoing) /\ "Failed" \in Phases
  BY DEF Phases
<1>2. Failed(c) \in Connections
  BY <1>1 DEF Failed, Connections
<1>3. /\ Failed(c).phase = "Failed" /\ Failed(c).outgoing = <<>> /\ Failed(c).id = c.id
      /\ Failed(c).failed = c.failed /\ Failed(c).supported = c.supported
  BY <1>1 DEF Failed, Connections
<1> QED
  BY <1>2, <1>3

(* Connections fail with all of their messages.                            *)
LEMMA FailedSlots ==
    ASSUME Shapes, NEW S \in SUBSET Live, conn' \in [Slots -> Connections],
           \A s \in S : conn'[s] = Failed(conn[s]), host' = host, frozen' = frozen
    PROVE  \A s \in S : /\ Lasts(s) /\ Shrinks(s)
                        /\ conn'[s].phase = "Failed" /\ conn'[s].outgoing = <<>>
                        /\ Range(conn'[s].outgoing) = {}
<1> SUFFICES ASSUME NEW s \in S
             PROVE  /\ Lasts(s) /\ Shrinks(s)
                    /\ conn'[s].phase = "Failed" /\ conn'[s].outgoing = <<>>
                    /\ Range(conn'[s].outgoing) = {}
  OBVIOUS
<1>1. conn[s] \in Connections /\ conn[s].id # 0 /\ conn'[s] = Failed(conn[s])
  BY PeersKnown DEF Live
<1> QED
  BY <1>1, FailedIs, EmptyQueue DEF Lasts, Shrinks

LEMMA OneFails ==
    ASSUME Shapes, Outbound, NEW s \in Slots, s \in Live,
           conn' = [conn EXCEPT ![s] = Failed(@)], host' = host, frozen' = frozen
    PROVE  /\ conn' \in [Slots -> Connections] /\ {s} \in SUBSET Live
           /\ \A t \in Slots \ {s} : conn'[t] = conn[t]
           /\ \A t \in {s} : /\ Lasts(t) /\ Shrinks(t)
                            /\ conn'[t].phase = "Failed" /\ conn'[t].outgoing = <<>>
                            /\ Range(conn'[t].outgoing) = {}
           /\ Tidy
           /\ incoming' = Without(incoming, Arrived({s})) => Discards
<1>1. /\ conn' \in [Slots -> Connections] /\ conn'[s] = Failed(conn[s])
      /\ \A t \in Slots \ {s} : conn'[t] = conn[t]
  BY FailedIs DEF Shapes
<1>2. {s} \in SUBSET Live
  OBVIOUS
<1>3. \A t \in {s} : /\ Lasts(t) /\ Shrinks(t)
                     /\ conn'[t].phase = "Failed" /\ conn'[t].outgoing = <<>>
                     /\ Range(conn'[t].outgoing) = {}
  BY <1>1, <1>2, FailedSlots
<1>4. Tidy
  <2> SUFFICES ASSUME NEW t \in Slots, t # s PROVE (Lasts(t) /\ Shrinks(t)) \/ Fresh(t)
    BY <1>3 DEF Tidy
  <2> QED
    BY <1>1, SlotStays
<1>5. incoming' = Without(incoming, Arrived({s})) => Discards
  BY <1>3 DEF Discards
<1> QED
  BY <1>1, <1>2, <1>3, <1>4, <1>5

LEMMA FailuresDone ==
    IInv /\ (CarrierFailed \/ \E s \in Slots : ConnectionFails(s)) => Done
<1>1. ASSUME IInv, CarrierFailed PROVE Done
  <2> DEFINE remote == {s \in Slots : Remote(s)}
  <2>1. /\ conn' = [s \in Slots |-> IF s \in remote THEN Failed(conn[s]) ELSE conn[s]]
        /\ incoming' = Without(incoming, Arrived(remote)) /\ hellos' = NoHellos
        /\ count' = [count EXCEPT !.faults = @ + 1]
        /\ UNCHANGED <<frozen, host, local, pump, control, sent, delivered>>
    BY <1>1 DEF CarrierFailed, Discard
  <2>2. remote \in SUBSET Live /\ remote \in SUBSET Slots
    BY DEF Remote, Live
  <2> HIDE DEF remote
  <2>3. /\ conn' \in [Slots -> Connections]
        /\ \A s \in remote : conn'[s] = Failed(conn[s])
        /\ \A t \in Slots \ remote : conn'[t] = conn[t]
    <3>1. \A s \in Slots : conn[s] \in Connections /\ Failed(conn[s]) \in Connections
      BY <1>1, PeersKnown, FailedIs DEF IInv
    <3> QED
      BY <2>1, <2>2, <3>1
  <2>4. \A s \in remote : /\ Lasts(s) /\ Shrinks(s)
                          /\ conn'[s].phase = "Failed" /\ conn'[s].outgoing = <<>>
                          /\ Range(conn'[s].outgoing) = {}
    BY <1>1, <2>1, <2>2, <2>3, FailedSlots DEF IInv
  <2>5. Discards
    BY <2>1, <2>2, <2>4 DEF Discards
  <2>6. hellos' \in [Slots -> Nat]
    BY <2>1 DEF NoHellos
  <2>7. /\ count' \in Counts /\ count'.peers = count.peers /\ count'.sends = count.sends
        /\ count'.arrivals = count.arrivals
    BY <1>1, <2>1, Counted DEF IInv
  <2> QED
    BY <1>1, <2>1, <2>2, <2>3, <2>4, <2>5, <2>6, <2>7, SlotsDone
<1>2. ASSUME IInv, NEW s \in Slots, ConnectionFails(s) PROVE Done
  <2>1. /\ conn' = [conn EXCEPT ![s] = Failed(@)] /\ s \in Live
        /\ incoming' = Without(incoming, Arrived({s})) /\ hellos' = hellos
        /\ count' = [count EXCEPT !.faults = @ + 1]
        /\ UNCHANGED <<frozen, host, local, pump, control, sent, delivered>>
    BY <1>2 DEF ConnectionFails, Discard, Remote
  <2>2. /\ conn' \in [Slots -> Connections] /\ {s} \in SUBSET Live
        /\ \A t \in Slots \ {s} : conn'[t] = conn[t]
        /\ \A t \in {s} : /\ Lasts(t) /\ Shrinks(t)
                         /\ conn'[t].phase = "Failed" /\ conn'[t].outgoing = <<>>
                         /\ Range(conn'[t].outgoing) = {}
        /\ Discards
    BY <1>2, <2>1, OneFails DEF IInv
  <2>3. hellos' \in [Slots -> Nat]
    BY <1>2, <2>1 DEF IInv, Shapes
  <2>4. /\ count' \in Counts /\ count'.peers = count.peers /\ count'.sends = count.sends
        /\ count'.arrivals = count.arrivals
    BY <1>2, <2>1, Counted DEF IInv
  <2> QED
    BY ZenonT(120), <1>2, <2>1, <2>2, <2>3, <2>4, SlotsDone
<1> QED
  BY <1>1, <1>2

LEMMA NegotiateDone ==
    ASSUME IInv, NEW s \in Slots, Negotiate(s)
    PROVE  Done
<1>1. /\ UNCHANGED <<frozen, host, local, hellos, incoming, pump, control, sent, delivered, count>>
      /\ s \in Live /\ {s} \in SUBSET Live
  BY DEF Negotiate, Remote
<1>2. \E phase \in Phases, supported \in SUBSET Ids :
        /\ conn' = [conn EXCEPT ![s] = [conn[s] EXCEPT !.phase = phase, !.supported = supported]]
        /\ conn[s].phase \in {"Pending", "Ready"} /\ phase # "Pending"
        /\ conn[s].phase # "Pending" => supported = conn[s].supported
  <2>1. conn[s] \in Connections /\ conn[s].supported \in SUBSET Ids
    BY PeersKnown DEF IInv, Connections
  <2>2. CASE /\ conn[s].phase = "Pending"
             /\ \E supported \in SUBSET Paths :
                  conn' = [conn EXCEPT
                    ![s].phase = IF Mode = "Client" THEN "Ready" ELSE "Established",
                    ![s].supported = supported]
    <3>1. PICK supported \in SUBSET Paths :
                  conn' = [conn EXCEPT
                    ![s].phase = IF Mode = "Client" THEN "Ready" ELSE "Established",
                    ![s].supported = supported]
      BY <2>2
    <3>2. supported \in SUBSET Ids
      BY DEF Paths, Ids, IInv, Shapes
    <3>3. PICK phase \in Phases :
            phase # "Pending" /\ phase = IF Mode = "Client" THEN "Ready" ELSE "Established"
      BY DEF Phases
    <3>4. conn' = [conn EXCEPT ![s] = [conn[s] EXCEPT !.phase = phase, !.supported = supported]]
      BY <3>1, <3>3
    <3> QED
      BY <2>2, <3>2, <3>3, <3>4
  <2>3. CASE \/ conn[s].phase = "Ready" /\ conn' = [conn EXCEPT ![s].phase = "Established"]
             \/ conn[s].phase \in {"Pending", "Ready"} /\ conn' = [conn EXCEPT ![s].phase = "Expired"]
    <3>1. PICK phase \in {"Established", "Expired"} :
            conn[s].phase \in {"Pending", "Ready"} /\ conn' = [conn EXCEPT ![s].phase = phase]
      BY <2>3
    <3>2. [conn[s] EXCEPT !.phase = phase]
            = [conn[s] EXCEPT !.phase = phase, !.supported = conn[s].supported]
      BY <2>1 DEF Connections
    <3>3. phase \in Phases /\ phase # "Pending"
      BY DEF Phases
    <3>4. conn' = [conn EXCEPT ![s] = [conn[s] EXCEPT !.phase = phase, !.supported = conn[s].supported]]
      BY <3>1, <3>2
    <3> QED
      BY <2>1, <3>1, <3>3, <3>4
  <2> QED
    BY <2>2, <2>3 DEF Negotiate
<1>3. PICK phase \in Phases, supported \in SUBSET Ids :
        /\ conn' = [conn EXCEPT ![s] = [conn[s] EXCEPT !.phase = phase, !.supported = supported]]
        /\ conn[s].phase \in {"Pending", "Ready"} /\ phase # "Pending"
        /\ conn[s].phase # "Pending" => supported = conn[s].supported
  BY <1>2
<1>4. /\ conn' \in [Slots -> Connections]
      /\ \A t \in Slots \ {s} : conn'[t] = conn[t]
      /\ conn'[s].id = conn[s].id /\ conn'[s].phase = phase /\ conn'[s].supported = supported
      /\ conn'[s].failed = conn[s].failed /\ conn'[s].outgoing = conn[s].outgoing
  <2>1. \A c \in Connections :
          LET d == [c EXCEPT !.phase = phase, !.supported = supported]
          IN  /\ d \in Connections /\ d.id = c.id /\ d.phase = phase /\ d.supported = supported
              /\ d.failed = c.failed /\ d.outgoing = c.outgoing
    BY DEF Connections
  <2> QED
    BY <1>3, <2>1 DEF IInv, Shapes
<1>5. Lasts(s) /\ Shrinks(s)
  BY <1>1, <1>3, <1>4 DEF Lasts, Shrinks, Live, IInv, Outbound
<1>6. hellos' \in [Slots -> Nat] /\ count' \in Counts
  BY <1>1 DEF IInv, Shapes
<1> QED
  BY <1>1, <1>4, <1>5, <1>6, SlotsDone DEF Discards

LEMMA FeatureFails ==
    ASSUME IInv, NEW s \in Live, NEW f \in Ids, NEW notice \in SUBSET Ids,
           NEW queue \in Seq(Outgoing), Increasing(queue),
           \/ queue = conn[s].outgoing
           \/ Range(queue) = {m \in Range(conn[s].outgoing) : m.feature.id # f},
           conn' = [conn EXCEPT ![s] = [conn[s] EXCEPT !.failed = conn[s].failed \cup {f},
                                                       !.notice = notice, !.outgoing = queue]],
           UNCHANGED <<frozen, host, local, hellos, incoming, pump, control, sent, delivered>>,
           count' = [count EXCEPT !.faults = @ + 1]
    PROVE  Done
<1>1. /\ conn' \in [Slots -> Connections]
      /\ \A t \in Slots \ {s} : conn'[t] = conn[t]
      /\ conn'[s].id = conn[s].id /\ conn'[s].phase = conn[s].phase
      /\ conn'[s].supported = conn[s].supported
      /\ conn'[s].failed = conn[s].failed \cup {f} /\ conn'[s].outgoing = queue
  <2>1. \A c \in Connections :
          LET d == [c EXCEPT !.failed = c.failed \cup {f}, !.notice = notice, !.outgoing = queue]
          IN  /\ d \in Connections /\ d.id = c.id /\ d.phase = c.phase
              /\ d.supported = c.supported
              /\ d.failed = c.failed \cup {f} /\ d.outgoing = queue
    BY DEF Connections
  <2>2. s \in Slots /\ conn \in [Slots -> Connections]
    BY DEF Live, IInv, Shapes
  <2> QED
    BY <2>1, <2>2
<1>2. Lasts(s) /\ Shrinks(s) /\ {s} \in SUBSET Live
  BY <1>1 DEF Lasts, Shrinks, Live
<1>3. ASSUME NEW m \in Range(conn[s].outgoing) \ Range(conn'[s].outgoing)
      PROVE  /\ conn'[s].phase = "Failed" \/ m.feature.id \in conn'[s].failed
             /\ \A other \in Range(conn'[s].outgoing) : other.feature.id # m.feature.id
  BY <1>1, <1>3
<1>4. conn' \in [Slots -> Connections] /\ \A t \in Slots \ {s} : conn'[t] = conn[t]
  BY <1>1
<1>5. /\ hellos' \in [Slots -> Nat] /\ count' \in Counts /\ count'.peers = count.peers
      /\ count'.sends = count.sends /\ count'.arrivals = count.arrivals
  BY Counted DEF IInv, Shapes
<1>6. \A t \in {s} : /\ Lasts(t) /\ Shrinks(t)
                     /\ \A m \in Range(conn[t].outgoing) \ Range(conn'[t].outgoing) :
                           /\ conn'[t].phase = "Failed" \/ m.feature.id \in conn'[t].failed
                           /\ \A other \in Range(conn'[t].outgoing) :
                                 other.feature.id # m.feature.id
  BY <1>2, <1>3
<1>7. Discards
  BY DEF Discards
<1> QED
  BY <1>2, <1>4, <1>5, <1>6, <1>7, SlotsDone

LEMMA PeerFailsDone ==
    ASSUME IInv, NEW s \in Slots, PeerFails(s)
    PROVE  Done
<1>1. PICK f \in Paths :
        conn' = [conn EXCEPT ![s].failed = @ \cup {f}, ![s].notice = @ \ {f}]
  BY DEF PeerFails
<1>2. /\ UNCHANGED <<frozen, host, local, hellos, incoming, pump, control, sent, delivered>>
      /\ s \in Live /\ count' = [count EXCEPT !.faults = @ + 1]
  BY DEF PeerFails, Remote
<1>3. f \in Ids
  BY DEF Paths, Ids, IInv, Shapes
<1>4. conn[s] \in Connections /\ conn[s].notice \ {f} \in SUBSET Ids
  BY PeersKnown DEF IInv, Connections
<1>5. conn[s].outgoing \in Seq(Outgoing) /\ Increasing(conn[s].outgoing)
  BY PeersKnown DEF IInv, Outbound
<1>6. conn' = [conn EXCEPT ![s] = [conn[s] EXCEPT !.failed = conn[s].failed \cup {f},
                                                  !.notice = conn[s].notice \ {f},
                                                  !.outgoing = conn[s].outgoing]]
  <2>1. [conn[s] EXCEPT !.failed = @ \cup {f}, !.notice = @ \ {f}]
          = [conn[s] EXCEPT !.failed = conn[s].failed \cup {f}, !.notice = conn[s].notice \ {f},
                            !.outgoing = conn[s].outgoing]
    BY <1>4 DEF Connections
  <2>2. conn' = [conn EXCEPT ![s] = [conn[s] EXCEPT !.failed = @ \cup {f}, !.notice = @ \ {f}]]
    BY <1>1
  <2> QED
    BY <2>1, <2>2
<1> QED
  BY <1>2, <1>3, <1>4, <1>5, <1>6, FeatureFails

LEMMA FailDone ==
    ASSUME IInv, NEW o \in Objects, NEW peer, Fail(o, peer)
    PROVE  Done
<1>1. PICK s \in Route(o, peer) :
        LET own == {m \in Range(conn[s].outgoing) : m.feature.id = o.id}
        IN  conn' = [conn EXCEPT
                      ![s].failed = @ \cup {o.id},
                      ![s].notice = IF IsLocal(s) THEN @ ELSE @ \cup {o.id},
                      ![s].outgoing = Without(@, own)]
  BY DEF Fail
<1>2. /\ UNCHANGED <<frozen, host, local, hellos, incoming, pump, control, sent, delivered>>
      /\ count' = [count EXCEPT !.faults = @ + 1]
  BY DEF Fail
<1>3. s \in Live /\ s \in Slots /\ o.id \in Ids
  BY DEF Route, Live, Ids
<1> DEFINE own == {m \in Range(conn[s].outgoing) : m.feature.id = o.id}
           queue == Without(conn[s].outgoing, own)
           notice == IF IsLocal(s) THEN conn[s].notice ELSE conn[s].notice \cup {o.id}
<1>4. conn[s] \in Connections /\ notice \in SUBSET Ids
  BY <1>3, PeersKnown DEF IInv, Connections
<1>5. queue \in Seq(Outgoing) /\ Increasing(queue) /\ Range(queue) = Range(conn[s].outgoing) \ own
  <2>1. conn[s].outgoing \in Seq(Outgoing) /\ Increasing(conn[s].outgoing) /\ Numbered(Outgoing)
    BY <1>3, PeersKnown DEF IInv, Outbound, Numbered, Outgoing
  <2> HIDE DEF own
  <2> QED
    BY <2>1, LeftInQueue
<1>6. Range(queue) = {m \in Range(conn[s].outgoing) : m.feature.id # o.id}
  <2> HIDE DEF queue
  <2> QED
    BY <1>5
<1>7. conn' = [conn EXCEPT ![s] = [conn[s] EXCEPT !.failed = conn[s].failed \cup {o.id},
                                                  !.notice = notice, !.outgoing = queue]]
  <2>1. conn' = [conn EXCEPT
                      ![s].failed = @ \cup {o.id},
                      ![s].notice = IF IsLocal(s) THEN @ ELSE @ \cup {o.id},
                      ![s].outgoing = Without(@, own)]
    BY <1>1
  <2>2. [conn[s] EXCEPT !.failed = @ \cup {o.id},
                        !.notice = IF IsLocal(s) THEN @ ELSE @ \cup {o.id},
                        !.outgoing = Without(@, own)]
          = [conn[s] EXCEPT !.failed = conn[s].failed \cup {o.id}, !.notice = notice, !.outgoing = queue]
    BY <1>4 DEF Connections
  <2> QED
    BY <2>1, <2>2
<1> HIDE DEF queue, notice
<1> QED
  BY <1>2, <1>3, <1>4, <1>5, <1>6, <1>7, FeatureFails

-----------------------------------------------------------------------------
(* Messages come. *)

LEMMA SendDone ==
    ASSUME IInv, NEW o \in Objects, NEW peer \in Nat, Send(o, peer)
    PROVE  Done
<1>1. PICK size \in Sizes, s \in Route(o, peer) :
        conn' = [conn EXCEPT ![s].outgoing =
                   Append(@, [n |-> count.sends + 1, feature |-> o, peer |-> peer, size |-> size])]
  BY DEF Send
<1> DEFINE m == [n |-> count.sends + 1, feature |-> o, peer |-> peer, size |-> size]
<1>2. /\ s \in Slots /\ s \in Live /\ Serves(s, o, peer)
      /\ conn[s].phase = "Established" /\ o.id \notin conn[s].failed
  <2>1. s \in Slots /\ s \in Live
    BY DEF Route, Live
  <2> QED
    BY <2>1, CompatibleServes DEF IInv, Send
<1>3. /\ m \in Outgoing /\ m.n = count.sends + 1 /\ m.feature = o /\ m.peer = peer
      /\ count.sends \in Nat /\ 0 < m.n
  BY PeersKnown DEF Outgoing, IInv
<1> HIDE DEF m
<1>4. /\ conn' = [conn EXCEPT ![s].outgoing = Append(@, m)]
      /\ UNCHANGED <<frozen, host, local, hellos, incoming, pump, control, sent, delivered>>
      /\ count' = [count EXCEPT !.sends = @ + 1]
  BY <1>1 DEF Send, m
<1>5. /\ count' \in Counts /\ count'.peers = count.peers /\ count'.arrivals = count.arrivals
      /\ count'.sends = m.n
  <2>1. count \in Counts
    BY DEF IInv, Shapes
  <2> QED
    BY <1>3, <1>4, <2>1 DEF Counts
<1>6. /\ conn[s].outgoing \in Seq(Outgoing) /\ Increasing(conn[s].outgoing)
      /\ Numbered(Outgoing)
      /\ \A other \in Range(conn[s].outgoing) : other.n < m.n
  <2>1. conn[s].outgoing \in Seq(Outgoing) /\ Increasing(conn[s].outgoing)
    BY <1>2, PeersKnown DEF IInv, Outbound
  <2>2. \A t \in Slots : \A k \in Range(conn[t].outgoing) : k.n \in Nat /\ k.n <= count.sends
    BY PeersKnown DEF IInv, Outbound, Outgoing
  <2> QED
    BY <1>2, <1>3, <2>1, <2>2 DEF Numbered, Outgoing
<1>7. /\ Append(conn[s].outgoing, m) \in Seq(Outgoing)
      /\ Range(Append(conn[s].outgoing, m)) = Range(conn[s].outgoing) \cup {m}
      /\ Increasing(Append(conn[s].outgoing, m))
  BY <1>3, <1>6, AppendedQueue
<1>8. /\ conn' \in [Slots -> Connections]
      /\ \A t \in Slots \ {s} : conn'[t] = conn[t]
      /\ conn'[s].id = conn[s].id /\ conn'[s].phase = conn[s].phase
      /\ conn'[s].supported = conn[s].supported /\ conn'[s].failed = conn[s].failed
      /\ conn'[s].outgoing = Append(conn[s].outgoing, m)
  BY <1>2, <1>4, <1>7, NewQueue DEF IInv
<1>9. /\ Range(conn'[s].outgoing) = Range(conn[s].outgoing) \cup {m}
      /\ Increasing(conn'[s].outgoing)
  BY <1>7, <1>8
<1>10. ASSUME NEW t \in Slots
       PROVE  /\ Lasts(t) \/ Fresh(t)
              /\ Lasts(t) \/ conn'[t].id = 0
              /\ conn'[t].id = conn[t].id
  <2>1. CASE t = s
    BY <1>2, <1>4, <1>8, <2>1 DEF Lasts, Live
  <2>2. CASE t # s
    <3>1. conn'[t] = conn[t]
      BY <1>8, <2>2
    <3>2. Lasts(t) \/ Fresh(t)
      BY <1>4, <3>1, SlotStays DEF IInv
    <3>3. conn[t].id # 0 => Lasts(t)
      BY <1>4, <3>1 DEF Lasts
    <3> QED
      BY <3>1, <3>2, <3>3
  <2> QED
    BY <2>1, <2>2
<1>11. Shapes'
  BY <1>4, <1>5, <1>8 DEF IInv, Shapes
<1>12. Endpoints'
  BY <1>4, <1>5, <1>10, EndpointsLast DEF IInv
<1>13. Outbound'
  <2>1. \A t \in Slots : Increasing(conn'[t].outgoing)
    BY <1>8, <1>9 DEF IInv, Outbound
  <2>2. ASSUME NEW t \in Slots, NEW k \in Range(conn'[t].outgoing)
        PROVE  /\ 0 < k.n /\ k.n <= count'.sends
               /\ conn'[t].phase = "Established"
               /\ Serves(t, k.feature, k.peer)'
    <3>1. CASE t = s /\ k = m
      <4>1. Lasts(s)
        BY <1>2, <1>4, <1>8 DEF Lasts, Live
      <4>2. Serves(s, o, peer)'
        BY <1>2, <1>11, <1>12, <4>1, ServesLasts DEF IInv
      <4> QED
        BY <1>2, <1>3, <1>5, <1>8, <3>1, <4>2
    <3>2. CASE ~(t = s /\ k = m)
      <4>1. k \in Range(conn[t].outgoing) /\ conn'[t].phase = conn[t].phase
        BY <1>8, <1>9, <3>2
      <4>2. /\ 0 < k.n /\ k.n <= count.sends /\ k.n \in Nat /\ k.feature \in Objects
            /\ conn[t].phase = "Established" /\ Serves(t, k.feature, k.peer)
        BY <4>1, PeersKnown DEF IInv, Outbound, Outgoing
      <4>3. Lasts(t)
        BY <1>10, <4>2 DEF Serves, Lasts
      <4>4. Serves(t, k.feature, k.peer)'
        BY <1>11, <1>12, <4>2, <4>3, ServesLasts DEF IInv
      <4> QED
        BY <1>3, <1>5, <4>1, <4>2, <4>4
    <3> QED
      BY <3>1, <3>2
  <2>3. ASSUME NEW t \in Slots, NEW u \in Slots, NEW k \in Range(conn'[t].outgoing),
               NEW other \in Range(conn'[u].outgoing), k.n = other.n
        PROVE  t = u
    <3>1. \A v \in Slots : \A j \in Range(conn[v].outgoing) : j.n # m.n
      <4>1. \A v \in Slots : \A j \in Range(conn[v].outgoing) : j.n \in Nat /\ j.n <= count.sends
        BY PeersKnown DEF IInv, Outbound, Outgoing
      <4> QED
        BY <1>3, <4>1
    <3>2. \A v \in Slots : \A j \in Range(conn'[v].outgoing) :
            j \in Range(conn[v].outgoing) \/ (v = s /\ j = m)
      BY <1>8, <1>9
    <3> QED
      BY <2>3, <3>1, <3>2 DEF IInv, Outbound
  <2> QED
    BY <2>1, <2>2, <2>3 DEF Outbound
<1>14. Submitted'
  <2> SUFFICES ASSUME pump.at = "Submitting", pump.sub.result = "Accepted",
                      NEW frame, frame = pump.sub.frame, NEW p, p = pump.peer,
                      frame.kind # "Notice"
               PROVE  Held(frame, p)'
    BY <1>4 DEF Submitted, Held, IInv
  <2>1. /\ 0 < frame.n /\ frame.n <= count.sends /\ 0 < p /\ p <= count.peers
        /\ \A t \in Slots :
             IF conn[t].id = p THEN Front(conn[t], frame) \/ Gone(conn[t], frame)
             ELSE \A k \in Range(conn[t].outgoing) : k.n # frame.n
    BY DEF IInv, Submitted, Held
  <2>2. frame.n \in Nat
    BY DEF IInv, Shapes, Pumps, PumpIdle, Submissions, Frames
  <2>3. frame.n < m.n /\ frame.n <= count'.sends
    BY <1>3, <1>5, <2>1, <2>2
  <2>4. ASSUME NEW t \in Slots
        PROVE  IF conn'[t].id = p THEN Front(conn'[t], frame) \/ Gone(conn'[t], frame)
               ELSE \A k \in Range(conn'[t].outgoing) : k.n # frame.n
    <3>1. CASE t # s
      BY <1>8, <2>1, <3>1
    <3>2. CASE t = s
      <4>1. CASE conn[s].id # p
        <5>1. \A k \in Range(conn[s].outgoing) : k.n # frame.n
          BY <1>2, <2>1, <4>1
        <5>2. m.n # frame.n
          BY <1>3, <2>2, <2>3
        <5>3. \A k \in Range(conn'[s].outgoing) : k.n # frame.n
          BY <1>9, <5>1, <5>2
        <5> QED
          BY <1>8, <3>2, <4>1, <5>3
      <4>2. CASE conn[s].id = p /\ Front(conn[s], frame)
        <5>1. PICK k \in Range(conn[s].outgoing) :
                /\ k.n = frame.n /\ k.feature.id = frame.feature
                /\ \A other \in Range(conn[s].outgoing) : k.n <= other.n
          BY <4>2 DEF Front
        <5>2. \A other \in Range(conn'[s].outgoing) : k.n <= other.n
          BY <1>3, <1>9, <2>2, <2>3, <5>1
        <5>3. Front(conn'[s], frame)
          BY <1>9, <5>1, <5>2 DEF Front
        <5> QED
          BY <1>8, <3>2, <4>2, <5>3
      <4>3. CASE conn[s].id = p /\ Gone(conn[s], frame)
        <5>1. frame.feature \in conn[s].failed
          BY <1>2, <4>3 DEF Gone
        <5>2. m.feature.id # frame.feature /\ m.n # frame.n
          BY <1>2, <1>3, <2>2, <2>3, <5>1
        <5>3. Gone(conn'[s], frame)
          BY <1>8, <1>9, <4>3, <5>2 DEF Gone
        <5> QED
          BY <1>8, <3>2, <4>3, <5>3
      <4> QED
        BY <1>2, <2>1, <4>1, <4>2, <4>3
    <3> QED
      BY <3>1, <3>2
  <2> QED
    BY <1>5, <2>1, <2>3, <2>4 DEF Held
<1>15. Inbound' /\ Inbox!Drop
  <2>1. Continues /\ Discards
    BY <1>4, <1>10 DEF Continues, Discards
  <2> QED
    BY <1>4, <1>5, <1>11, <1>12, <2>1, PeersKnown, InboxLoses DEF IInv
<1>16. OutPuts(s, m)
  BY <1>2, <1>3, <1>4, <1>5 DEF OutPuts, Live
<1>17. \E l \in 1..MaxPeers : Outbox!Put(l)
  BY <1>2, <1>11, <1>16, OutPutsPuts DEF IInv
<1> QED
  BY <1>11, <1>12, <1>13, <1>14, <1>15, <1>17 DEF Done, IInv, Outbox!Next, Inbox!Next

LEMMA InboxGrows ==
    ASSUME IInv, Shapes', Endpoints', Continues,
           NEW s \in Slots, NEW m \in Incoming, Lasts(s),
           m.n = count.arrivals + 1, m.connection = conn[s].id,
           Serves(s, m.feature, m.peer), conn[s].phase \in {"Ready", "Established"},
           m.feature.id \notin conn[s].failed,
           \A t \in Slots : /\ conn'[t].id = conn[t].id
                            /\ conn'[t].phase = conn[t].phase /\ conn'[t].failed = conn[t].failed,
           incoming' = Append(incoming, m), control' = control, delivered' = delivered,
           count'.arrivals = m.n, count'.peers = count.peers
    PROVE  Inbound' /\ Inbox!Put("incoming")
<1>1. /\ count.arrivals \in Nat /\ count.peers \in Nat
      /\ m.feature \in Objects /\ m.feature.id \in Ids /\ m.n \in Nat /\ m.connection \in Nat
      /\ conn[s].id # 0 /\ conn[s].id <= count.peers /\ count.peers <= MaxPeers
      /\ MaxPeers \in Nat
  BY SMTT(60), PeersKnown, MessageQueuesAssumption DEF IInv, Incoming, Ids, Lasts, Endpoints, Live
<1>2. Hand' = Hand
  BY DEF Hand
<1>3. count'.arrivals >= count.arrivals /\ count'.peers >= count.peers
  BY <1>1
<1>4. \A k \in Range(incoming) \cup Hand :
        /\ k.n \in Nat /\ 0 < k.n /\ k.n <= count'.arrivals
        /\ 0 < k.connection /\ k.connection <= count'.peers
        /\ \A t \in Slots : conn'[t].id = k.connection =>
              /\ Lasts(t) /\ conn[t].id = k.connection
              /\ conn'[t].phase # "Pending" /\ Serves(t, k.feature, k.peer)'
  BY <1>3, ArrivedKept DEF IInv, Continues
<1>5. \A k \in Range(incoming) \cup Hand : k.n < m.n
  <2> SUFFICES ASSUME NEW k \in Range(incoming) \cup Hand PROVE k.n < m.n
    OBVIOUS
  <2>1. k.n \in Nat /\ k.n <= count.arrivals
    BY <1>4 DEF IInv, Inbound
  <2> QED
    BY <1>1, <2>1
<1>6. /\ Range(incoming') = Range(incoming) \cup {m} /\ Increasing(incoming')
  <2>1. incoming \in Seq(Incoming) /\ Increasing(incoming) /\ Numbered(Incoming)
    BY DEF IInv, Shapes, Inbound, Numbered, Incoming
  <2>2. \A k \in Range(incoming) : k.n < m.n
    BY <1>5
  <2> QED
    BY <2>1, <2>2, AppendedQueue
<1>7. /\ 0 < m.n /\ m.n <= count'.arrivals /\ 0 < m.connection /\ m.connection <= count'.peers
      /\ \A t \in Slots : conn'[t].id = m.connection =>
            conn'[t].phase # "Pending" /\ Serves(t, m.feature, m.peer)'
  <2>1. \A t \in Slots : conn'[t].id = m.connection => t = s
    BY <1>1 DEF IInv, Endpoints, Live
  <2>2. Serves(s, m.feature, m.peer)'
    BY <1>1, ServesLasts DEF IInv
  <2> QED
    BY <1>1, <2>1, <2>2
<1>8. Inbound'
  <2>1. \A k \in Range(incoming') \cup Hand' :
          /\ 0 < k.n /\ k.n <= count'.arrivals
          /\ 0 < k.connection /\ k.connection <= count'.peers
          /\ \A t \in Slots : conn'[t].id = k.connection =>
                conn'[t].phase # "Pending" /\ Serves(t, k.feature, k.peer)'
    <3> SUFFICES ASSUME NEW k \in Range(incoming') \cup Hand'
                 PROVE  /\ 0 < k.n /\ k.n <= count'.arrivals
                        /\ 0 < k.connection /\ k.connection <= count'.peers
                        /\ \A t \in Slots : conn'[t].id = k.connection =>
                              conn'[t].phase # "Pending" /\ Serves(t, k.feature, k.peer)'
      OBVIOUS
    <3>1. CASE k = m
      BY <1>7, <3>1
    <3>2. CASE k # m
      <4>1. k \in Range(incoming) \cup Hand
        BY <1>2, <1>6, <3>2
      <4> QED
        BY <1>4, <4>1
    <3> QED
      BY <3>1, <3>2
  <2>2. \A k \in Range(incoming'), h \in Hand' : h.n < k.n
    BY <1>2, <1>5, <1>6 DEF IInv, Inbound
  <2>3. \A h \in Hand', t \in Slots : conn'[t].id = h.connection =>
          conn'[t].phase # "Ready" \/ h.feature.id \in conn'[t].failed
    BY <1>2 DEF IInv, Inbound
  <2>4. control'.at = "Calling" => control'.callback # 0
    BY DEF IInv, Inbound
  <2> QED
    BY <1>6, <2>1, <2>2, <2>3, <2>4 DEF Inbound
<1>9. Closed' = Closed
  BY ClosedSame
<1>10. <<m.connection, m.feature.id>> \in ((1..MaxPeers) \X Ids) \ Closed
  <2>1. m.connection \in 1..MaxPeers
    BY <1>1
  <2>2. Open(m.connection, m.feature.id)
    BY <1>1 DEF Open, At, Live
  <2> QED
    BY <1>1, <2>1, <2>2 DEF Closed
<1>11. InPuts(m)
  BY <1>6, <1>9, <1>10 DEF InPuts
<1> QED
  BY <1>8, <1>11, InPutsPuts DEF IInv

LEMMA ReceiveDataDone ==
    ASSUME IInv, NEW s \in Slots, ReceiveData(s)
    PROVE  Done
<1>1. PICK kept \in HellosAfterExpiry, size \in Sizes,
           o \in {x \in Objects : (IF Mode = "Client" THEN "Client" ELSE "Host") \in FrozenRoles(x)} :
        LET m == [n |-> count.arrivals + 1, feature |-> o,
                  peer |-> IF Mode = "Client" THEN host ELSE conn[s].id,
                  connection |-> conn[s].id, size |-> size]
        IN  /\ Accepts(s, o.id)
            /\ hellos' = kept
            /\ \/ /\ incoming' = Append(incoming, m)
                  /\ count' = [count EXCEPT !.arrivals = @ + 1]
                  /\ conn' = conn
               \/ /\ conn' = [conn EXCEPT ![s] = Failed(@)]
                  /\ incoming' = Without(incoming, Arrived({s}))
                  /\ count' = count
  BY DEF ReceiveData, Discard
<1> DEFINE m == [n |-> count.arrivals + 1, feature |-> o,
                 peer |-> IF Mode = "Client" THEN host ELSE conn[s].id,
                 connection |-> conn[s].id, size |-> size]
<1>2. /\ UNCHANGED <<frozen, host, local, pump, control, sent, delivered>>
      /\ s \in Live /\ ~IsLocal(s) /\ ManifestFits /\ conn[s].id # 0
  BY DEF ReceiveData, Remote, Live
<1>3. hellos' \in [Slots -> Nat]
  BY <1>1, KeptHellos DEF IInv
<1>4. /\ m \in Incoming /\ m.n = count.arrivals + 1 /\ m.connection = conn[s].id
      /\ m.feature = o /\ o \in Objects
      /\ m.peer = IF Mode = "Client" THEN host ELSE conn[s].id
      /\ count.arrivals \in Nat
  BY PeersKnown DEF IInv, Incoming, Shapes
<1>5. Accepts(s, o.id)
  BY <1>1
<1> HIDE DEF m
<1>6. CASE /\ incoming' = Append(incoming, m)
           /\ count' = [count EXCEPT !.arrivals = @ + 1]
           /\ conn' = conn
  <2>1. /\ count' \in Counts /\ count'.peers = count.peers /\ count'.sends = count.sends
        /\ count'.arrivals = m.n
    <3>1. count \in Counts
      BY DEF IInv, Shapes
    <3> QED
      BY <1>4, <1>6, <3>1 DEF Counts
  <2>2. \A t \in Slots : (Lasts(t) /\ Shrinks(t)) \/ Fresh(t)
    BY <1>2, <1>6, SlotStays DEF IInv
  <2>3. Shapes'
    <3>1. incoming' \in Seq(Incoming)
      BY <1>4, <1>6 DEF IInv, Shapes
    <3> QED
      BY <1>2, <1>3, <1>6, <2>1, <3>1 DEF IInv, Shapes
  <2>4. Endpoints'
    <3>1. \A t \in Slots : Lasts(t) \/ conn'[t].id = 0
      BY <1>2, <1>6 DEF Lasts
    <3> QED
      BY <1>2, <2>1, <3>1, EndpointsLast DEF IInv
  <2>5. Serves(s, o, m.peer)
    <3>1. m.peer # 0 /\ (m.peer = host <=> Mode = "Client")
      BY <1>2, <1>4 DEF IInv, Endpoints
    <3>2. (IF Mode = "Client" THEN "Client" ELSE "Host") \in FrozenRoles(o)
      BY <1>1
    <3>3. Reaches(s, o, m.peer)
      <4>1. CASE Mode = "Client"
        BY <1>2, <3>1, <3>2, <4>1 DEF Reaches
      <4>2. CASE Mode # "Client"
        BY <1>2, <1>4, <3>1, <3>2, <4>2 DEF Reaches
      <4> QED
        BY <4>1, <4>2
    <3>4. s \in Route(o, m.peer)
      BY <3>3, RouteIs DEF RoutesReach, IInv
    <3>5. Supports(s, o, m.peer)
      BY <1>2, <1>5 DEF Supports, Accepts
    <3> QED
      BY <1>2, <3>4, <3>5 DEF Serves
  <2>6. conn[s].phase \in {"Ready", "Established"} /\ o.id \notin conn[s].failed
    BY <1>5 DEF Accepts
  <2>7. Lasts(s)
    BY <1>2, <1>6 DEF Lasts
  <2>8. Inbound' /\ Inbox!Put("incoming")
    <3>1. Continues
      BY <2>2 DEF Continues
    <3> QED
      BY <1>2, <1>4, <1>6, <2>1, <2>3, <2>4, <2>5, <2>6, <2>7, <3>1, InboxGrows
  <2>9. Tidy /\ Whole
    BY <1>6, <2>2 DEF Tidy, Whole
  <2>10. count'.sends >= count.sends /\ count'.peers >= count.peers
    BY <2>1, PeersKnown DEF IInv
  <2>11. Submitted'
    BY <1>2, <2>3, <2>9, <2>10, SubmittedKept DEF IInv
  <2>12. OutLoses
    BY <1>2, <1>6, <2>1, <2>9, <2>10 DEF OutLoses, InTransport
  <2>13. Outbound' /\ Outbox!Drop
    BY <2>3, <2>4, <2>12, OutboxLoses
  <2> QED
    BY <2>3, <2>4, <2>8, <2>11, <2>13 DEF Done, IInv, Outbox!Next, Inbox!Next
<1>7. CASE /\ conn' = [conn EXCEPT ![s] = Failed(@)]
           /\ incoming' = Without(incoming, Arrived({s}))
           /\ count' = count
  <2>1. /\ conn' \in [Slots -> Connections] /\ {s} \in SUBSET Live
        /\ \A t \in Slots \ {s} : conn'[t] = conn[t]
        /\ \A t \in {s} : /\ Lasts(t) /\ Shrinks(t)
                         /\ conn'[t].phase = "Failed" /\ conn'[t].outgoing = <<>>
                         /\ Range(conn'[t].outgoing) = {}
        /\ Discards
    BY <1>2, <1>7, OneFails DEF IInv
  <2>2. count' \in Counts
    BY <1>7 DEF IInv, Shapes
  <2> QED
    BY ZenonT(120), <1>2, <1>3, <1>7, <2>1, <2>2, SlotsDone
<1> QED
  BY <1>1, <1>6, <1>7 DEF m

-----------------------------------------------------------------------------
(* The pump. *)

LEMMA PumpLoses ==
    ASSUME IInv, Shapes', Endpoints', OutLoses, Submitted', Discards,
           control' = control, delivered' = delivered, count'.arrivals = count.arrivals
    PROVE  Done
<1>1. Outbound' /\ Outbox!Drop
  BY OutboxLoses
<1>2. Continues /\ count'.peers >= count.peers
  BY DEF OutLoses, Tidy, Continues
<1>3. Inbound' /\ Inbox!Drop
  BY <1>2, InboxLoses
<1> QED
  BY <1>1, <1>3 DEF Done, IInv, Outbox!Next, Inbox!Next

(* Steps between submissions. *)
LEMMA PumpMoves ==
    ASSUME IInv, UNCHANGED <<frozen, conn, host, local, incoming, control, sent, delivered, count>>,
           hellos' \in [Slots -> Nat], pump.at # "Submitting", pump'.at # "Submitting",
           pump' \in Pumps
    PROVE  Done
<1>1. Shapes'
  BY DEF IInv, Shapes
<1>2. Endpoints'
  BY DEF IInv, Endpoints, Live, IsLocal
<1>3. Tidy
  BY SlotStays DEF IInv, Tidy
<1>4. InTransport = {} /\ InTransport' = {} /\ Submitted'
  BY DEF InTransport, Submitted
<1>5. OutLoses
  BY <1>3, <1>4, PeersKnown DEF OutLoses, IInv
<1> QED
  BY <1>1, <1>2, <1>4, <1>5, PumpLoses DEF Discards

LEMMA PumpMovesDone == IInv /\ (PumpBegin \/ PumpNext) => Done
<1>1. ASSUME IInv, PumpBegin PROVE Done
  <2>1. 0 \in 0..Batch /\ LiveIds \in SUBSET Nat
    BY <1>1, PeersKnown, MessageQueuesAssumption DEF IInv, LiveIds, Live
  <2>2. pump' \in Pumps /\ pump'.at = "Running" /\ pump.at = "Idle"
    BY <1>1, <2>1 DEF PumpBegin, Running, Pumps, PumpIdle
  <2>3. hellos' \in [Slots -> Nat]
    BY <1>1, KeptHellos DEF PumpBegin, IInv
  <2> QED
    BY <1>1, <2>2, <2>3, PumpMoves DEF PumpBegin
<1>2. ASSUME IInv, PumpNext PROVE Done
  <2>1. pump.at = "Running" /\ pump \in Pumps
    BY <1>2 DEF PumpNext, IInv, Shapes
  <2>2. pump.todo \in SUBSET Nat /\ pump.n \in 0..Batch
    BY <2>1 DEF Pumps, PumpIdle
  <2>3. pump' \in Pumps /\ pump'.at # "Submitting"
    <3>1. CASE pump' = PumpIdle
      BY <3>1 DEF Pumps, PumpIdle
    <3>2. CASE \E peer \in pump.todo : pump' = Running(pump.todo \ {peer}, peer, pump.n)
      <4>1. PICK peer \in pump.todo : pump' = Running(pump.todo \ {peer}, peer, pump.n)
        BY <3>2
      <4>2. pump.todo \ {peer} \in SUBSET Nat /\ peer \in Nat
        BY <2>2
      <4> QED
        BY <2>2, <4>1, <4>2 DEF Running, Pumps
    <3> QED
      BY <1>2, <3>1, <3>2 DEF PumpNext
  <2>4. hellos' \in [Slots -> Nat]
    BY <1>2 DEF PumpNext, IInv, Shapes
  <2> QED
    BY <1>2, <2>1, <2>3, <2>4, PumpMoves DEF PumpNext
<1> QED
  BY <1>1, <1>2

(* The front message leaves its connection.                                *)
LEMMA FrontIsServed ==
    ASSUME IInv, NEW s \in Slots, conn[s].outgoing # <<>>
    PROVE  LET m == Head(conn[s].outgoing) IN
           /\ m \in Range(conn[s].outgoing) /\ m \in Outgoing
           /\ \A other \in Range(conn[s].outgoing) : m.n <= other.n
           /\ 0 < m.n /\ m.n <= count.sends
           /\ conn[s].id # 0 /\ s \in Live /\ conn[s].phase = "Established"
           /\ Serves(s, m.feature, m.peer)
           /\ Agreement(m.feature, m.peer) = "Compatible" <=> m.feature.id \notin conn[s].failed
<1> DEFINE m == Head(conn[s].outgoing)
<1>1. conn[s].outgoing \in Seq(Outgoing) /\ Increasing(conn[s].outgoing) /\ Numbered(Outgoing)
  BY PeersKnown DEF IInv, Outbound, Numbered, Outgoing
<1>2. /\ m \in Range(conn[s].outgoing) /\ m \in Outgoing
      /\ \A other \in Range(conn[s].outgoing) : m.n <= other.n
  BY <1>1, FrontOfQueue
<1> HIDE DEF m
<1>3. 0 < m.n /\ m.n <= count.sends /\ conn[s].phase = "Established" /\ Serves(s, m.feature, m.peer)
  BY <1>2 DEF IInv, Outbound
<1>4. conn[s].id # 0 /\ s \in Live
  BY <1>3 DEF Serves, Live
<1>5. Agreement(m.feature, m.peer) = "Compatible" <=> m.feature.id \notin conn[s].failed
  <2>1. m.feature \in Objects
    BY <1>2 DEF Outgoing
  <2> QED
    BY <1>3, <2>1, ServedAgrees DEF IInv
<1> QED
  BY <1>2, <1>3, <1>4, <1>5 DEF m

LEMMA FrontLeaves ==
    ASSUME IInv, NEW s \in Slots, conn[s].outgoing # <<>>,
           conn' = [conn EXCEPT ![s].outgoing = Tail(@)], UNCHANGED <<frozen, host, local>>,
           count'.peers = count.peers
    PROVE  /\ conn' \in [Slots -> Connections]
           /\ \A t \in Slots \ {s} : conn'[t] = conn[t]
           /\ conn'[s].id = conn[s].id /\ conn'[s].phase = conn[s].phase
           /\ conn'[s].failed = conn[s].failed
           /\ Range(conn'[s].outgoing) = Range(conn[s].outgoing) \ {Head(conn[s].outgoing)}
           /\ Lasts(s) /\ Tidy
           /\ Endpoints'
<1>1. conn[s].outgoing \in Seq(Outgoing) /\ Increasing(conn[s].outgoing) /\ Numbered(Outgoing)
  BY PeersKnown DEF IInv, Outbound, Numbered, Outgoing
<1>2. /\ Tail(conn[s].outgoing) \in Seq(Outgoing) /\ Increasing(Tail(conn[s].outgoing))
      /\ Range(Tail(conn[s].outgoing)) = Range(conn[s].outgoing) \ {Head(conn[s].outgoing)}
  BY <1>1, FrontOfQueue
<1>3. /\ conn' \in [Slots -> Connections]
      /\ \A t \in Slots \ {s} : conn'[t] = conn[t]
      /\ conn'[s].id = conn[s].id /\ conn'[s].phase = conn[s].phase
      /\ conn'[s].supported = conn[s].supported /\ conn'[s].failed = conn[s].failed
      /\ conn'[s].outgoing = Tail(conn[s].outgoing)
  BY <1>2, NewQueue DEF IInv
<1>4. conn[s].id # 0
  BY FrontIsServed
<1>5. Lasts(s) /\ Shrinks(s)
  BY <1>2, <1>3, <1>4 DEF Lasts, Shrinks
<1>6. ASSUME NEW t \in Slots
      PROVE  /\ (Lasts(t) /\ Shrinks(t)) \/ Fresh(t)
             /\ Lasts(t) \/ conn'[t].id = 0
  <2>1. CASE t = s
    BY <1>5, <2>1
  <2>2. CASE t # s
    <3>1. conn'[t] = conn[t]
      BY <1>3, <2>2
    <3>2. (Lasts(t) /\ Shrinks(t)) \/ Fresh(t)
      BY <3>1, SlotStays DEF IInv
    <3>3. conn[t].id # 0 => Lasts(t)
      BY <3>1 DEF Lasts
    <3> QED
      BY <3>1, <3>2, <3>3
  <2> QED
    BY <2>1, <2>2
<1>7. Endpoints'
  BY <1>6, EndpointsLast DEF IInv
<1> QED
  BY <1>2, <1>3, <1>5, <1>6, <1>7 DEF Tidy

LEMMA PumpDropDone == IInv /\ PumpDrop => Done
<1> SUFFICES ASSUME IInv, PumpDrop PROVE Done
  OBVIOUS
<1>1. PICK s \in At(pump.peer) :
        Stale(s) /\ conn' = [conn EXCEPT ![s].outgoing = Tail(@)]
  BY DEF PumpDrop
<1>2. /\ UNCHANGED <<frozen, host, local, hellos, incoming, pump, control, sent, delivered, count>>
      /\ s \in Slots /\ pump.at = "Running"
  BY DEF PumpDrop, At, Live
<1>3. conn[s].outgoing # <<>> /\ Agreement(Head(conn[s].outgoing).feature, Head(conn[s].outgoing).peer) # "Compatible"
  <2>1. Agreement(Head(conn[s].outgoing).feature, Head(conn[s].outgoing).peer) # "Compatible"
    BY <1>1 DEF Stale
  <2>2. \E frame \in FrontFrames(s) : frame.kind = "Data"
    BY <1>1 DEF Stale
  <2>3. conn[s].outgoing # <<>>
    BY <2>2 DEF FrontFrames
  <2> QED
    BY <2>1, <2>3
<1> DEFINE m == Head(conn[s].outgoing)
<1>4. m.feature.id \in conn[s].failed
  BY <1>2, <1>3, FrontIsServed
<1> HIDE DEF m
<1>5. /\ conn' \in [Slots -> Connections]
      /\ \A t \in Slots \ {s} : conn'[t] = conn[t]
      /\ conn'[s].failed = conn[s].failed
      /\ Range(conn'[s].outgoing) = Range(conn[s].outgoing) \ {m}
      /\ Tidy /\ Endpoints'
  BY <1>1, <1>2, <1>3, FrontLeaves DEF m
<1>6. Shapes'
  BY <1>2, <1>5 DEF IInv, Shapes
<1>7. Submitted' /\ InTransport' = InTransport
  BY <1>2 DEF Submitted, InTransport
<1>8. OutLoses
  <2>1. ASSUME NEW t \in Slots, NEW k \in Range(conn[t].outgoing) \ Range(conn'[t].outgoing)
        PROVE  k.feature.id \in conn'[t].failed
    BY <1>4, <1>5, <2>1
  <2> QED
    BY <1>2, <1>5, <1>7, <2>1, PeersKnown DEF OutLoses, IInv
<1> QED
  BY <1>2, <1>5, <1>6, <1>7, <1>8, PumpLoses DEF Discards

(* The host's own player has an implementation for what waits for it.      *)
LEMMA LocalFrontIs ==
    ASSUME IInv, NEW s \in Slots, IsLocal(s), conn[s].outgoing # <<>>
    PROVE  LET m == Head(conn[s].outgoing) IN
           /\ LocalRecipient(m) # {}
           /\ conn[s].id = local /\ local # host /\ local # 0 /\ host # 0 /\ Mode = "Host"
           /\ m.peer = host \/ m.peer = local
<1> DEFINE m == Head(conn[s].outgoing)
<1>1. /\ m \in Range(conn[s].outgoing) /\ m \in Outgoing
      /\ conn[s].id # 0 /\ s \in Live /\ Serves(s, m.feature, m.peer)
  BY FrontIsServed
<1> HIDE DEF m
<1>2. conn[s].id = local /\ local # host /\ local # 0 /\ host # 0 /\ Mode = "Host"
  BY <1>1 DEF IsLocal, IInv, Endpoints
<1>3. LocalRecipient(m) # {}
  BY <1>1 DEF LocalRecipient, Serves, Supports
<1>4. Reaches(s, m.feature, m.peer)
  BY <1>1, RouteIs DEF RoutesReach, Serves, IInv
<1>5. m.peer = host \/ m.peer = local
  BY <1>2, <1>4 DEF Reaches
<1> QED
  BY <1>2, <1>3, <1>5 DEF m

(* What it is given is served by its connection, the other way round.      *)
LEMMA LocalArrival ==
    ASSUME IInv, NEW s \in Slots, IsLocal(s), conn[s].outgoing # <<>>,
           NEW m, m = Head(conn[s].outgoing),
           NEW o \in Objects, o \in LocalRecipient(m),
           NEW peer, peer = IF m.peer = host THEN local ELSE host
    PROVE  Serves(s, o, peer) /\ o.id = m.feature.id
<1>1. /\ conn[s].id # 0 /\ Serves(s, m.feature, m.peer)
      /\ m \in Outgoing /\ m.feature \in Objects
  BY FrontIsServed DEF Outgoing
<1>2. /\ conn[s].id = local /\ local # host /\ local # 0 /\ host # 0 /\ Mode = "Host"
      /\ m.peer = host \/ m.peer = local
  BY LocalFrontIs
<1>3. peer = IF m.peer = host THEN local ELSE host
  OBVIOUS
<1>4. o \in Implementation(m.feature.id, IF m.peer = host THEN "Host" ELSE "Client")
  BY DEF LocalRecipient
<1>5. o.id = m.feature.id /\ (IF m.peer = host THEN "Host" ELSE "Client") \in FrozenRoles(o)
  BY <1>4 DEF Implementation
<1>6. Reaches(s, o, peer)
  BY <1>1, <1>2, <1>3, <1>5 DEF Reaches
<1>7. s \in Route(o, peer)
  BY <1>6, RouteIs DEF RoutesReach, IInv
<1>8. Implementation(o.id, IF peer = host THEN "Host" ELSE "Client") # {}
  <2>1. Reaches(s, m.feature, m.peer)
    BY <1>1, RouteIs DEF RoutesReach, Serves, IInv
  <2>2. CASE m.peer = host
    <3>1. "Client" \in FrozenRoles(m.feature) \/ ("Host" \in FrozenRoles(m.feature) /\ conn[s].id = host)
      BY <2>1, <2>2 DEF Reaches
    <3>2. m.feature \in Implementation(o.id, "Client")
      BY <1>1, <1>2, <1>5, <3>1 DEF Implementation
    <3> QED
      BY <1>2, <1>3, <2>2, <3>2
  <2>3. CASE m.peer # host
    <3>1. m.feature \in Implementation(o.id, "Host")
      BY <1>1, <1>5, <2>1, <2>3 DEF Implementation, Reaches
    <3> QED
      BY <1>3, <2>3, <3>1
  <2> QED
    BY <2>2, <2>3
<1>9. Supports(s, o, peer)
  BY <1>8 DEF Supports
<1> QED
  BY <1>1, <1>5, <1>7, <1>9 DEF Serves

(* A connection fails in the pump's pass.                                  *)
LEMMA PumpFails ==
    ASSUME IInv, NEW s \in Slots, s \in Live,
           conn' = [conn EXCEPT ![s] = Failed(@)],
           incoming' = Without(incoming, Arrived({s})),
           UNCHANGED <<frozen, host, local, hellos, control, sent, delivered, count>>,
           pump' \in Pumps, InTransport = {}, InTransport' = {}, Submitted'
    PROVE  Done
<1>1. /\ conn' \in [Slots -> Connections]
      /\ \A t \in Slots \ {s} : conn'[t] = conn[t]
      /\ Lasts(s) /\ conn'[s].phase = "Failed"
      /\ Tidy /\ Discards
  BY OneFails DEF IInv
<1>2. Shapes'
  <2>1. incoming' \in Seq(Incoming)
    BY <1>1, DiscardsShrink DEF IInv
  <2> QED
    BY <1>1, <2>1 DEF IInv, Shapes
<1>3. Endpoints'
  <2>1. \A t \in Slots : Lasts(t) \/ conn'[t].id = 0
    BY <1>1 DEF Lasts
  <2> QED
    BY <2>1, EndpointsLast DEF IInv
<1>4. OutLoses
  <2>1. ASSUME NEW t \in Slots, NEW k \in Range(conn[t].outgoing) \ Range(conn'[t].outgoing)
        PROVE  conn'[t].phase = "Failed"
    BY <1>1, <2>1
  <2> QED
    BY <1>1, <2>1, PeersKnown DEF OutLoses, IInv
<1> QED
  BY <1>1, <1>2, <1>3, <1>4, PumpLoses

LEMMA PumpCounts ==
    ASSUME Shapes, pump.at = "Running", pump.n < Batch
    PROVE  /\ pump.todo \in SUBSET Nat /\ pump.peer \in Nat /\ pump.n + 1 \in 0..Batch
           /\ [pump EXCEPT !.n = @ + 1] \in Pumps /\ [pump EXCEPT !.n = @ + 1].at = "Running"
<1>1. pump \in [at : {"Running"}, todo : SUBSET Nat, peer : Nat, n : 0..Batch]
  BY DEF Shapes, Pumps, PumpIdle
<1>2. pump.n \in 0..Batch /\ Batch \in Nat /\ pump.n + 1 \in 0..Batch
  BY <1>1, MessageQueuesAssumption
<1>3. [pump EXCEPT !.n = @ + 1] \in [at : {"Running"}, todo : SUBSET Nat, peer : Nat, n : 0..Batch]
  BY <1>1, <1>2
<1> QED
  BY <1>1, <1>2, <1>3 DEF Pumps

LEMMA SentGrows ==
    ASSUME Shapes, NEW n \in Nat, NEW id, sent' = [sent EXCEPT ![id] = Append(@, n)]
    PROVE  sent' \in [1..MaxPeers -> Seq(Nat)]
<1>1. sent \in [1..MaxPeers -> Seq(Nat)]
  BY DEF Shapes
<1>2. sent' = [x \in 1..MaxPeers |-> IF x = id THEN Append(sent[x], n) ELSE sent[x]]
  BY <1>1
<1>3. \A x \in 1..MaxPeers : sent[x] \in Seq(Nat) /\ Append(sent[x], n) \in Seq(Nat)
  BY <1>1
<1> QED
  BY <1>2, <1>3

LEMMA PumpLocalDone == IInv /\ PumpLocal => Done
<1> SUFFICES ASSUME IInv, PumpLocal PROVE Done
  OBVIOUS
<1>1. /\ pump.at = "Running" /\ pump'.at = "Running" /\ pump' \in Pumps
      /\ UNCHANGED <<frozen, host, local, hellos, control, delivered>>
  BY PumpCounts DEF PumpLocal, IInv
<1>2. InTransport = {} /\ InTransport' = {} /\ Submitted'
  BY <1>1 DEF InTransport, Submitted
<1>3. PICK s \in At(pump.peer) :
         LET m == Head(conn[s].outgoing)
             popped == [conn EXCEPT ![s].outgoing = Tail(@)]
             arrival(o) == [n |-> count.arrivals + 1, feature |-> o,
                            peer |-> IF m.peer = host THEN local ELSE host,
                            connection |-> conn[s].id, size |-> m.size]
         IN  /\ IsLocal(s)
             /\ conn[s].outgoing # <<>>
             /\ IF LocalRecipient(m) = {} \/ Agreement(m.feature, m.peer) # "Compatible"
                THEN /\ conn' = popped
                     /\ outBytes' = outBytes - OutCharge(m)
                     /\ UNCHANGED <<incoming, inBytes, sent, count>>
                ELSE IF inBytes + InRecord + m.size > Capacity
                THEN /\ conn' = [conn EXCEPT ![s] = Failed(@)]
                     /\ Discard({s}, 0)
                     /\ UNCHANGED <<sent, count>>
                ELSE /\ conn' = popped
                     /\ outBytes' = outBytes - OutCharge(m)
                     /\ \E o \in LocalRecipient(m) : incoming' = Append(incoming, arrival(o))
                     /\ inBytes' = inBytes + InRecord + m.size
                     /\ sent' = Sent(s, m.n)
                     /\ count' = [count EXCEPT !.arrivals = @ + 1]
  BY DEF PumpLocal
<1> DEFINE m == Head(conn[s].outgoing)
           arrival(o) == [n |-> count.arrivals + 1, feature |-> o,
                          peer |-> IF m.peer = host THEN local ELSE host,
                          connection |-> conn[s].id, size |-> m.size]
<1>4. s \in Slots /\ s \in Live /\ IsLocal(s) /\ conn[s].outgoing # <<>>
  BY <1>3 DEF At, Live
<1>5. /\ m \in Range(conn[s].outgoing) /\ m \in Outgoing
      /\ \A other \in Range(conn[s].outgoing) : m.n <= other.n
      /\ conn[s].id # 0 /\ conn[s].phase = "Established"
      /\ Agreement(m.feature, m.peer) = "Compatible" <=> m.feature.id \notin conn[s].failed
      /\ LocalRecipient(m) # {}
  BY <1>4, FrontIsServed, LocalFrontIs
<1>6. \/ /\ m.feature.id \in conn[s].failed
         /\ conn' = [conn EXCEPT ![s].outgoing = Tail(@)]
         /\ UNCHANGED <<incoming, sent, count>>
      \/ /\ conn' = [conn EXCEPT ![s] = Failed(@)]
         /\ incoming' = Without(incoming, Arrived({s}))
         /\ UNCHANGED <<sent, count>>
      \/ /\ m.feature.id \notin conn[s].failed
         /\ conn' = [conn EXCEPT ![s].outgoing = Tail(@)]
         /\ \E o \in LocalRecipient(m) : incoming' = Append(incoming, arrival(o))
         /\ sent' = Sent(s, m.n)
         /\ count' = [count EXCEPT !.arrivals = @ + 1]
  BY <1>3, <1>5 DEF Discard
<1> HIDE DEF m
<1>7. CASE /\ m.feature.id \in conn[s].failed
           /\ conn' = [conn EXCEPT ![s].outgoing = Tail(@)]
           /\ UNCHANGED <<incoming, sent, count>>
  <2>1. /\ conn' \in [Slots -> Connections]
        /\ \A t \in Slots \ {s} : conn'[t] = conn[t]
        /\ conn'[s].failed = conn[s].failed
        /\ Range(conn'[s].outgoing) = Range(conn[s].outgoing) \ {m}
        /\ Tidy /\ Endpoints'
    BY <1>1, <1>4, <1>7, FrontLeaves DEF m
  <2>2. Shapes'
    BY <1>1, <1>7, <2>1 DEF IInv, Shapes
  <2>3. ASSUME NEW t \in Slots, NEW k \in Range(conn[t].outgoing) \ Range(conn'[t].outgoing)
        PROVE  k.feature.id \in conn'[t].failed
    BY <1>7, <2>1, <2>3
  <2>4. OutLoses
    BY <1>2, <1>7, <2>1, <2>3, PeersKnown DEF OutLoses, IInv
  <2> QED
    BY <1>1, <1>2, <1>7, <2>1, <2>2, <2>4, PumpLoses DEF Discards
<1>8. CASE /\ conn' = [conn EXCEPT ![s] = Failed(@)]
           /\ incoming' = Without(incoming, Arrived({s}))
           /\ UNCHANGED <<sent, count>>
  BY <1>1, <1>2, <1>4, <1>8, PumpFails
<1>9. CASE /\ m.feature.id \notin conn[s].failed
           /\ conn' = [conn EXCEPT ![s].outgoing = Tail(@)]
           /\ \E o \in LocalRecipient(m) : incoming' = Append(incoming, arrival(o))
           /\ sent' = Sent(s, m.n)
           /\ count' = [count EXCEPT !.arrivals = @ + 1]
  <2>1. PICK o \in LocalRecipient(m) : incoming' = Append(incoming, arrival(o))
    BY <1>9
  <2>2. o \in Objects
    BY DEF LocalRecipient, Implementation
  <2>3. /\ count' \in Counts /\ count'.peers = count.peers /\ count'.sends = count.sends
        /\ count'.arrivals = count.arrivals + 1 /\ count.arrivals \in Nat
    <3>1. count \in Counts
      BY DEF IInv, Shapes
    <3> QED
      BY <1>9, <3>1 DEF Counts
  <2>4. /\ conn' \in [Slots -> Connections]
        /\ \A t \in Slots \ {s} : conn'[t] = conn[t]
        /\ conn'[s].id = conn[s].id /\ conn'[s].phase = conn[s].phase
        /\ conn'[s].failed = conn[s].failed
        /\ Range(conn'[s].outgoing) = Range(conn[s].outgoing) \ {m}
        /\ Lasts(s) /\ Tidy /\ Endpoints'
    BY <1>1, <1>4, <1>9, <2>3, FrontLeaves DEF m
  <2> DEFINE a == arrival(o)
  <2>5. /\ a \in Incoming /\ a.n = count.arrivals + 1 /\ a.connection = conn[s].id
        /\ a.feature = o /\ a.peer = IF m.peer = host THEN local ELSE host
    <3>1. m.size \in Sizes /\ conn[s].id \in Nat /\ host \in Nat /\ local \in Nat
      BY <1>4, <1>5, PeersKnown DEF IInv, Shapes, Outgoing
    <3> QED
      BY <2>2, <2>3, <3>1 DEF Incoming
  <2>6. incoming' = Append(incoming, a)
    BY <2>1
  <2> HIDE DEF a
  <2>7. Serves(s, a.feature, a.peer) /\ a.feature.id = m.feature.id
    <3> SUFFICES ASSUME NEW peer, peer = a.peer
                 PROVE  Serves(s, o, peer) /\ o.id = m.feature.id
      BY <2>5
    <3>1. peer = IF m.peer = host THEN local ELSE host
      BY <2>5
    <3>2. m = Head(conn[s].outgoing)
      BY DEF m
    <3> QED
      BY <1>4, <2>1, <2>2, <3>1, <3>2, LocalArrival
  <2>8. sent' \in [1..MaxPeers -> Seq(Nat)] /\ sent' = [sent EXCEPT ![conn[s].id] = Append(@, m.n)]
    <3>1. m.n \in Nat
      BY <1>5 DEF Outgoing
    <3>2. sent' = [sent EXCEPT ![conn[s].id] = Append(@, m.n)]
      BY <1>9 DEF Sent
    <3> QED
      BY <3>1, <3>2, SentGrows DEF IInv
  <2>9. Shapes'
    <3>1. incoming' \in Seq(Incoming)
      BY <2>5, <2>6 DEF IInv, Shapes
    <3> QED
      BY <1>1, <2>3, <2>4, <2>8, <3>1 DEF IInv, Shapes
  <2>10. Continues
    BY <2>4 DEF Tidy, Continues
  <2>11. Inbound' /\ Inbox!Put("incoming")
    <3>1. \A t \in Slots : /\ conn'[t].id = conn[t].id
                           /\ conn'[t].phase = conn[t].phase /\ conn'[t].failed = conn[t].failed
      BY <2>4
    <3> QED
      BY <1>1, <1>4, <1>5, <1>9, <2>3, <2>4, <2>5, <2>6, <2>7, <2>9, <2>10, <3>1, InboxGrows
  <2>12. Outbound'
    <3>1. count'.sends >= count.sends
      BY <2>3, PeersKnown DEF IInv
    <3> QED
      BY <2>4, <2>9, <3>1, OutboundKept DEF IInv
  <2>13. OutTakes(s, m)
    BY <1>2, <1>5, <1>9, <2>3, <2>4, <2>8 DEF OutTakes
  <2>14. \E l \in 1..MaxPeers : Outbox!Take(l)
    BY <1>4, <2>4, <2>9, <2>13, OutTakesTakes DEF IInv
  <2> QED
    BY <1>2, <2>4, <2>9, <2>11, <2>12, <2>14 DEF Done, IInv, Outbox!Next, Inbox!Next
<1> QED
  BY <1>6, <1>7, <1>8, <1>9

(* Connections stay as they are.                                           *)
LEMMA ConnectionsStay ==
    ASSUME IInv, UNCHANGED <<frozen, conn, host, local>>, count'.peers = count.peers
    PROVE  Tidy /\ Continues /\ Endpoints'
<1>1. Tidy
  BY SlotStays DEF IInv, Tidy
<1>2. \A t \in Slots : Lasts(t) \/ conn'[t].id = 0
  BY DEF Lasts
<1> QED
  BY <1>1, <1>2, EndpointsLast DEF IInv, Tidy, Continues

(* A frame of a connection is a notice or its front message.               *)
LEMMA FrontFrameIs ==
    ASSUME IInv, NEW s \in Live, NEW frame \in FrontFrames(s)
    PROVE  /\ frame \in Frames
           /\ \/ frame.kind = "Notice" /\ frame.n = 0
              \/ /\ frame.kind = "Data" /\ conn[s].outgoing # <<>>
                 /\ frame.n = Head(conn[s].outgoing).n
                 /\ frame.feature = Head(conn[s].outgoing).feature.id
<1>1. s \in Slots /\ conn[s].notice \in SUBSET Ids
  BY PeersKnown DEF IInv, Live, Connections
<1>2. CASE conn[s].notice # {}
  <2>1. PICK f \in conn[s].notice : frame = [kind |-> "Notice", feature |-> f, n |-> 0]
    BY <1>2 DEF FrontFrames
  <2> QED
    BY <1>1, <2>1 DEF Frames
<1>3. CASE conn[s].notice = {}
  <2>1. conn[s].outgoing # <<>>
    BY <1>3 DEF FrontFrames
  <2>2. frame = [kind |-> "Data", feature |-> Head(conn[s].outgoing).feature.id,
                 n |-> Head(conn[s].outgoing).n]
    BY <1>3, <2>1 DEF FrontFrames
  <2>3. Head(conn[s].outgoing) \in Outgoing
    BY <1>1, <2>1, FrontIsServed
  <2>4. Head(conn[s].outgoing).feature.id \in Ids /\ Head(conn[s].outgoing).n \in Nat
    BY <2>3 DEF Outgoing, Ids
  <2> QED
    BY <2>1, <2>2, <2>4 DEF Frames
<1> QED
  BY <1>2, <1>3

LEMMA PumpSubmitDone == IInv /\ PumpSubmit => Done
<1> SUFFICES ASSUME IInv, PumpSubmit PROVE Done
  OBVIOUS
<1>1. /\ UNCHANGED <<frozen, conn, host, local, hellos, incoming, control, delivered>>
      /\ pump.at = "Running" /\ pump.n < Batch
  BY DEF PumpSubmit
<1>2. PICK s \in At(pump.peer) : \E result \in Results, frame \in FrontFrames(s) :
        /\ ~IsLocal(s) /\ ~Stale(s)
        /\ pump' = Submitting(pump.todo, pump.peer, pump.n + 1,
                              [frame |-> frame, result |-> result])
        /\ sent' = IF result = "Accepted" /\ frame.kind = "Data" THEN Sent(s, frame.n) ELSE sent
        /\ count' = [count EXCEPT !.faults = IF result # "Accepted" THEN @ + 1 ELSE @]
  BY DEF PumpSubmit
<1>3. PICK result \in Results : \E frame \in FrontFrames(s) :
        /\ ~IsLocal(s) /\ ~Stale(s)
        /\ pump' = Submitting(pump.todo, pump.peer, pump.n + 1,
                              [frame |-> frame, result |-> result])
        /\ sent' = IF result = "Accepted" /\ frame.kind = "Data" THEN Sent(s, frame.n) ELSE sent
        /\ count' = [count EXCEPT !.faults = IF result # "Accepted" THEN @ + 1 ELSE @]
  BY <1>2
<1>4. PICK frame \in FrontFrames(s) :
        /\ ~IsLocal(s) /\ ~Stale(s)
        /\ pump' = Submitting(pump.todo, pump.peer, pump.n + 1,
                              [frame |-> frame, result |-> result])
        /\ sent' = IF result = "Accepted" /\ frame.kind = "Data" THEN Sent(s, frame.n) ELSE sent
        /\ count' = [count EXCEPT !.faults = IF result # "Accepted" THEN @ + 1 ELSE @]
  BY <1>3
<1>5. s \in Slots /\ s \in Live /\ conn[s].id = pump.peer
  BY DEF At, Live
<1>6. /\ frame \in Frames /\ frame.n \in Nat
      /\ \/ frame.kind = "Notice" /\ frame.n = 0
         \/ /\ frame.kind = "Data" /\ conn[s].outgoing # <<>>
            /\ frame.n = Head(conn[s].outgoing).n
            /\ frame.feature = Head(conn[s].outgoing).feature.id
  BY <1>5, FrontFrameIs DEF Frames
<1>7. /\ pump' \in Pumps /\ pump'.at = "Submitting" /\ pump'.peer = pump.peer
      /\ pump'.sub.result = result /\ pump'.sub.frame = frame
  <2>1. pump.todo \in SUBSET Nat /\ pump.peer \in Nat /\ pump.n + 1 \in 0..Batch
    BY <1>1, PumpCounts DEF IInv
  <2>2. [frame |-> frame, result |-> result] \in Submissions
    BY <1>6, MessageQueuesAssumption DEF Submissions
  <2> QED
    BY <1>4, <2>1, <2>2 DEF Pumps, Submitting
<1>8. /\ count' \in Counts /\ count'.peers = count.peers
      /\ count'.sends = count.sends /\ count'.arrivals = count.arrivals
  <2>1. count \in Counts
    BY DEF IInv, Shapes
  <2> QED
    BY <1>4, <2>1 DEF Counts
<1>9. InTransport = {} /\ InTransport' = IF result = "Accepted" THEN {frame.n} ELSE {}
  BY <1>1, <1>7 DEF InTransport
<1>10. Tidy /\ Continues /\ Endpoints'
  BY <1>1, <1>8, ConnectionsStay
<1>11. CASE result = "Accepted" /\ frame.kind = "Data"
  <2> DEFINE m == Head(conn[s].outgoing)
  <2>1. conn[s].outgoing # <<>> /\ frame.n = m.n /\ frame.feature = m.feature.id
    BY <1>6, <1>11
  <2>2. Agreement(m.feature, m.peer) = "Compatible"
    BY <1>4, <1>11 DEF Stale
  <2>3. /\ m \in Range(conn[s].outgoing) /\ m \in Outgoing
        /\ \A other \in Range(conn[s].outgoing) : m.n <= other.n
        /\ 0 < m.n /\ m.n <= count.sends
        /\ conn[s].id # 0 /\ conn[s].phase = "Established" /\ m.feature.id \notin conn[s].failed
    BY <1>5, <2>1, <2>2, FrontIsServed
  <2> HIDE DEF m
  <2>4. sent' = [sent EXCEPT ![conn[s].id] = Append(@, m.n)]
    BY <1>4, <1>11, <2>1 DEF Sent
  <2>5. Shapes'
    <3>1. sent' \in [1..MaxPeers -> Seq(Nat)]
      BY <1>6, <2>1, <2>4, SentGrows DEF IInv
    <3> QED
      BY <1>1, <1>7, <1>8, <3>1 DEF IInv, Shapes
  <2>6. Submitted'
    <3>1. 0 < pump.peer /\ pump.peer <= count.peers
      <4>1. pump.peer # 0 /\ pump.peer <= count.peers /\ pump.peer \in Nat
        BY <1>5, <2>3, PeersKnown DEF IInv, Endpoints
      <4> QED
        BY <4>1
    <3>2. Front(conn[s], frame)
      BY <2>1, <2>3 DEF Front
    <3>3. ASSUME NEW t \in Slots
          PROVE  IF conn[t].id = pump.peer THEN Front(conn[t], frame) \/ Gone(conn[t], frame)
                 ELSE \A k \in Range(conn[t].outgoing) : k.n # frame.n
      <4>1. CASE conn[t].id = pump.peer
        <5>1. t = s
          BY <1>5, <2>3, <4>1 DEF IInv, Endpoints, Live
        <5> QED
          BY <3>2, <4>1, <5>1
      <4>2. CASE conn[t].id # pump.peer
        BY <1>5, <2>1, <2>3, <4>2 DEF IInv, Outbound
      <4> QED
        BY <4>1, <4>2
    <3>4. Held(frame, pump.peer)
      BY <1>11, <2>1, <2>3, <3>1, <3>3 DEF Held
    <3> SUFFICES ASSUME NEW peer, peer = pump.peer PROVE Held(frame, peer)'
      BY <1>7 DEF Submitted
    <3>5. Held(frame, peer)
      BY <3>4
    <3> QED
      BY <1>1, <1>8, <3>5 DEF Held
  <2>7. OutTakes(s, m)
    BY <1>1, <1>8, <1>9, <1>11, <2>1, <2>3, <2>4 DEF OutTakes
  <2>8. \E l \in 1..MaxPeers : Outbox!Take(l)
    BY <1>5, <1>10, <2>5, <2>7, OutTakesTakes DEF IInv
  <2>9. Outbound'
    BY <1>8, <1>10, <2>5, OutboundKept, PeersKnown DEF IInv
  <2>10. Inbound' /\ Inbox!Drop
    BY <1>1, <1>8, <1>10, <2>5, InboxLoses, PeersKnown DEF IInv, Discards
  <2> QED
    BY <1>10, <2>5, <2>6, <2>8, <2>9, <2>10 DEF Done, IInv, Outbox!Next, Inbox!Next
<1>12. CASE ~(result = "Accepted" /\ frame.kind = "Data")
  <2>1. sent' = sent /\ (result = "Accepted" => frame.kind = "Notice" /\ frame.n = 0)
    BY <1>4, <1>6, <1>12
  <2>2. Shapes'
    BY <1>1, <1>7, <1>8, <2>1 DEF IInv, Shapes
  <2>3. Submitted'
    BY <1>7, <2>1 DEF Submitted, Held
  <2>4. ASSUME NEW t \in Slots, NEW k \in Range(conn[t].outgoing)
        PROVE  k.n \notin InTransport /\ k.n \notin InTransport'
    <3>1. k.n \in Nat /\ 0 < k.n
      BY PeersKnown DEF IInv, Outbound, Outgoing
    <3> QED
      BY <1>9, <2>1, <3>1
  <2>5. OutLoses
    BY <1>1, <1>8, <1>10, <2>1, <2>4, PeersKnown DEF OutLoses, IInv
  <2> QED
    BY <1>1, <1>8, <1>10, <2>2, <2>3, <2>5, PumpLoses DEF Discards
<1> QED
  BY <1>11, <1>12

(* What the transport accepted is the front message of its connection, if  *)
(* the front is still one of its feature, and otherwise is nowhere.        *)
LEMMA AcceptedFront ==
    ASSUME IInv, pump.at = "Submitting", pump.sub.result = "Accepted",
           NEW frame, frame = pump.sub.frame, NEW s \in Slots
    PROVE  /\ \A m \in Range(conn[s].outgoing) : m.n = frame.n =>
                /\ conn[s].id = pump.peer /\ frame.kind # "Notice"
                /\ FrontIs(s, frame) /\ m = Head(conn[s].outgoing)
           /\ conn[s].id = pump.peer /\ frame.kind # "Notice" /\ FrontIs(s, frame) =>
                Head(conn[s].outgoing).n = frame.n
<1>1. Held(frame, pump.peer)
  BY DEF IInv, Submitted
<1>2. /\ \A m \in Range(conn[s].outgoing) : m.n \in Nat /\ 0 < m.n
      /\ conn[s].outgoing \in Seq(Outgoing) /\ Increasing(conn[s].outgoing) /\ Numbered(Outgoing)
  BY PeersKnown DEF IInv, Outbound, Outgoing, Numbered
<1>3. CASE frame.kind = "Notice"
  <2>1. frame.n = 0
    BY <1>1, <1>3 DEF Held
  <2> QED
    BY <1>2, <1>3, <2>1
<1>4. CASE frame.kind # "Notice" /\ conn[s].id # pump.peer
  BY <1>1, <1>4 DEF Held
<1>5. CASE frame.kind # "Notice" /\ conn[s].id = pump.peer /\ Gone(conn[s], frame)
  <2>1. \A m \in Range(conn[s].outgoing) : m.n # frame.n /\ m.feature.id # frame.feature
    BY <1>5 DEF Gone
  <2>2. conn[s].outgoing # <<>> => Head(conn[s].outgoing) \in Range(conn[s].outgoing)
    BY <1>2, FrontOfQueue
  <2> QED
    BY <2>1, <2>2 DEF FrontIs
<1>6. CASE frame.kind # "Notice" /\ conn[s].id = pump.peer /\ Front(conn[s], frame)
  <2>1. PICK m \in Range(conn[s].outgoing) :
          /\ m.n = frame.n /\ m.feature.id = frame.feature
          /\ \A other \in Range(conn[s].outgoing) : m.n <= other.n
    BY <1>6 DEF Front
  <2>2. conn[s].outgoing # <<>>
    BY <2>1, EmptyQueue
  <2>3. /\ Head(conn[s].outgoing) \in Range(conn[s].outgoing)
        /\ \A other \in Range(conn[s].outgoing) : Head(conn[s].outgoing).n <= other.n
    BY <1>2, <2>2, FrontOfQueue
  <2> DEFINE h == Head(conn[s].outgoing)
  <2>4. h.n = m.n
    <3>1. h.n \in Nat /\ m.n \in Nat /\ h.n <= m.n /\ m.n <= h.n
      BY <1>2, <2>1, <2>3
    <3> QED
      BY <3>1
  <2>5. \A other \in Range(conn[s].outgoing) : other.n = frame.n => other = h
    BY <1>2, <2>1, <2>3, <2>4, OneMessage
  <2>6. m = h
    BY <2>1, <2>5
  <2>7. FrontIs(s, frame)
    BY <2>1, <2>2, <2>6 DEF FrontIs
  <2> QED
    BY <1>6, <2>1, <2>4, <2>5, <2>7
<1> QED
  BY <1>1, <1>3, <1>4, <1>5, <1>6 DEF Held

(* A queue keeps its order when a notice is answered.                      *)
LEMMA NewNotice ==
    ASSUME IInv, NEW s \in Live, NEW notice \in SUBSET Ids,
           conn' = [conn EXCEPT ![s].notice = notice], UNCHANGED <<frozen, host, local>>,
           count'.peers = count.peers
    PROVE  /\ conn' \in [Slots -> Connections]
           /\ \A t \in Slots : conn'[t].outgoing = conn[t].outgoing
           /\ Tidy /\ Endpoints'
<1>1. \A c \in Connections :
        LET d == [c EXCEPT !.notice = notice]
        IN  /\ d \in Connections /\ d.id = c.id /\ d.phase = c.phase
            /\ d.supported = c.supported /\ d.failed = c.failed /\ d.outgoing = c.outgoing
  BY DEF Connections
<1>2. /\ conn' \in [Slots -> Connections] /\ s \in Slots /\ conn[s].id # 0
      /\ \A t \in Slots \ {s} : conn'[t] = conn[t]
      /\ conn'[s].id = conn[s].id /\ conn'[s].phase = conn[s].phase
      /\ conn'[s].supported = conn[s].supported /\ conn'[s].failed = conn[s].failed
      /\ conn'[s].outgoing = conn[s].outgoing
  BY <1>1 DEF IInv, Shapes, Live
<1>3. Lasts(s) /\ Shrinks(s)
  BY <1>2 DEF Lasts, Shrinks, IInv, Outbound
<1>4. \A t \in Slots : (Lasts(t) /\ Shrinks(t)) \/ Fresh(t)
  BY <1>2, <1>3, SlotStays DEF IInv
<1>5. \A t \in Slots : Lasts(t) \/ conn'[t].id = 0
  BY <1>2, <1>3 DEF Lasts
<1>6. Endpoints'
  BY <1>5, EndpointsLast DEF IInv
<1> QED
  BY <1>2, <1>4, <1>6 DEF Tidy

LEMMA PumpResumeDone == IInv /\ PumpResume => Done
<1> SUFFICES ASSUME IInv, PumpResume PROVE Done
  OBVIOUS
<1> DEFINE frame == pump.sub.frame
           result == pump.sub.result
<1>1. /\ UNCHANGED <<frozen, host, local, hellos, control, sent, delivered, count>>
      /\ pump.at = "Submitting"
  BY DEF PumpResume
<1>2. \/ /\ At(pump.peer) = {} \/ result = "Retry"
         /\ conn' = conn /\ incoming' = incoming
      \/ \E s \in At(pump.peer) :
           /\ result = "Failed"
           /\ conn' = [conn EXCEPT ![s] = Failed(@)]
           /\ incoming' = Without(incoming, Arrived({s}))
      \/ \E s \in At(pump.peer) :
           /\ result = "Accepted"
           /\ Settled(s, frame)
           /\ incoming' = incoming
  BY DEF PumpResume, Discard
<1>3. pump' \in Pumps /\ pump'.at = "Running"
  <2>1. pump \in [at : {"Submitting"}, todo : SUBSET Nat, peer : Nat, n : 0..Batch, sub : Submissions]
    BY <1>1 DEF IInv, Shapes, Pumps, PumpIdle
  <2>2. \E peer \in Nat : pump' = Running(pump.todo, peer, pump.n)
    BY <2>1 DEF PumpResume
  <2> QED
    BY <2>1, <2>2 DEF Pumps, Running
<1>4. InTransport' = {} /\ Submitted'
  BY <1>3 DEF InTransport, Submitted
<1>5. InTransport = IF result = "Accepted" THEN {frame.n} ELSE {}
  BY <1>1 DEF InTransport
<1>6. \A s : s \in At(pump.peer) => s \in Slots /\ s \in Live /\ conn[s].id = pump.peer
  BY DEF At, Live
<1> HIDE DEF frame, result
<1>7. ASSUME conn' \in [Slots -> Connections], incoming' = incoming, Tidy, Endpoints',
             \A t \in Slots : \A k \in Range(conn[t].outgoing) \ Range(conn'[t].outgoing) :
                k.n \in InTransport,
             \A t \in Slots : \A k \in Range(conn'[t].outgoing) : k.n \notin InTransport
      PROVE  Done
  <2>1. Shapes'
    BY <1>1, <1>3, <1>7 DEF IInv, Shapes
  <2>2. OutLoses
    BY <1>1, <1>4, <1>7, PeersKnown DEF OutLoses, IInv
  <2> QED
    BY <1>1, <1>4, <1>7, <2>1, <2>2, PumpLoses DEF Discards
<1>8. ASSUME result = "Accepted", NEW t \in Slots
      PROVE  /\ \A k \in Range(conn[t].outgoing) : k.n = frame.n =>
                  /\ conn[t].id = pump.peer /\ frame.kind # "Notice"
                  /\ FrontIs(t, frame) /\ k = Head(conn[t].outgoing)
             /\ conn[t].id = pump.peer /\ frame.kind # "Notice" /\ FrontIs(t, frame) =>
                  Head(conn[t].outgoing).n = frame.n
  <2>1. pump.sub.result = "Accepted" /\ frame = pump.sub.frame
    BY <1>8 DEF result, frame
  <2> QED
    BY <1>1, <2>1, AcceptedFront
<1>9. CASE /\ At(pump.peer) = {} \/ result = "Retry"
           /\ conn' = conn /\ incoming' = incoming
  <2>1. Tidy /\ Endpoints' /\ conn' \in [Slots -> Connections]
    BY <1>1, <1>9, ConnectionsStay DEF IInv, Shapes
  <2>2. ASSUME NEW t \in Slots, NEW k \in Range(conn[t].outgoing), k.n \in InTransport
        PROVE  FALSE
    <3>1. result = "Accepted" /\ k.n = frame.n
      BY <1>5, <2>2
    <3>2. conn[t].id = pump.peer /\ conn[t].id # 0
      BY <1>8, <3>1 DEF IInv, Outbound, Serves
    <3>3. t \in At(pump.peer)
      BY <3>2 DEF At, Live
    <3> QED
      BY <1>9, <3>1, <3>3
  <2> QED
    BY <1>7, <1>9, <2>1, <2>2
<1>10. CASE \E s \in At(pump.peer) :
              /\ result = "Failed"
              /\ conn' = [conn EXCEPT ![s] = Failed(@)]
              /\ incoming' = Without(incoming, Arrived({s}))
  <2>1. PICK s \in At(pump.peer) :
              /\ result = "Failed"
              /\ conn' = [conn EXCEPT ![s] = Failed(@)]
              /\ incoming' = Without(incoming, Arrived({s}))
    BY <1>10
  <2>2. InTransport = {}
    BY <1>5, <2>1
  <2> QED
    BY <1>1, <1>3, <1>4, <1>6, <2>1, <2>2, PumpFails
<1>11. CASE \E s \in At(pump.peer) :
              /\ result = "Accepted"
              /\ Settled(s, frame)
              /\ incoming' = incoming
  <2>1. PICK s \in At(pump.peer) :
              /\ result = "Accepted"
              /\ Settled(s, frame)
              /\ incoming' = incoming
    BY <1>11
  <2>2. s \in Slots /\ s \in Live /\ conn[s].id = pump.peer
    BY <1>6
  <2>3. CASE frame.kind = "Notice"
    <3>1. conn' = [conn EXCEPT ![s].notice = conn[s].notice \ {frame.feature}]
      <4>1. conn' = [conn EXCEPT ![s].notice = @ \ {frame.feature}]
        BY <2>1, <2>3 DEF Settled
      <4> QED
        BY <4>1
    <3>2. conn[s].notice \ {frame.feature} \in SUBSET Ids
      BY <2>2, PeersKnown DEF IInv, Connections
    <3>3. /\ conn' \in [Slots -> Connections] /\ Tidy /\ Endpoints'
          /\ \A t \in Slots : conn'[t].outgoing = conn[t].outgoing
      BY <1>1, <2>2, <3>1, <3>2, NewNotice
    <3>4. \A t \in Slots : \A k \in Range(conn[t].outgoing) : k.n \notin InTransport
      BY <1>5, <1>8, <2>1, <2>3
    <3> QED
      BY <1>7, <2>1, <3>3, <3>4
  <2>4. CASE frame.kind # "Notice" /\ FrontIs(s, frame)
    <3>1. conn' = [conn EXCEPT ![s].outgoing = Tail(@)] /\ conn[s].outgoing # <<>>
      BY <2>1, <2>4 DEF Settled, FrontIs
    <3>2. /\ conn' \in [Slots -> Connections] /\ Tidy /\ Endpoints'
          /\ \A t \in Slots \ {s} : conn'[t] = conn[t]
          /\ Range(conn'[s].outgoing) = Range(conn[s].outgoing) \ {Head(conn[s].outgoing)}
      BY <1>1, <2>2, <3>1, FrontLeaves
    <3>3. Head(conn[s].outgoing).n = frame.n
      BY <1>8, <2>1, <2>2, <2>4
    <3>4. ASSUME NEW t \in Slots, NEW k \in Range(conn[t].outgoing) \ Range(conn'[t].outgoing)
          PROVE  k.n \in InTransport
      BY <1>5, <2>1, <3>2, <3>3, <3>4
    <3>5. ASSUME NEW t \in Slots, NEW k \in Range(conn'[t].outgoing), k.n \in InTransport
          PROVE  FALSE
      <4>1. k \in Range(conn[t].outgoing) /\ k.n = frame.n
        BY <1>5, <2>1, <3>2, <3>5
      <4>2. conn[t].id = pump.peer /\ k = Head(conn[t].outgoing)
        BY <1>8, <2>1, <4>1
      <4>3. t = s
        BY <2>2, <4>2 DEF IInv, Endpoints, Live
      <4> QED
        BY <3>2, <3>5, <4>2, <4>3
    <3> QED
      BY <1>7, <2>1, <3>2, <3>4, <3>5
  <2>5. CASE frame.kind # "Notice" /\ ~FrontIs(s, frame)
    <3>1. conn' = conn
      BY <2>1, <2>5 DEF Settled
    <3>2. Tidy /\ Endpoints' /\ conn' \in [Slots -> Connections]
      BY <1>1, <3>1, ConnectionsStay DEF IInv, Shapes
    <3>3. ASSUME NEW t \in Slots, NEW k \in Range(conn[t].outgoing), k.n \in InTransport
          PROVE  FALSE
      <4>1. k.n = frame.n
        BY <1>5, <2>1, <3>3
      <4>2. conn[t].id = pump.peer /\ FrontIs(t, frame) /\ conn[t].id # 0
        BY <1>8, <2>1, <4>1 DEF IInv, Outbound, Serves
      <4>3. t = s
        BY <2>2, <4>2 DEF IInv, Endpoints, Live
      <4> QED
        BY <2>5, <4>2, <4>3
    <3> QED
      BY <1>7, <2>1, <3>1, <3>2, <3>3
  <2> QED
    BY <2>3, <2>4, <2>5
<1> QED
  BY <1>2, <1>9, <1>10, <1>11

-----------------------------------------------------------------------------
(* deliver(). *)

(* Its steps leave the connections and what waits on them alone.           *)
LEMMA DeliverStays ==
    ASSUME IInv, UNCHANGED <<frozen, conn, host, local, hellos, pump, sent, count>>,
           incoming' \in Seq(Incoming), control' \in Controls, delivered' \in Seq(Nat)
    PROVE  /\ Shapes' /\ Endpoints' /\ Outbound' /\ Submitted'
           /\ Continues /\ Closed' = Closed /\ Outbox!Drop
<1>1. Shapes'
  BY DEF IInv, Shapes
<1>2. Tidy /\ Continues /\ Endpoints'
  BY ConnectionsStay
<1>3. InTransport' = InTransport
  BY DEF InTransport
<1>4. OutLoses
  BY <1>2, <1>3, PeersKnown DEF OutLoses, IInv
<1>5. Outbound' /\ Outbox!Drop
  BY <1>1, <1>2, <1>4, OutboxLoses
<1>6. Submitted'
  BY DEF IInv, Submitted, Held
<1>7. Closed' = Closed
  BY ClosedSame
<1> QED
  BY <1>1, <1>2, <1>5, <1>6, <1>7

LEMMA InboundMoves ==
    ASSUME IInv, Shapes', Endpoints', Continues, UNCHANGED <<conn, count>>,
           Range(incoming') \cup Hand' \subseteq Range(incoming) \cup Hand,
           Increasing(incoming'),
           \A m \in Range(incoming'), h \in Hand' : h.n < m.n,
           control'.at = "Calling" => control'.callback # 0,
           \A h \in Hand', s \in Slots : conn[s].id = h.connection =>
              conn[s].phase # "Ready" \/ h.feature.id \in conn[s].failed
    PROVE  Inbound'
<1>1. count'.arrivals >= count.arrivals /\ count'.peers >= count.peers
  BY PeersKnown DEF IInv
<1>2. \A m \in Range(incoming') \cup Hand' :
        /\ 0 < m.n /\ m.n <= count'.arrivals
        /\ 0 < m.connection /\ m.connection <= count'.peers
        /\ \A s \in Slots : conn'[s].id = m.connection =>
              conn'[s].phase # "Pending" /\ Serves(s, m.feature, m.peer)'
  BY <1>1, ArrivedKept DEF IInv, Continues
<1> QED
  BY <1>2 DEF Inbound

LEMMA DeliverBeginDone == IInv /\ DeliverBegin => Done
<1> SUFFICES ASSUME IInv, DeliverBegin PROVE Done
  OBVIOUS
<1>1. /\ UNCHANGED <<frozen, conn, host, local, hellos, pump, sent, count, incoming, delivered>>
      /\ control = ControlIdle /\ control' = Draining(Len(incoming))
  BY DEF DeliverBegin
<1>2. Hand = {} /\ Hand' = {} /\ InHand = {} /\ InHand' = {} /\ control'.at # "Calling"
  BY <1>1 DEF Hand, InHand, ControlIdle, Draining
<1>3. incoming' \in Seq(Incoming) /\ control' \in Controls /\ delivered' \in Seq(Nat)
  <2>1. incoming \in Seq(Incoming) /\ delivered \in Seq(Nat)
    BY DEF IInv, Shapes
  <2>2. Len(incoming) \in Nat
    BY <2>1
  <2> QED
    BY <1>1, <2>1, <2>2 DEF Controls, Draining
<1>4. /\ Shapes' /\ Endpoints' /\ Outbound' /\ Submitted'
      /\ Continues /\ Closed' = Closed /\ Outbox!Drop
  BY <1>1, <1>3, DeliverStays
<1>5. Inbound'
  BY <1>1, <1>2, <1>4, InboundMoves DEF IInv, Inbound
<1>6. InLoses
  BY <1>1, <1>2, <1>4, PeersKnown DEF InLoses, Unread, IInv
<1> QED
  BY <1>4, <1>5, <1>6, InLosesDrops DEF Done, IInv, Outbox!Next, Inbox!Next

(* A message leaves the queue for deliver()'s hands, where it still counts *)
(* as not given: its connection is no longer on the way to be confirmed.   *)
LEMMA DeliverNextDone == IInv /\ DeliverNext => Done
<1> SUFFICES ASSUME IInv, DeliverNext PROVE Done
  OBVIOUS
<1>1. /\ UNCHANGED <<frozen, conn, host, local, hellos, pump, sent, count, delivered>>
      /\ control.at = "Draining"
  BY DEF DeliverNext
<1>2. /\ incoming \in Seq(Incoming) /\ delivered \in Seq(Nat) /\ control \in Controls
      /\ Increasing(incoming) /\ Numbered(Incoming)
  BY DEF IInv, Shapes, Inbound, Numbered, Incoming
<1>3. Hand = {} /\ InHand = {}
  BY <1>1 DEF Hand, InHand
<1>4. CASE control.left = 0 \/ FrontWaits
  <2>1. control' = ControlIdle /\ incoming' = incoming
    BY <1>4 DEF DeliverNext
  <2>2. Hand' = {} /\ InHand' = {} /\ control'.at # "Calling" /\ control' \in Controls
    BY <2>1 DEF Hand, InHand, ControlIdle, Controls
  <2>3. /\ Shapes' /\ Endpoints' /\ Outbound' /\ Submitted'
        /\ Continues /\ Closed' = Closed /\ Outbox!Drop
    BY <1>1, <1>2, <2>1, <2>2, DeliverStays
  <2>4. Inbound'
    BY <1>1, <1>3, <2>1, <2>2, <2>3, InboundMoves DEF IInv, Inbound
  <2>5. InLoses
    BY <1>1, <1>3, <2>1, <2>2, <2>3, PeersKnown DEF InLoses, Unread, IInv
  <2> QED
    BY <2>3, <2>4, <2>5, InLosesDrops DEF Done, IInv, Outbox!Next, Inbox!Next
<1>5. CASE ~(control.left = 0 \/ FrontWaits)
  <2> DEFINE h == Head(incoming)
  <2>1. /\ control' = Calling(control.left - 1, h, 1) /\ incoming' = Tail(incoming)
        /\ incoming # <<>> /\ Agreement(h.feature, h.peer) # "Pending"
    BY <1>5 DEF DeliverNext, FrontWaits
  <2>2. /\ h \in Range(incoming) /\ h \in Incoming
        /\ Tail(incoming) \in Seq(Incoming)
        /\ Range(Tail(incoming)) = Range(incoming) \ {h}
        /\ Increasing(Tail(incoming))
        /\ \A m \in Range(Tail(incoming)) : h.n < m.n
    BY <1>2, <2>1, FrontOfQueue
  <2> HIDE DEF h
  <2>3. control' \in Controls /\ control'.at = "Calling" /\ control'.callback = 1
    <3>1. control.left \in Nat
      BY <1>1, <1>2 DEF Controls, ControlIdle
    <3>2. control.left - 1 \in Nat
      BY <1>5, <3>1
    <3> QED
      BY <2>1, <2>2, <3>2 DEF Calling, Controls
  <2>4. Hand' = {h} /\ InHand' = {h}
    BY <2>1 DEF Hand, InHand, Calling
  <2>5. /\ Shapes' /\ Endpoints' /\ Outbound' /\ Submitted'
        /\ Continues /\ Closed' = Closed /\ Outbox!Drop
    BY <1>1, <1>2, <2>1, <2>2, <2>3, DeliverStays
  <2>6. ASSUME NEW s \in Slots, conn[s].id = h.connection, conn[s].phase = "Ready"
        PROVE  h.feature.id \in conn[s].failed
    <3>1. Serves(s, h.feature, h.peer) /\ h.feature \in Objects
      BY <2>2, <2>6 DEF IInv, Inbound, Incoming
    <3> QED
      BY <2>1, <2>6, <3>1, ServedAgrees DEF IInv
  <2>7. Inbound'
    <3>1. Range(incoming') \cup Hand' \subseteq Range(incoming) \cup Hand
      BY <2>1, <2>2, <2>4
    <3> QED
      BY <1>1, <2>1, <2>2, <2>3, <2>4, <2>5, <2>6, <3>1, InboundMoves
  <2>8. Unread' = Unread
    BY <1>3, <2>1, <2>2, <2>4 DEF Unread
  <2>9. InLoses
    BY <1>1, <2>5, <2>8, PeersKnown DEF InLoses, IInv
  <2> QED
    BY <2>5, <2>7, <2>9, InLosesDrops DEF Done, IInv, Outbox!Next, Inbox!Next
<1> QED
  BY <1>4, <1>5

(* For the message in deliver()'s hands, to agree still is to be open.     *)
LEMMA CurrentIsOpen ==
    ASSUME IInv, control.at = "Calling", NEW m, m = control.message
    PROVE  StillCurrent(m) <=> <<m.connection, m.feature.id>> \notin Closed
<1>1. m \in Hand /\ m \in Incoming
  BY DEF Hand, IInv, Shapes, Controls, ControlIdle
<1>2. /\ m.feature \in Objects /\ m.feature.id \in Ids /\ m.connection \in 1..count.peers
      /\ m.connection # 0
  <2>1. m.connection \in Nat /\ 0 < m.connection /\ m.connection <= count.peers
    BY <1>1 DEF IInv, Inbound, Incoming
  <2>2. count.peers \in Nat
    BY PeersKnown DEF IInv
  <2> QED
    BY <1>1, <2>1, <2>2 DEF Incoming, Ids
<1>3. <<m.connection, m.feature.id>> \notin Closed <=> Open(m.connection, m.feature.id)
  BY <1>2 DEF Closed
<1>4. ASSUME StillCurrent(m) PROVE Open(m.connection, m.feature.id)
  <2>1. PICK s \in Route(m.feature, m.peer) : conn[s].id = m.connection
    BY <1>4 DEF StillCurrent
  <2>2. s \in Slots /\ s \in At(m.connection)
    BY <2>1 DEF Route, Live, At
  <2>3. conn[s].phase = "Established" /\ m.feature.id \notin conn[s].failed
    BY <1>2, <1>4, <2>2, CompatibleServes DEF IInv, StillCurrent
  <2> QED
    BY <2>2, <2>3 DEF Open
<1>5. ASSUME Open(m.connection, m.feature.id) PROVE StillCurrent(m)
  <2>1. PICK s \in At(m.connection) :
          conn[s].phase \notin {"Failed", "Expired"} /\ m.feature.id \notin conn[s].failed
    BY <1>5 DEF Open
  <2>2. s \in Slots /\ conn[s].id = m.connection
    BY DEF At, Live
  <2>3. Serves(s, m.feature, m.peer) /\ conn[s].phase # "Pending" /\ conn[s].phase # "Ready"
    BY <1>1, <2>1, <2>2 DEF IInv, Inbound
  <2>4. conn[s].phase = "Established"
    BY <2>1, <2>2, <2>3, PeersKnown DEF IInv, Phases
  <2>5. Agreement(m.feature, m.peer) = "Compatible"
    BY <1>2, <2>1, <2>2, <2>3, <2>4, ServedAgrees DEF IInv
  <2> QED
    BY <2>2, <2>3, <2>5 DEF StillCurrent, Serves
<1> QED
  BY <1>3, <1>4, <1>5

LEMMA DeliverCallDone == IInv /\ DeliverCall => Done
<1> SUFFICES ASSUME IInv, DeliverCall PROVE Done
  OBVIOUS
<1> DEFINE m == control.message
<1>1. /\ UNCHANGED <<frozen, conn, host, local, hellos, pump, sent, count, incoming>>
      /\ control.at = "Calling"
  BY DEF DeliverCall
<1>2. /\ control \in [at : {"Calling"}, left : Nat, message : Incoming, callback : Nat]
      /\ control.callback # 0 /\ control.callback <= m.feature.callbacks
      /\ m \in Incoming /\ m.n \in Nat /\ m.feature.callbacks \in Nat
  <2>1. control \in [at : {"Calling"}, left : Nat, message : Incoming, callback : Nat]
    BY <1>1 DEF IInv, Shapes, Controls, ControlIdle
  <2>2. control.callback # 0 /\ control.callback <= m.feature.callbacks
    BY <1>1 DEF DeliverCall, IInv, Inbound
  <2>3. m.feature \in Objects
    BY <2>1 DEF Incoming
  <2> QED
    BY <2>1, <2>2, <2>3, MessageQueuesAssumption DEF Incoming
<1>3. /\ incoming' \in Seq(Incoming)
      /\ delivered' = IF StillCurrent(m) /\ control.callback = 1 THEN Append(delivered, m.n)
                      ELSE delivered
      /\ delivered' \in Seq(Nat)
  <2>1. incoming \in Seq(Incoming) /\ delivered \in Seq(Nat)
    BY DEF IInv, Shapes
  <2>2. delivered' = IF StillCurrent(m) /\ control.callback = 1 THEN Append(delivered, m.n)
                     ELSE delivered
    BY DEF DeliverCall
  <2> QED
    BY <1>1, <1>2, <2>1, <2>2
<1>4. PICK n \in Nat : control' = [control EXCEPT !.callback = n] /\ n # 0 /\ n # 1
  BY <1>2 DEF DeliverCall
<1>5. /\ control' \in Controls /\ control'.at = "Calling" /\ control'.callback = n
      /\ control'.message = m
  BY <1>2, <1>4 DEF Controls
<1>6. /\ Hand = {m} /\ Hand' = {m} /\ InHand' = {}
      /\ InHand = IF control.callback = 1 THEN {m} ELSE {}
  BY <1>1, <1>4, <1>5 DEF Hand, InHand
<1>7. StillCurrent(m) <=> <<m.connection, m.feature.id>> \notin Closed
  BY <1>1, CurrentIsOpen
<1> HIDE DEF m
<1>8. /\ Shapes' /\ Endpoints' /\ Outbound' /\ Submitted'
      /\ Continues /\ Closed' = Closed /\ Outbox!Drop
  BY <1>1, <1>3, <1>5, DeliverStays
<1>9. Inbound'
  <2>1. Range(incoming') \cup Hand' = Range(incoming) \cup Hand
    BY <1>1, <1>6
  <2> QED
    BY <1>1, <1>4, <1>5, <1>6, <1>8, <2>1, InboundMoves DEF IInv, Inbound
<1>10. CASE StillCurrent(m) /\ control.callback = 1
  <2>1. InTakes(m)
    BY <1>1, <1>3, <1>6, <1>7, <1>8, <1>10 DEF InTakes
  <2>2. Inbox!Take("incoming")
    BY <1>8, <1>9, <2>1, InTakesTakes DEF IInv
  <2> QED
    BY <1>8, <1>9, <2>2 DEF Done, IInv, Outbox!Next, Inbox!Next
<1>11. CASE ~(StillCurrent(m) /\ control.callback = 1)
  <2>1. delivered' = delivered /\ Unread' \subseteq Unread
    BY <1>1, <1>3, <1>6, <1>11 DEF Unread
  <2>2. ASSUME NEW x \in Unread \ Unread'
        PROVE  <<x.connection, x.feature.id>> \in Closed'
    <3>1. x = m /\ control.callback = 1
      BY <1>1, <1>6, <2>2 DEF Unread
    <3>2. <<m.connection, m.feature.id>> \in Closed
      BY <1>7, <1>11, <3>1
    <3> QED
      BY <1>8, <3>1, <3>2
  <2>3. InLoses
    BY <1>1, <1>8, <2>1, <2>2, PeersKnown DEF InLoses, IInv
  <2> QED
    BY <1>8, <1>9, <2>3, InLosesDrops DEF Done, IInv, Outbox!Next, Inbox!Next
<1> QED
  BY <1>10, <1>11

(* A feature that listens has been given the message, or refused it, when  *)
(* deliver() is done with it.                                              *)
Listens == \A o \in Objects : o.callbacks > 0

LEMMA DeliverDoneDone ==
    ASSUME IInv, DeliverDone
    PROVE  IInv' /\ Outbox!Next /\ (Listens => Inbox!Next)
<1>1. /\ UNCHANGED <<frozen, conn, host, local, hellos, pump, sent, count, incoming, delivered>>
      /\ control.at = "Calling" /\ control' = Draining(control.left)
      /\ control.callback > control.message.feature.callbacks
  BY DEF DeliverDone
<1>2. control \in [at : {"Calling"}, left : Nat, message : Incoming, callback : Nat]
  BY <1>1 DEF IInv, Shapes, Controls, ControlIdle
<1>3. /\ control' \in Controls /\ control'.at # "Calling"
      /\ Hand' = {} /\ InHand' = {}
  BY <1>1, <1>2 DEF Controls, Draining, Hand, InHand
<1>4. incoming' \in Seq(Incoming) /\ delivered' \in Seq(Nat)
  BY <1>1 DEF IInv, Shapes
<1>5. /\ Shapes' /\ Endpoints' /\ Outbound' /\ Submitted'
      /\ Continues /\ Closed' = Closed /\ Outbox!Drop
  BY <1>1, <1>3, <1>4, DeliverStays
<1>6. Inbound'
  BY <1>1, <1>3, <1>5, InboundMoves DEF IInv, Inbound
<1>7. ASSUME Listens PROVE Inbox!Next
  <2>1. control.message.feature \in Objects
    BY <1>2 DEF Incoming
  <2>2. control.message.feature.callbacks \in Nat /\ control.message.feature.callbacks > 0
    BY <1>7, <2>1, MessageQueuesAssumption DEF Listens
  <2>3. control.callback # 1
    BY <1>1, <1>2, <2>2
  <2>4. InHand = {}
    BY <2>3 DEF InHand
  <2>5. InLoses
    BY <1>1, <1>3, <1>5, <2>4, PeersKnown DEF InLoses, Unread, IInv
  <2> QED
    BY <1>5, <1>6, <2>5, InLosesDrops DEF IInv, Inbox!Next
<1> QED
  BY <1>5, <1>6, <1>7 DEF IInv, Outbox!Next

-----------------------------------------------------------------------------
(* Every step. *)

LEMMA Quiet ==
    ASSUME IInv, UNCHANGED vars
    PROVE  IInv' /\ UNCHANGED Outbox!vars /\ UNCHANGED Inbox!vars
<1>1. /\ frozen' = frozen /\ conn' = conn /\ host' = host /\ local' = local /\ hellos' = hellos
      /\ incoming' = incoming /\ pump' = pump /\ control' = control /\ sent' = sent
      /\ delivered' = delivered /\ count' = count
  BY DEF vars
<1>2. incoming' \in Seq(Incoming) /\ control' \in Controls /\ delivered' \in Seq(Nat)
  BY <1>1 DEF IInv, Shapes
<1>3. /\ Shapes' /\ Endpoints' /\ Outbound' /\ Submitted'
      /\ Continues /\ Closed' = Closed
  BY <1>1, <1>2, DeliverStays
<1>4. Inbound'
  <2>1. Hand' = Hand
    BY <1>1 DEF Hand
  <2> QED
    BY <1>1, <1>3, <2>1, InboundMoves DEF IInv, Inbound
<1>5. OutWaiting' = OutWaiting /\ InWaiting' = InWaiting
  BY <1>1 DEF OutWaiting, InWaiting, At, Live, OnLine, InTransport, InHand
<1> QED
  BY <1>1, <1>3, <1>4, <1>5 DEF IInv, Outbox!vars, Inbox!vars

LEMMA StepDone ==
    ASSUME IInv, [Next]_vars
    PROVE  /\ IInv'
           /\ [Outbox!Next]_(Outbox!vars)
           /\ Listens => [Inbox!Next]_(Inbox!vars)
<1> DEFINE Goal == /\ IInv'
                   /\ [Outbox!Next]_(Outbox!vars)
                   /\ Listens => [Inbox!Next]_(Inbox!vars)
<1>1. Done => Goal
  BY DEF Done
<1>2. CASE UNCHANGED vars
  BY <1>2, Quiet
<1>3. CASE Begin \/ End \/ Reset \/ ObserveLocal \/ CarrierFailed \/ ExpireHellos
  BY <1>1, <1>3, SessionsDone, ObserveLocalDone, FailuresDone, HellosDone
<1>4. ASSUME NEW s \in Slots,
             \/ Connect(s) \/ Disconnect(s) \/ Negotiate(s) \/ ConnectionFails(s)
             \/ PeerFails(s) \/ ReceiveData(s) \/ RetainHello(s)
      PROVE  Goal
  BY <1>1, <1>4, ConnectDone, DisconnectDone, NegotiateDone, FailuresDone, PeerFailsDone,
     ReceiveDataDone, HellosDone
<1>5. ASSUME NEW o \in Objects, NEW peer \in 1..MaxPeers, Send(o, peer) \/ Fail(o, peer)
      PROVE  Goal
  <2>1. peer \in Nat
    OBVIOUS
  <2> QED
    BY <1>1, <1>5, <2>1, SendDone, FailDone
<1>6. CASE Pump
  BY <1>1, <1>6, PumpMovesDone, PumpDropDone, PumpLocalDone, PumpSubmitDone, PumpResumeDone DEF Pump
<1>7. CASE Deliver
  <2>1. CASE DeliverDone
    BY <2>1, DeliverDoneDone
  <2>2. CASE DeliverBegin \/ DeliverNext \/ DeliverCall
    BY <1>1, <2>2, DeliverBeginDone, DeliverNextDone, DeliverCallDone
  <2> QED
    BY <1>7, <2>1, <2>2 DEF Deliver
<1> QED
  BY <1>2, <1>3, <1>4, <1>5, <1>6, <1>7 DEF Next

LEMMA InitDone == Init => IInv /\ Outbox!Init /\ Inbox!Init
<1> SUFFICES ASSUME Init PROVE IInv /\ Outbox!Init /\ Inbox!Init
  OBVIOUS
<1>1. /\ frozen = {} /\ conn = [s \in Slots |-> NoConnection] /\ host = 0 /\ local = 0
      /\ hellos = [s \in Slots |-> 0] /\ incoming = <<>> /\ pump = PumpIdle
      /\ control = ControlIdle /\ sent = [id \in 1..MaxPeers |-> <<>>] /\ delivered = <<>>
      /\ count = [peers |-> 0, sends |-> 0, arrivals |-> 0, sessions |-> 0, faults |-> 0]
  BY DEF Init
<1>2. /\ Hand = {} /\ InHand = {} /\ pump.at # "Submitting" /\ control.at # "Calling"
      /\ PumpIdle \in Pumps /\ ControlIdle \in Controls
  BY <1>1 DEF Hand, InHand, PumpIdle, ControlIdle, Pumps, Controls
<1>3. count \in Counts /\ count.peers = 0 /\ count.sends = 0 /\ count.arrivals = 0
  BY <1>1 DEF Counts
<1>4. \A s \in Slots : conn[s] = NoConnection /\ conn[s].id = 0 /\ conn[s].outgoing = <<>>
  BY <1>1, NoConnectionIs
<1>5. Shapes
  <2>1. conn \in [Slots -> Connections]
    BY <1>1, NoConnectionIs
  <2>2. sent \in [1..MaxPeers -> Seq(Nat)]
    BY <1>1
  <2> QED
    BY <1>1, <1>2, <1>3, <2>1, <2>2 DEF Shapes
<1>6. Live = {}
  BY <1>4 DEF Live
<1>7. Endpoints
  BY <1>1, <1>3, <1>6, MessageQueuesAssumption DEF Endpoints
<1>8. Outbound
  BY <1>4, EmptyQueue DEF Outbound
<1>9. Submitted
  BY <1>2 DEF Submitted
<1>10. Inbound
  BY <1>1, <1>2, EmptyQueue DEF Inbound
<1>11. Closed = {}
  BY <1>3 DEF Closed
<1>12. OutWaiting = [id \in 1..MaxPeers |-> {}]
  <2>1. \A id \in 1..MaxPeers : At(id) = {}
    BY <1>6 DEF At
  <2> QED
    BY <2>1 DEF OutWaiting
<1>13. InWaiting = [l \in {"incoming"} |-> {}]
  <2>1. Range(incoming) \cup InHand = {}
    BY <1>1, <1>2, EmptyQueue
  <2> QED
    BY <2>1 DEF InWaiting
<1>14. Outbox!Init
  BY <1>1, <1>3, <1>11, <1>12 DEF Outbox!Init
<1>15. Inbox!Init
  BY <1>1, <1>3, <1>11, <1>13 DEF Inbox!Init
<1> QED
  BY <1>5, <1>7, <1>8, <1>9, <1>10, <1>14, <1>15 DEF IInv

-----------------------------------------------------------------------------

LEMMA Invariance == Spec => []IInv
BY InitDone, StepDone, PTL DEF Spec

(* What send() accepts and the pump submits (multiplayer.cpp) is Delivery, *)
(* one line for each connection: every message is handed over once and in  *)
(* order, or goes when its connection or its feature does.                 *)
THEOREM OutboxImplements == Spec => OutboxDelivers
<1>1. Spec => Outbox!Spec
  BY InitDone, StepDone, Invariance, PTL DEF Spec, Outbox!Spec
<1> QED
  BY <1>1 DEF OutboxDelivers

(* What receive() accepts and deliver() gives to the callbacks is Delivery *)
(* with one line, if every feature that was registered has a callback: a   *)
(* message for no callback leaves the queue without being given.           *)
THEOREM InboxImplements == Listens => (Spec => InboxDelivers)
<1> SUFFICES ASSUME Listens PROVE Spec => InboxDelivers
  OBVIOUS
<1>1. Spec => Inbox!Spec
  BY InitDone, StepDone, Invariance, PTL DEF Spec, Inbox!Spec
<1> QED
  BY <1>1 DEF InboxDelivers

(* The transport has what it accepted of a connection in the order of the  *)
(* calls of send(), and nothing of it twice.                               *)
SentInOrder ==
    \A id \in 1..MaxPeers : \A i, j \in 1..Len(sent[id]) : i < j => sent[id][i] < sent[id][j]

THEOREM SentOnce == Spec => []SentInOrder
<1>1. Outbox!InOrder => SentInOrder
  BY DEF Outbox!InOrder, SentInOrder
<1>2. Spec => Outbox!Spec
  BY OutboxImplements DEF OutboxDelivers
<1> QED
  BY <1>1, <1>2, Outbox!DeliveredInOrder, PTL

(* Patches that listen are given what arrived in the order it arrived in,  *)
(* and nothing twice, whatever ends in between.                            *)
GivenInOrder == \A i, j \in 1..Len(delivered) : i < j => delivered[i] < delivered[j]

THEOREM GivenOnce == Listens => (Spec => []GivenInOrder)
<1> SUFFICES ASSUME Listens PROVE Spec => []GivenInOrder
  OBVIOUS
<1>1. Inbox!InOrder => GivenInOrder
  BY DEF Inbox!InOrder, GivenInOrder
<1>2. Spec => Inbox!Spec
  BY InboxImplements DEF InboxDelivers
<1> QED
  BY <1>1, <1>2, Inbox!DeliveredInOrder, PTL

-----------------------------------------------------------------------------
(* The budgets.  What a set of messages costs is the sum of what its       *)
(* members cost; a part and the rest cost what the whole does.             *)

Total(c, M) == Sum([m \in M |-> c[m]], M)

LEMMA TotalParts ==
    ASSUME NEW U, NEW c, \A m \in U : c[m] \in Nat,
           NEW M \in SUBSET U, IsFiniteSet(M), NEW A \in SUBSET M
    PROVE  /\ Total(c, M) = Total(c, A) + Total(c, M \ A)
           /\ Total(c, M) \in Nat /\ Total(c, A) \in Nat /\ Total(c, M \ A) \in Nat
<1> DEFINE f == [m \in M |-> c[m]]
           rest == M \ A
<1>1. /\ IsFiniteSet(A) /\ IsFiniteSet(rest) /\ A \subseteq U /\ rest \subseteq U
      /\ \A m \in M : f[m] = c[m] /\ f[m] \in Nat /\ f[m] \in Int
  BY FS_Subset
<1>2. Total(c, M) \in Nat /\ Sum(f, M) = Sum(f, A) + Sum(f, rest)
  <2>1. Sum(f, M) \in Nat /\ Sum(f, M) = Sum(f, A) + Sum(f, M \ A)
    <3> HIDE DEF f, rest
    <3> QED
      BY <1>1, SumNat, SumSplit
  <2> QED
    BY <2>1 DEF Total
<1>3. \A B \in SUBSET M : IsFiniteSet(B) => Total(c, B) = Sum(f, B) /\ Sum(f, B) \in Nat
  <2> SUFFICES ASSUME NEW B \in SUBSET M, IsFiniteSet(B) PROVE Total(c, B) = Sum(f, B) /\ Sum(f, B) \in Nat
    OBVIOUS
  <2> DEFINE g == [m \in B |-> c[m]]
  <2>1. \A m \in B : f[m] \in Int /\ f[m] \in Nat /\ g[m] = f[m]
    BY <1>1
  <2>2. Sum(g, B) = Sum(f, B) /\ Sum(f, B) \in Nat
    <3> HIDE DEF f, g
    <3> QED
      BY <2>1, SumSame, SumNat
  <2> QED
    BY <2>2 DEF Total
<1>4. Total(c, A) = Sum(f, A) /\ Total(c, rest) = Sum(f, rest) /\ Sum(f, A) \in Nat /\ Sum(f, rest) \in Nat
  BY <1>1, <1>3
<1>5. Total(c, M) = Sum(f, M)
  BY DEF Total
<1> QED
  BY <1>2, <1>4, <1>5

LEMMA TotalEnds ==
    ASSUME NEW c
    PROVE  Total(c, {}) = 0 /\ \A x : c[x] \in Nat => Total(c, {x}) = c[x]
<1>1. Total(c, {}) = 0
  BY SumEmpty DEF Total
<1>2. ASSUME NEW x, c[x] \in Nat PROVE Total(c, {x}) = c[x]
  <2> DEFINE f == [m \in {x} |-> c[m]]
  <2>1. IsFiniteSet({x}) /\ f[x] = c[x] /\ \A m \in {x} : f[m] \in Int
    <3>1. IsFiniteSet({x})
      BY FS_Singleton
    <3>2. f[x] = c[x] /\ \A m \in {x} : f[m] = c[x]
      OBVIOUS
    <3> QED
      BY <1>2, <3>1, <3>2
  <2>2. Sum(f, {x}) = f[x] + Sum(f, {x} \ {x})
    <3> HIDE DEF f
    <3> QED
      BY <2>1, SumPoint
  <2>3. {x} \ {x} = {} /\ Sum(f, {}) = 0
    BY SumEmpty
  <2> QED
    BY <1>2, <2>1, <2>2, <2>3 DEF Total
<1> QED
  BY <1>1, <1>2

LEMMA FiniteQueue ==
    ASSUME NEW M, NEW queue \in Seq(M)
    PROVE  IsFiniteSet(Range(queue)) /\ Range(queue) \subseteq M
<1>1. DOMAIN queue = 1..Len(queue) /\ Len(queue) \in Nat /\ Range(queue) \subseteq M
  BY RangeIn
<1>2. IsFiniteSet(1..Len(queue))
  BY <1>1, FS_Interval
<1>3. queue \in Surjection(1..Len(queue), Range(queue))
  BY <1>1 DEF Surjection, Range
<1> QED
  BY <1>1, <1>2, <1>3, FS_Surjection

(* The same of what is charged to each of the two budgets.                 *)
OutParts ==
    \A M \in SUBSET Outgoing : IsFiniteSet(M) => \A A \in SUBSET M :
        /\ OutTotal(M) = OutTotal(A) + OutTotal(M \ A)
        /\ OutTotal(M) \in Nat /\ OutTotal(A) \in Nat /\ OutTotal(M \ A) \in Nat

InParts ==
    \A M \in SUBSET Incoming : IsFiniteSet(M) => \A A \in SUBSET M :
        /\ InTotal(M) = InTotal(A) + InTotal(M \ A)
        /\ InTotal(M) \in Nat /\ InTotal(A) \in Nat /\ InTotal(M \ A) \in Nat

LEMMA OutTotalParts ==
    /\ OutParts /\ OutTotal({}) = 0
    /\ \A m \in Outgoing : OutCharge(m) \in Nat /\ OutTotal({m}) = OutCharge(m)
<1> DEFINE c == [m \in Outgoing |-> OutCharge(m)]
<1>1. \A m \in Outgoing : OutCharge(m) \in Nat /\ c[m] = OutCharge(m) /\ c[m] \in Nat
  <2>1. OutRecord \in Nat /\ Sizes \subseteq Nat
    BY MessageQueuesAssumption
  <2>2. \A m \in Outgoing : OutCharge(m) \in Nat
    <3>1. \A m \in Outgoing : m.size \in Sizes
      BY DEF Outgoing
    <3>2. \A m \in Outgoing : m.size \in Nat
      BY <2>1, <3>1
    <3>3. \A k \in Nat : OutRecord + k \in Nat
      BY <2>1
    <3> QED
      BY <3>2, <3>3 DEF OutCharge
  <2> QED
    BY <2>2
<1>2. \A M \in SUBSET Outgoing : OutTotal(M) = Total(c, M)
  <2> SUFFICES ASSUME NEW M \in SUBSET Outgoing PROVE OutTotal(M) = Total(c, M)
    OBVIOUS
  <2>1. [m \in M |-> OutCharge(m)] = [m \in M |-> c[m]]
    BY <1>1
  <2> QED
    BY <2>1 DEF OutTotal, Total, Sum
<1> HIDE DEF c
<1>3. OutParts
  <2> SUFFICES ASSUME NEW M \in SUBSET Outgoing, IsFiniteSet(M), NEW A \in SUBSET M
               PROVE  /\ OutTotal(M) = OutTotal(A) + OutTotal(M \ A)
                      /\ OutTotal(M) \in Nat /\ OutTotal(A) \in Nat /\ OutTotal(M \ A) \in Nat
    BY DEF OutParts
  <2>1. A \in SUBSET Outgoing /\ M \ A \in SUBSET Outgoing
    OBVIOUS
  <2>2. /\ Total(c, M) = Total(c, A) + Total(c, M \ A)
        /\ Total(c, M) \in Nat /\ Total(c, A) \in Nat /\ Total(c, M \ A) \in Nat
    BY <1>1, TotalParts
  <2> QED
    BY <1>2, <2>1, <2>2
<1> QED
  BY <1>1, <1>2, <1>3, TotalEnds

LEMMA InTotalParts ==
    /\ InParts /\ InTotal({}) = 0
    /\ \A m \in Incoming : InCharge(m) \in Nat /\ InTotal({m}) = InCharge(m)
<1> DEFINE c == [m \in Incoming |-> InCharge(m)]
<1>1. \A m \in Incoming : InCharge(m) \in Nat /\ c[m] = InCharge(m) /\ c[m] \in Nat
  <2>1. InRecord \in Nat /\ Sizes \subseteq Nat
    BY MessageQueuesAssumption
  <2>2. \A m \in Incoming : InCharge(m) \in Nat
    <3>1. \A m \in Incoming : m.size \in Sizes
      BY DEF Incoming
    <3>2. \A m \in Incoming : m.size \in Nat
      BY <2>1, <3>1
    <3>3. \A k \in Nat : InRecord + k \in Nat
      BY <2>1
    <3> QED
      BY <3>2, <3>3 DEF InCharge
  <2> QED
    BY <2>2
<1>2. \A M \in SUBSET Incoming : InTotal(M) = Total(c, M)
  <2> SUFFICES ASSUME NEW M \in SUBSET Incoming PROVE InTotal(M) = Total(c, M)
    OBVIOUS
  <2>1. [m \in M |-> InCharge(m)] = [m \in M |-> c[m]]
    BY <1>1
  <2> QED
    BY <2>1 DEF InTotal, Total, Sum
<1> HIDE DEF c
<1>3. InParts
  <2> SUFFICES ASSUME NEW M \in SUBSET Incoming, IsFiniteSet(M), NEW A \in SUBSET M
               PROVE  /\ InTotal(M) = InTotal(A) + InTotal(M \ A)
                      /\ InTotal(M) \in Nat /\ InTotal(A) \in Nat /\ InTotal(M \ A) \in Nat
    BY DEF InParts
  <2>1. A \in SUBSET Incoming /\ M \ A \in SUBSET Incoming
    OBVIOUS
  <2>2. /\ Total(c, M) = Total(c, A) + Total(c, M \ A)
        /\ Total(c, M) \in Nat /\ Total(c, A) \in Nat /\ Total(c, M \ A) \in Nat
    BY <1>1, TotalParts
  <2> QED
    BY <1>2, <2>1, <2>2
<1> QED
  BY <1>1, <1>2, <1>3, TotalEnds

(* Weights of the slots: some are emptied, or one of them changes.          *)
LEMMA WeightsEmptied ==
    ASSUME NEW S, IsFiniteSet(S), NEW w \in [S -> Nat], NEW v \in [S -> Nat],
           NEW R \in SUBSET S, \A s \in R : v[s] = 0, \A s \in S \ R : v[s] = w[s]
    PROVE  /\ Sum(v, S) = Sum(w, S) - Sum(w, R)
           /\ Sum(w, S) \in Nat /\ Sum(w, R) \in Nat /\ Sum(v, S) \in Nat
<1>1. IsFiniteSet(R) /\ IsFiniteSet(S \ R)
  BY FS_Subset
<1>2. /\ \A s \in S : w[s] \in Int /\ v[s] \in Int /\ w[s] \in Nat /\ v[s] \in Nat
      /\ \A s \in R : w[s] \in Nat
      /\ \A s \in S \ R : w[s] \in Int
  OBVIOUS
<1>3. Sum(w, S) = Sum(w, R) + Sum(w, S \ R) /\ Sum(v, S) = Sum(v, R) + Sum(v, S \ R)
  BY <1>2, SumSplit
<1>4. Sum(v, R) = 0
  BY <1>1, SumZero
<1>5. Sum(v, S \ R) = Sum(w, S \ R)
  BY <1>1, <1>2, SumSame
<1>6. Sum(w, S) \in Nat /\ Sum(w, R) \in Nat /\ Sum(v, S) \in Nat /\ Sum(w, S \ R) \in Int
  BY <1>1, <1>2, SumNat, SumInt
<1> QED
  BY <1>3, <1>4, <1>5, <1>6

LEMMA WeightChanged ==
    ASSUME NEW S, IsFiniteSet(S), NEW w \in [S -> Nat], NEW v \in [S -> Nat],
           NEW e \in S, \A s \in S \ {e} : v[s] = w[s]
    PROVE  /\ Sum(v, S) = Sum(w, S) + v[e] - w[e]
           /\ Sum(w, S) \in Nat /\ Sum(v, S) \in Nat
<1>1. \A s \in S : w[s] \in Int /\ v[s] \in Int /\ w[s] \in Nat /\ v[s] \in Nat
  OBVIOUS
<1> QED
  BY <1>1, SumChange, SumNat

(* The charge of a slot's queue.                                           *)
Weight == [s \in Slots |-> OutTotal(Range(conn[s].outgoing))]

Weighed ==
    /\ Weight \in [Slots -> Nat]
    /\ \A s \in Slots : /\ Weight[s] = OutTotal(Range(conn[s].outgoing))
                        /\ IsFiniteSet(Range(conn[s].outgoing))
                        /\ Range(conn[s].outgoing) \in SUBSET Outgoing
    /\ \A S \in SUBSET Slots : OutOf(S) = Sum(Weight, S)

LEMMA WeightIs == Shapes => Weighed
<1> SUFFICES ASSUME Shapes PROVE Weighed
  OBVIOUS
<1>1. \A s \in Slots : /\ IsFiniteSet(Range(conn[s].outgoing))
                       /\ Range(conn[s].outgoing) \in SUBSET Outgoing
  BY PeersKnown, FiniteQueue
<1>2. \A s \in Slots : OutTotal(Range(conn[s].outgoing)) \in Nat
  <2> SUFFICES ASSUME NEW s \in Slots PROVE OutTotal(Range(conn[s].outgoing)) \in Nat
    OBVIOUS
  <2>1. {} \in SUBSET Range(conn[s].outgoing)
    OBVIOUS
  <2> QED
    BY <1>1, <2>1, OutTotalParts DEF OutParts
<1>3. /\ Weight \in [Slots -> Nat]
      /\ \A s \in Slots : Weight[s] = OutTotal(Range(conn[s].outgoing))
  BY <1>2 DEF Weight
<1>4. ASSUME NEW S \in SUBSET Slots PROVE OutOf(S) = Sum(Weight, S)
  <2> DEFINE g == [s \in S |-> OutTotal(Range(conn[s].outgoing))]
  <2>1. IsFiniteSet(S)
    BY MessageQueuesAssumption, FS_Subset
  <2>2. \A s \in S : g[s] = Weight[s] /\ Weight[s] \in Int
    BY <1>3
  <2>3. Sum(g, S) = Sum(Weight, S)
    <3> HIDE DEF g
    <3> QED
      BY <2>1, <2>2, SumSame
  <2> QED
    BY <2>3 DEF OutOf, Sum
<1> QED
  BY <1>1, <1>3, <1>4 DEF Weighed

(* The budget of the outgoing messages.                                    *)
OutExact == outBytes = OutOf(Slots) /\ outBytes <= Capacity

(* The queues at R are emptied, the others stay.                           *)
OutEnds(R) ==
    /\ R \in SUBSET Slots
    /\ \A s \in R : Range(conn'[s].outgoing) = {}
    /\ \A s \in Slots \ R : Range(conn'[s].outgoing) = Range(conn[s].outgoing)
    /\ outBytes' = outBytes - OutOf(R)

LEMMA OutEndsExact ==
    ASSUME Shapes, Shapes', OutExact, NEW R, OutEnds(R)
    PROVE  OutExact'
<1>1. Weighed /\ Weighed'
  <2>1. Shapes' => Weighed'
    BY WeightIs, PTL
  <2> QED
    BY <2>1, WeightIs
<1>2. Capacity \in Nat /\ IsFiniteSet(Slots)
  BY MessageQueuesAssumption
<1>3. R \in SUBSET Slots
  BY DEF OutEnds
<1>4. \A w, v : w = Weight /\ v = Weight' =>
         /\ w \in [Slots -> Nat] /\ v \in [Slots -> Nat]
         /\ \A s \in R : v[s] = 0
         /\ \A s \in Slots \ R : v[s] = w[s]
  <2>1. \A s \in Slots : /\ Weight[s] = OutTotal(Range(conn[s].outgoing))
                         /\ Weight'[s] = OutTotal(Range(conn'[s].outgoing))
    BY <1>1 DEF Weighed
  <2>2. \A s \in R : Weight'[s] = 0
    BY <1>3, <2>1, OutTotalParts DEF OutEnds
  <2>3. \A s \in Slots \ R : Weight'[s] = Weight[s]
    BY <2>1 DEF OutEnds
  <2>4. Weight \in [Slots -> Nat] /\ Weight' \in [Slots -> Nat]
    BY <1>1 DEF Weighed
  <2> QED
    BY <2>2, <2>3, <2>4
<1>5. \A w, v : w = Weight /\ v = Weight' =>
         /\ Sum(v, Slots) = Sum(w, Slots) - Sum(w, R)
         /\ Sum(w, Slots) \in Nat /\ Sum(w, R) \in Nat /\ Sum(v, Slots) \in Nat
  BY <1>2, <1>3, <1>4, WeightsEmptied
<1>6. /\ OutOf(Slots) = Sum(Weight, Slots) /\ OutOf(R) = Sum(Weight, R)
      /\ OutOf(Slots)' = Sum(Weight', Slots)
  <2>1. Slots \in SUBSET Slots
    OBVIOUS
  <2> QED
    BY <1>1, <1>3, <2>1 DEF Weighed, Sum
<1>7. /\ OutOf(Slots)' = OutOf(Slots) - OutOf(R)
      /\ OutOf(Slots) \in Nat /\ OutOf(R) \in Nat
  BY <1>5, <1>6
<1> QED
  BY <1>2, <1>7 DEF OutExact, OutEnds

(* One queue changes. *)
OutChanges(s) ==
    /\ \A t \in Slots \ {s} : conn'[t] = conn[t]
    /\ outBytes' = outBytes + OutTotal(Range(conn'[s].outgoing)) - OutTotal(Range(conn[s].outgoing))
    /\ outBytes' <= Capacity

LEMMA OutChangesExact ==
    ASSUME Shapes, Shapes', OutExact, NEW s \in Slots, OutChanges(s)
    PROVE  OutExact'
<1>1. Weighed /\ Weighed'
  <2>1. Shapes' => Weighed'
    BY WeightIs, PTL
  <2> QED
    BY <2>1, WeightIs
<1>2. IsFiniteSet(Slots)
  BY MessageQueuesAssumption
<1>3. \A t \in Slots : /\ Weight[t] = OutTotal(Range(conn[t].outgoing))
                       /\ Weight'[t] = OutTotal(Range(conn'[t].outgoing))
  BY <1>1 DEF Weighed
<1>4. \A w, v : w = Weight /\ v = Weight' =>
         /\ w \in [Slots -> Nat] /\ v \in [Slots -> Nat]
         /\ \A t \in Slots \ {s} : v[t] = w[t]
  <2>1. \A t \in Slots \ {s} : Weight'[t] = Weight[t]
    BY <1>3 DEF OutChanges
  <2>2. Weight \in [Slots -> Nat] /\ Weight' \in [Slots -> Nat]
    BY <1>1 DEF Weighed
  <2> QED
    BY <2>1, <2>2
<1>5. \A w, v : w = Weight /\ v = Weight' =>
         /\ Sum(v, Slots) = Sum(w, Slots) + v[s] - w[s]
         /\ Sum(w, Slots) \in Nat /\ Sum(v, Slots) \in Nat
  BY <1>2, <1>4, WeightChanged
<1>6. OutOf(Slots) = Sum(Weight, Slots) /\ OutOf(Slots)' = Sum(Weight', Slots)
  <2>1. Slots \in SUBSET Slots
    OBVIOUS
  <2> QED
    BY <1>1, <2>1 DEF Weighed, Sum
<1>7. OutOf(Slots)' = OutOf(Slots) + Weight'[s] - Weight[s]
  BY <1>5, <1>6
<1> QED
  BY <1>3, <1>7 DEF OutExact, OutChanges

(* The budget of what comes in: queued, retained, or in a callback's hands. *)
HandCharge == IF control.at = "Calling" THEN InCharge(control.message) ELSE 0

InExact ==
    /\ inBytes = InTotal(Range(incoming)) + HelloTotal(hellos) + HandCharge
    /\ inBytes <= Capacity

LEMMA Exact == BudgetsExact <=> OutExact /\ InExact
BY DEF BudgetsExact, OutExact, InExact, HandCharge

LEMMA HelloIs ==
    ASSUME NEW h \in [Slots -> Nat]
    PROVE  HelloTotal(h) = Sum(h, Slots) /\ HelloTotal(h) \in Nat
<1>1. IsFiniteSet(Slots) /\ \A s \in Slots : h[s] \in Nat
  BY MessageQueuesAssumption
<1> QED
  BY <1>1, SumNat DEF HelloTotal, Sum

(* Retained Hellos go or are replaced. *)
LEMMA HelloExpires ==
    ASSUME Shapes, NEW kept \in HellosAfterExpiry
    PROVE  /\ kept \in [Slots -> Nat]
           /\ HelloTotal(kept) \in Nat /\ HelloTotal(hellos) \in Nat
           /\ HelloTotal(kept) <= HelloTotal(hellos)
<1>1. PICK gone \in SUBSET Slots : kept = [s \in Slots |-> IF s \in gone THEN 0 ELSE hellos[s]]
  BY DEF HellosAfterExpiry
<1>2. hellos \in [Slots -> Nat] /\ kept \in [Slots -> Nat] /\ IsFiniteSet(Slots)
  BY <1>1, MessageQueuesAssumption DEF Shapes
<1>3. (\A s \in gone : kept[s] = 0) /\ \A s \in Slots \ gone : kept[s] = hellos[s]
  BY <1>1
<1>4. \A h : h = hellos => /\ Sum(kept, Slots) = Sum(h, Slots) - Sum(h, gone)
                           /\ Sum(h, gone) \in Nat
  BY <1>2, <1>3, WeightsEmptied
<1>5. Sum(kept, Slots) = Sum(hellos, Slots) - Sum(hellos, gone) /\ Sum(hellos, gone) \in Nat
  BY <1>4
<1>6. /\ HelloTotal(kept) = Sum(kept, Slots) /\ HelloTotal(kept) \in Nat
      /\ HelloTotal(hellos) = Sum(hellos, Slots) /\ HelloTotal(hellos) \in Nat
  BY <1>2, HelloIs
<1> QED
  BY <1>2, <1>5, <1>6

LEMMA HelloChanges ==
    ASSUME NEW h \in [Slots -> Nat], NEW s \in Slots, NEW charge \in Nat
    PROVE  /\ [h EXCEPT ![s] = charge] \in [Slots -> Nat]
           /\ HelloTotal([h EXCEPT ![s] = charge]) = HelloTotal(h) - h[s] + charge
           /\ HelloTotal([h EXCEPT ![s] = charge]) \in Nat
           /\ h[s] <= HelloTotal(h)
<1> DEFINE v == [h EXCEPT ![s] = charge]
           z == [h EXCEPT ![s] = 0]
<1>1. /\ v \in [Slots -> Nat] /\ z \in [Slots -> Nat] /\ v[s] = charge /\ z[s] = 0
      /\ (\A t \in Slots \ {s} : v[t] = h[t]) /\ (\A t \in Slots \ {s} : z[t] = h[t])
      /\ IsFiniteSet(Slots) /\ h[s] \in Nat
  BY MessageQueuesAssumption
<1> HIDE DEF v, z
<1>2. Sum(v, Slots) = Sum(h, Slots) + v[s] - h[s] /\ Sum(h, Slots) \in Nat
  BY <1>1, WeightChanged
<1>3. Sum(z, Slots) = Sum(h, Slots) + z[s] - h[s] /\ Sum(z, Slots) \in Nat
  BY <1>1, WeightChanged
<1>4. /\ HelloTotal(v) = Sum(v, Slots) /\ HelloTotal(v) \in Nat
      /\ HelloTotal(h) = Sum(h, Slots)
  BY <1>1, HelloIs
<1>5. h[s] <= HelloTotal(h) /\ HelloTotal(v) = HelloTotal(h) - h[s] + charge
  BY <1>1, <1>2, <1>3, <1>4
<1> QED
  BY <1>1, <1>4, <1>5 DEF v

LEMMA NoneRetained == NoHellos \in [Slots -> Nat] /\ HelloTotal(NoHellos) = 0
<1>1. /\ NoHellos \in [Slots -> Nat] /\ IsFiniteSet(Slots)
      /\ \A s \in Slots : NoHellos[s] = 0
  BY MessageQueuesAssumption DEF NoHellos
<1> QED
  BY <1>1, SumZero DEF HelloTotal, Sum

(* The parts are natural numbers. *)
Parts ==
    /\ IsFiniteSet(Range(incoming)) /\ Range(incoming) \in SUBSET Incoming
    /\ InTotal(Range(incoming)) \in Nat
    /\ HelloTotal(hellos) \in Nat /\ HandCharge \in Nat

LEMMA PartsAre == Shapes => Parts
<1> SUFFICES ASSUME Shapes PROVE Parts
  OBVIOUS
<1>1. IsFiniteSet(Range(incoming)) /\ Range(incoming) \in SUBSET Incoming
  BY FiniteQueue DEF Shapes
<1>2. InTotal(Range(incoming)) \in Nat
  <2>1. {} \in SUBSET Range(incoming)
    OBVIOUS
  <2> QED
    BY <1>1, <2>1, InTotalParts DEF InParts
<1>3. HelloTotal(hellos) \in Nat
  BY HelloIs DEF Shapes
<1>4. HandCharge \in Nat
  <2>1. CASE control.at = "Calling"
    <3>1. control.message \in Incoming
      BY <2>1 DEF Shapes, Controls, ControlIdle
    <3> QED
      BY <2>1, <3>1, InTotalParts DEF HandCharge
  <2>2. CASE control.at # "Calling"
    BY <2>2 DEF HandCharge
  <2> QED
    BY <2>1, <2>2
<1> QED
  BY <1>1, <1>2, <1>3, <1>4 DEF Parts

(* Messages and Hellos go. *)
InEnds(gone, released) ==
    /\ gone \in SUBSET Range(incoming)
    /\ Range(incoming') = Range(incoming) \ gone
    /\ HelloTotal(hellos') = HelloTotal(hellos) - released
    /\ inBytes' = inBytes - InTotal(gone) - released
    /\ control' = control

LEMMA InEndsExact ==
    ASSUME Shapes, InExact, NEW gone, NEW released \in Nat, InEnds(gone, released)
    PROVE  InExact'
<1>1. Parts
  BY PartsAre
<1>2. Capacity \in Nat
  BY MessageQueuesAssumption
<1>3. gone \in SUBSET Range(incoming) /\ Range(incoming) \in SUBSET Incoming /\ IsFiniteSet(Range(incoming))
  BY <1>1 DEF Parts, InEnds
<1>4. /\ InTotal(Range(incoming)) = InTotal(gone) + InTotal(Range(incoming) \ gone)
      /\ InTotal(gone) \in Nat /\ InTotal(Range(incoming) \ gone) \in Nat
  BY <1>3, InTotalParts DEF InParts
<1>5. /\ InTotal(Range(incoming')) = InTotal(Range(incoming) \ gone)
      /\ HandCharge' = HandCharge
      /\ HelloTotal(hellos') = HelloTotal(hellos) - released
      /\ inBytes' = inBytes - InTotal(gone) - released
  BY DEF InEnds, HandCharge
<1>6. inBytes' = InTotal(Range(incoming')) + HelloTotal(hellos') + HandCharge'
  BY <1>1, <1>4, <1>5 DEF InExact, Parts
<1>7. inBytes' <= Capacity
  BY <1>1, <1>2, <1>4, <1>5 DEF InExact, Parts
<1> QED
  BY <1>6, <1>7 DEF InExact

(* A message arrives. *)
InGains(m, released) ==
    /\ m \in Incoming /\ m \notin Range(incoming)
    /\ Range(incoming') = Range(incoming) \cup {m}
    /\ HelloTotal(hellos') = HelloTotal(hellos) - released
    /\ inBytes' = inBytes - released + InCharge(m)
    /\ inBytes' <= Capacity
    /\ control' = control

LEMMA InGainsExact ==
    ASSUME Shapes, Shapes', InExact, NEW m, NEW released \in Nat, InGains(m, released)
    PROVE  InExact'
<1>1. Parts /\ Parts'
  <2>1. Shapes' => Parts'
    BY PartsAre, PTL
  <2> QED
    BY <2>1, PartsAre
<1>2. /\ m \in Incoming /\ Range(incoming') \ {m} = Range(incoming)
      /\ {m} \in SUBSET Range(incoming')
  BY DEF InGains
<1>3. Range(incoming') \in SUBSET Incoming /\ IsFiniteSet(Range(incoming'))
  BY <1>1 DEF Parts
<1>4. InTotal(Range(incoming')) = InTotal({m}) + InTotal(Range(incoming') \ {m})
  BY <1>2, <1>3, InTotalParts DEF InParts
<1>5. InTotal({m}) = InCharge(m) /\ InCharge(m) \in Nat
  BY <1>2, InTotalParts
<1>6. InTotal(Range(incoming')) = InCharge(m) + InTotal(Range(incoming))
  BY <1>2, <1>4, <1>5
<1>7. /\ HandCharge' = HandCharge
      /\ HelloTotal(hellos') = HelloTotal(hellos) - released
      /\ inBytes' = inBytes - released + InCharge(m) /\ inBytes' <= Capacity
  BY DEF InGains, HandCharge
<1> QED
  BY <1>1, <1>5, <1>6, <1>7 DEF InExact, Parts

(* Nothing of it changes. *)
LEMMA InSame ==
    ASSUME InExact, UNCHANGED <<incoming, hellos, inBytes, control>>
    PROVE  InExact'
BY DEF InExact, HandCharge

LEMMA OutNat ==
    ASSUME Shapes, OutExact
    PROVE  outBytes \in Nat /\ OutOf(Slots) \in Nat
<1>1. Weighed /\ IsFiniteSet(Slots)
  BY WeightIs, MessageQueuesAssumption
<1>2. \A w : w = Weight => Sum(w, Slots) \in Nat
  BY <1>1, SumNat DEF Weighed
<1> QED
  BY <1>1, <1>2 DEF Weighed, OutExact

LEMMA OutSame ==
    ASSUME Shapes, Shapes', OutExact, UNCHANGED outBytes,
           \A s \in Slots : Range(conn'[s].outgoing) = Range(conn[s].outgoing)
    PROVE  OutExact'
<1>1. OutOf({}) = 0
  <2>1. OutOf({}) = Sum(Weight, {})
    BY WeightIs DEF Weighed
  <2> QED
    BY <2>1, SumEmpty
<1>2. OutOf(Slots) \in Nat
  BY OutNat
<1>3. OutEnds({})
  BY <1>1, <1>2 DEF OutEnds, OutExact
<1> QED
  BY <1>3, OutEndsExact

(* Every step keeps both.  The invariant says that a slot without a         *)
(* connection has no messages, and that no number is queued twice.          *)
Budgets == OutExact /\ InExact

LEMMA EmptySlots ==
    ASSUME Shapes, Outbound, NEW s \in Slots, conn[s].id = 0
    PROVE  Range(conn[s].outgoing) = {}
BY DEF Outbound, Serves

LEMMA DiscardExact ==
    ASSUME IInv, Shapes', Budgets, NEW R \in SUBSET Slots, NEW released \in Nat,
           Discard(R, released),
           \A s \in R : Range(conn'[s].outgoing) = {},
           \A s \in Slots \ R : Range(conn'[s].outgoing) = Range(conn[s].outgoing),
           HelloTotal(hellos') = HelloTotal(hellos) - released, control' = control
    PROVE  Budgets'
<1>1. Shapes /\ Increasing(incoming) /\ incoming \in Seq(Incoming) /\ Numbered(Incoming)
  BY DEF IInv, Shapes, Inbound, Numbered, Incoming
<1>2. OutEnds(R)
  BY DEF OutEnds, Discard
<1>3. Range(incoming') = Range(incoming) \ Arrived(R)
  BY <1>1, LeftInQueue DEF Discard
<1>4. InEnds(Arrived(R), released)
  <2>1. Arrived(R) \in SUBSET Range(incoming)
    BY DEF Arrived
  <2>2. inBytes' = inBytes - InTotal(Arrived(R)) - released
    BY DEF Discard
  <2> QED
    BY <1>3, <2>1, <2>2 DEF InEnds
<1>5. OutExact'
  BY <1>1, <1>2, OutEndsExact DEF Budgets
<1>6. InExact'
  BY <1>1, <1>4, InEndsExact DEF Budgets
<1> QED
  BY <1>5, <1>6 DEF Budgets

LEMMA SessionsExact ==
    ASSUME IInv, Shapes', Budgets, Begin \/ End \/ Reset
    PROVE  Budgets'
<1>1. Clear
  BY DEF Begin, End, Reset
<1>2. Shapes /\ Outbound /\ Live \in SUBSET Slots
  BY DEF IInv, Live
<1>3. \A s \in Slots : Range(conn'[s].outgoing) = {}
  BY <1>1, NoConnectionIs, EmptyQueue DEF Clear
<1>4. \A s \in Slots \ Live : Range(conn'[s].outgoing) = Range(conn[s].outgoing)
  BY <1>2, <1>3, EmptySlots DEF Live
<1>5. /\ HelloTotal(hellos) \in Nat
      /\ HelloTotal(hellos') = HelloTotal(hellos) - HelloTotal(hellos)
  <2>1. HelloTotal(hellos) \in Nat
    BY <1>2, PartsAre DEF Parts
  <2>2. HelloTotal(hellos') = 0
    BY <1>1, NoneRetained DEF Clear
  <2> QED
    BY <2>1, <2>2
<1>6. Discard(Live, HelloTotal(hellos)) /\ control' = control
  BY <1>1 DEF Clear
<1> QED
  BY <1>2, <1>3, <1>4, <1>5, <1>6, DiscardExact

LEMMA ConnectExact ==
    ASSUME IInv, Shapes', Budgets, NEW s \in Slots, Connect(s)
    PROVE  Budgets'
<1>1. Shapes /\ Outbound /\ ConnectEnds(s) \in SUBSET Slots /\ ConnectEnds(s) \subseteq Live
  BY DEF IInv, ConnectEnds, Live
<1>2. control' = control
  BY DEF Connect
<1> DEFINE id == count.peers + 1
<1>3. PICK phase \in NewPhases(s) :
        conn' = [x \in Slots |->
                   IF x = s THEN [NoConnection EXCEPT !.id = id, !.phase = phase]
                   ELSE IF x \in ConnectEnds(s) THEN NoConnection ELSE conn[x]]
  BY DEF Connect
<1>4. conn'[s].outgoing = <<>> /\ \A x \in ConnectEnds(s) : conn'[x].outgoing = <<>>
  BY <1>1, <1>3 DEF NoConnection
<1>5. \A x \in ConnectEnds(s) : Range(conn'[x].outgoing) = {}
  BY <1>4, EmptyQueue
<1>6. \A x \in Slots \ ConnectEnds(s) : Range(conn'[x].outgoing) = Range(conn[x].outgoing)
  <2> SUFFICES ASSUME NEW x \in Slots \ ConnectEnds(s)
               PROVE  Range(conn'[x].outgoing) = Range(conn[x].outgoing)
    OBVIOUS
  <2>1. CASE x = s
    <3>1. conn[s].id = 0
      <4>1. s \notin Live
        BY <2>1 DEF ConnectEnds
      <4> QED
        BY <4>1 DEF Live
    <3> QED
      BY <1>1, <1>4, <2>1, <3>1, EmptySlots, EmptyQueue
  <2>2. CASE x # s
    BY <1>3, <2>2
  <2> QED
    BY <2>1, <2>2
<1>7. PICK kept \in HellosAfterExpiry :
        /\ hellos' = [kept EXCEPT ![s] = 0]
        /\ Discard(ConnectEnds(s), HelloTotal(hellos) - HelloTotal(hellos'))
  BY DEF Connect
<1>8. /\ kept \in [Slots -> Nat] /\ HelloTotal(kept) \in Nat /\ HelloTotal(hellos) \in Nat
      /\ HelloTotal(kept) <= HelloTotal(hellos)
  BY <1>1, HelloExpires
<1>9. /\ HelloTotal(hellos') = HelloTotal(kept) - kept[s] + 0
      /\ HelloTotal(hellos') \in Nat /\ kept[s] \in Nat
  BY ZenonT(60), <1>7, <1>8, HelloChanges
<1> DEFINE released == HelloTotal(hellos) - HelloTotal(hellos')
<1>10. released \in Nat /\ HelloTotal(hellos') = HelloTotal(hellos) - released
  BY <1>8, <1>9
<1>11. Discard(ConnectEnds(s), released)
  BY <1>7
<1> HIDE DEF released
<1> QED
  BY <1>1, <1>2, <1>5, <1>6, <1>10, <1>11, DiscardExact

LEMMA DisconnectExact ==
    ASSUME IInv, Shapes', Budgets, NEW s \in Slots, Disconnect(s)
    PROVE  Budgets'
<1>1. Shapes /\ {s} \in SUBSET Slots /\ 0 \in Nat
  BY DEF IInv
<1>2. conn \in [Slots -> Connections] /\ conn' = [conn EXCEPT ![s] = NoConnection]
  BY <1>1 DEF Disconnect, Shapes
<1>3. \A x \in {s} : Range(conn'[x].outgoing) = {}
  BY <1>2, NoConnectionIs, EmptyQueue
<1>4. \A x \in Slots \ {s} : Range(conn'[x].outgoing) = Range(conn[x].outgoing)
  BY <1>2
<1>5. Discard({s}, 0) /\ control' = control /\ hellos' = hellos
  BY DEF Disconnect
<1>6. HelloTotal(hellos') = HelloTotal(hellos) - 0
  BY <1>1, <1>5, PartsAre DEF Parts
<1> QED
  BY <1>1, <1>3, <1>4, <1>5, <1>6, DiscardExact

(* One connection fails, and some Hellos may expire with it.               *)
LEMMA FailsExact ==
    ASSUME IInv, Shapes', Budgets, NEW s \in Slots, conn' = [conn EXCEPT ![s] = Failed(@)],
           NEW released \in Nat, Discard({s}, released),
           HelloTotal(hellos') = HelloTotal(hellos) - released, control' = control
    PROVE  Budgets'
<1>1. Shapes /\ {s} \in SUBSET Slots
  BY DEF IInv
<1>2. conn \in [Slots -> Connections] /\ conn[s] \in Connections
  BY <1>1 DEF Shapes
<1>3. conn'[s] = Failed(conn[s]) /\ \A x \in Slots \ {s} : conn'[x] = conn[x]
  BY <1>2
<1>4. \A x \in {s} : Range(conn'[x].outgoing) = {}
  BY <1>2, <1>3, FailedIs, EmptyQueue
<1>5. \A x \in Slots \ {s} : Range(conn'[x].outgoing) = Range(conn[x].outgoing)
  BY <1>3
<1> QED
  BY <1>1, <1>4, <1>5, DiscardExact

LEMMA SlotFailsExact ==
    ASSUME IInv, Shapes', Budgets, NEW s \in Slots, conn' = [conn EXCEPT ![s] = Failed(@)],
           Discard({s}, 0), UNCHANGED <<hellos, control>>
    PROVE  Budgets'
<1>1. HelloTotal(hellos') = HelloTotal(hellos) - 0 /\ 0 \in Nat
  BY PartsAre DEF Parts, IInv
<1> QED
  BY <1>1, FailsExact

LEMMA CarrierExact ==
    ASSUME IInv, Shapes', Budgets, CarrierFailed
    PROVE  Budgets'
<1> DEFINE remote == {s \in Slots : Remote(s)}
<1>1. Shapes /\ remote \in SUBSET Slots
  BY DEF IInv
<1>2. /\ conn \in [Slots -> Connections] /\ control' = control
      /\ conn' = [s \in Slots |-> IF s \in remote THEN Failed(conn[s]) ELSE conn[s]]
      /\ Discard(remote, HelloTotal(hellos))
  BY <1>1 DEF CarrierFailed, Shapes
<1> HIDE DEF remote
<1>3. \A s \in remote : conn'[s] = Failed(conn[s]) /\ conn[s] \in Connections
  BY <1>1, <1>2
<1>4. \A s \in remote : Range(conn'[s].outgoing) = {}
  BY <1>3, FailedIs, EmptyQueue
<1>5. \A s \in Slots \ remote : Range(conn'[s].outgoing) = Range(conn[s].outgoing)
  BY <1>2
<1>6. HelloTotal(hellos) \in Nat /\ HelloTotal(hellos') = HelloTotal(hellos) - HelloTotal(hellos)
  <2>1. HelloTotal(hellos) \in Nat
    BY <1>1, PartsAre DEF Parts
  <2>2. HelloTotal(hellos') = 0
    BY NoneRetained DEF CarrierFailed
  <2> QED
    BY <2>1, <2>2
<1> QED
  BY <1>1, <1>2, <1>4, <1>5, <1>6, DiscardExact

(* Nothing is queued, retained or taken. *)
LEMMA QuietExact ==
    ASSUME IInv, Shapes', Budgets, UNCHANGED <<outBytes, inBytes, incoming, hellos, control>>,
           \A s \in Slots : Range(conn'[s].outgoing) = Range(conn[s].outgoing)
    PROVE  Budgets'
<1>1. OutExact'
  BY OutSame DEF IInv, Budgets
<1>2. InExact'
  BY InSame DEF Budgets
<1> QED
  BY <1>1, <1>2 DEF Budgets

LEMMA ConnectionsExact ==
    ASSUME IInv, Shapes', Budgets, NEW s \in Slots, Negotiate(s) \/ PeerFails(s)
    PROVE  Budgets'
<1>1. conn \in [Slots -> Connections] /\ \A t \in Slots : conn[t] \in Connections
  BY DEF IInv, Shapes
<1>2. ASSUME NEW c \in Connections, NEW phase, NEW supported, NEW failed, NEW notice
      PROVE  /\ [c EXCEPT !.phase = phase].outgoing = c.outgoing
             /\ [c EXCEPT !.phase = phase, !.supported = supported].outgoing = c.outgoing
             /\ [c EXCEPT !.failed = failed, !.notice = notice].outgoing = c.outgoing
  BY DEF Connections
<1>3. ASSUME Negotiate(s) PROVE conn'[s].outgoing = conn[s].outgoing /\ \A t \in Slots \ {s} : conn'[t] = conn[t]
  <2>1. CASE \E supported, phase : conn' = [conn EXCEPT ![s].phase = phase, ![s].supported = supported]
    <3>1. PICK supported, phase : conn' = [conn EXCEPT ![s].phase = phase, ![s].supported = supported]
      BY <2>1
    <3>2. conn'[s] = [conn[s] EXCEPT !.phase = phase, !.supported = supported]
          /\ \A t \in Slots \ {s} : conn'[t] = conn[t]
      BY <1>1, <3>1
    <3> QED
      BY <1>1, <1>2, <3>2
  <2>2. CASE \E phase : conn' = [conn EXCEPT ![s].phase = phase]
    <3>1. PICK phase : conn' = [conn EXCEPT ![s].phase = phase]
      BY <2>2
    <3>2. conn'[s] = [conn[s] EXCEPT !.phase = phase]
          /\ \A t \in Slots \ {s} : conn'[t] = conn[t]
      BY <1>1, <3>1
    <3> QED
      BY <1>1, <1>2, <3>2
  <2> QED
    BY <1>3, <2>1, <2>2 DEF Negotiate
<1>4. ASSUME PeerFails(s) PROVE conn'[s].outgoing = conn[s].outgoing /\ \A t \in Slots \ {s} : conn'[t] = conn[t]
  <2>1. PICK f \in Paths :
          conn' = [conn EXCEPT ![s].failed = conn[s].failed \cup {f}, ![s].notice = conn[s].notice \ {f}]
    BY <1>4 DEF PeerFails
  <2>2. conn'[s] = [conn[s] EXCEPT !.failed = conn[s].failed \cup {f}, !.notice = conn[s].notice \ {f}]
        /\ \A t \in Slots \ {s} : conn'[t] = conn[t]
    BY <1>1, <2>1
  <2> QED
    BY <1>1, <1>2, <2>2
<1>5. \A t \in Slots : Range(conn'[t].outgoing) = Range(conn[t].outgoing)
  BY <1>3, <1>4
<1>6. UNCHANGED <<outBytes, inBytes, incoming, hellos, control>>
  BY DEF Negotiate, PeerFails
<1> QED
  BY <1>5, <1>6, QuietExact

LEMMA ConnectionFailsExact ==
    ASSUME IInv, Shapes', Budgets, NEW s \in Slots, ConnectionFails(s)
    PROVE  Budgets'
BY SlotFailsExact DEF ConnectionFails

(* The expiry of retained Hellos. *)
LEMMA ExpiryExact ==
    ASSUME IInv, Shapes', Budgets, NEW kept \in HellosAfterExpiry, hellos' = kept,
           inBytes' = inBytes - (HelloTotal(hellos) - HelloTotal(kept)),
           UNCHANGED <<conn, incoming, outBytes, control>>
    PROVE  Budgets'
<1>1. Shapes /\ Parts
  BY PartsAre DEF IInv
<1>2. /\ HelloTotal(kept) \in Nat /\ HelloTotal(hellos) \in Nat
      /\ HelloTotal(kept) <= HelloTotal(hellos)
  BY <1>1, HelloExpires
<1>3. OutExact'
  BY <1>1, OutSame DEF Budgets
<1>4. Capacity \in Nat
  BY MessageQueuesAssumption
<1>5. InTotal(Range(incoming')) = InTotal(Range(incoming)) /\ HandCharge' = HandCharge
  BY DEF HandCharge
<1>6. HelloTotal(hellos') = HelloTotal(kept)
  OBVIOUS
<1>7. InExact'
  BY <1>1, <1>2, <1>4, <1>5, <1>6 DEF InExact, Parts, Budgets
<1> QED
  BY <1>3, <1>7 DEF Budgets

LEMMA HellosExact ==
    ASSUME IInv, Shapes', Budgets, ExpireHellos \/ PumpBegin
    PROVE  Budgets'
<1>1. PICK kept \in HellosAfterExpiry :
        /\ hellos' = kept
        /\ inBytes' = inBytes - (HelloTotal(hellos) - HelloTotal(kept))
  BY DEF ExpireHellos, PumpBegin
<1>2. UNCHANGED <<conn, incoming, outBytes, control>>
  BY DEF ExpireHellos, PumpBegin
<1> QED
  BY <1>1, <1>2, ExpiryExact

LEMMA RetainExact ==
    ASSUME IInv, Shapes', Budgets, NEW s \in Slots, RetainHello(s)
    PROVE  Budgets'
<1>1. Shapes /\ Parts
  BY PartsAre DEF IInv
<1>2. PICK kept \in HellosAfterExpiry, charge \in HelloCharges :
        LET free == HelloTotal(hellos) - HelloTotal(kept)
        IN  IF inBytes - free - kept[s] + charge <= Capacity
            THEN /\ hellos' = [kept EXCEPT ![s] = charge]
                 /\ inBytes' = inBytes - free - kept[s] + charge
            ELSE /\ hellos' = kept
                 /\ inBytes' = inBytes - free
  BY DEF RetainHello
<1>3. UNCHANGED <<conn, incoming, outBytes, control>>
  BY DEF RetainHello
<1>4. /\ kept \in [Slots -> Nat] /\ HelloTotal(kept) \in Nat /\ HelloTotal(hellos) \in Nat
      /\ HelloTotal(kept) <= HelloTotal(hellos)
  BY <1>1, HelloExpires
<1>5. charge \in Nat /\ Capacity \in Nat /\ kept[s] \in Nat
  BY <1>4, MessageQueuesAssumption
<1>6. CASE hellos' = kept /\ inBytes' = inBytes - (HelloTotal(hellos) - HelloTotal(kept))
  BY <1>3, <1>6, ExpiryExact
<1>7. CASE /\ hellos' = [kept EXCEPT ![s] = charge]
           /\ inBytes' = inBytes - (HelloTotal(hellos) - HelloTotal(kept)) - kept[s] + charge
           /\ inBytes - (HelloTotal(hellos) - HelloTotal(kept)) - kept[s] + charge <= Capacity
  <2>1. HelloTotal(hellos') = HelloTotal(kept) - kept[s] + charge
    BY ZenonT(60), <1>4, <1>5, <1>7, HelloChanges
  <2>2. InTotal(Range(incoming')) = InTotal(Range(incoming)) /\ HandCharge' = HandCharge
    BY <1>3 DEF HandCharge
  <2>3. InExact'
    <3>1. inBytes = InTotal(Range(incoming)) + HelloTotal(hellos) + HandCharge
      BY DEF InExact, Budgets
    <3>2. InTotal(Range(incoming)) \in Nat /\ HandCharge \in Nat
      BY <1>1 DEF Parts
    <3>3. inBytes' = InTotal(Range(incoming')) + HelloTotal(hellos') + HandCharge' /\ inBytes' <= Capacity
      BY <1>4, <1>5, <1>7, <2>1, <2>2, <3>1, <3>2
    <3> QED
      BY <3>3 DEF InExact
  <2>4. OutExact'
    BY <1>1, <1>3, OutSame DEF Budgets
  <2> QED
    BY <2>3, <2>4 DEF Budgets
<1> QED
  BY <1>2, <1>6, <1>7

LEMMA ArrivesExact ==
    ASSUME IInv, Shapes', InExact, NEW m \in Incoming, m.n = count.arrivals + 1,
           incoming' = Append(incoming, m),
           NEW released \in Nat, HelloTotal(hellos') = HelloTotal(hellos) - released,
           inBytes' = inBytes - released + InCharge(m), inBytes' <= Capacity,
           control' = control
    PROVE  InExact'
<1>1. Shapes /\ incoming \in Seq(Incoming) /\ Increasing(incoming) /\ Numbered(Incoming)
  BY DEF IInv, Shapes, Inbound, Numbered, Incoming
<1>2. \A other \in Range(incoming) : other.n < m.n
  <2>1. \A other \in Range(incoming) : other \in Incoming /\ other.n <= count.arrivals
    BY <1>1, PeersKnown DEF IInv, Inbound
  <2>2. (\A other \in Range(incoming) : other.n \in Nat) /\ count.arrivals \in Nat
    BY <1>1, <2>1, PeersKnown DEF Numbered
  <2> QED
    BY <2>1, <2>2
<1>3. Range(incoming') = Range(incoming) \cup {m}
  BY <1>1, <1>2, AppendedQueue
<1>4. m \notin Range(incoming)
  <2>1. m.n \in Nat
    BY <1>1 DEF Numbered
  <2> QED
    BY <1>2, <2>1
<1>5. InGains(m, released)
  BY <1>3, <1>4 DEF InGains
<1> QED
  BY <1>1, <1>5, InGainsExact

LEMMA ReceiveExact ==
    ASSUME IInv, Shapes', Budgets, NEW s \in Slots, ReceiveData(s)
    PROVE  Budgets'
<1>1. Shapes /\ Parts /\ incoming \in Seq(Incoming) /\ Increasing(incoming) /\ Numbered(Incoming)
  BY PartsAre DEF IInv, Shapes, Inbound, Numbered, Incoming
<1>2. PICK kept \in HellosAfterExpiry, size \in Sizes,
           o \in {x \in Objects : (IF Mode = "Client" THEN "Client" ELSE "Host") \in FrozenRoles(x)} :
        LET m == [n |-> count.arrivals + 1, feature |-> o,
                  peer |-> IF Mode = "Client" THEN host ELSE conn[s].id,
                  connection |-> conn[s].id, size |-> size]
            released == HelloTotal(hellos) - HelloTotal(kept)
        IN  /\ hellos' = kept
            /\ IF InCharge(m) + inBytes - released <= Capacity
               THEN /\ incoming' = Append(incoming, m)
                    /\ inBytes' = inBytes - released + InCharge(m)
                    /\ UNCHANGED <<conn, outBytes>>
               ELSE /\ conn' = [conn EXCEPT ![s] = Failed(@)]
                    /\ Discard({s}, released)
  BY DEF ReceiveData
<1> DEFINE m == [n |-> count.arrivals + 1, feature |-> o,
                 peer |-> IF Mode = "Client" THEN host ELSE conn[s].id,
                 connection |-> conn[s].id, size |-> size]
           released == HelloTotal(hellos) - HelloTotal(kept)
<1>3. /\ HelloTotal(kept) \in Nat /\ HelloTotal(hellos) \in Nat
      /\ HelloTotal(kept) <= HelloTotal(hellos)
  BY <1>1, HelloExpires
<1>4. /\ released \in Nat /\ control' = control
      /\ HelloTotal(hellos') = HelloTotal(hellos) - released
  BY <1>2, <1>3 DEF ReceiveData
<1>5. CASE InCharge(m) + inBytes - released <= Capacity
  <2>1. /\ incoming' = Append(incoming, m) /\ UNCHANGED <<conn, outBytes>>
        /\ inBytes' = inBytes - released + InCharge(m)
    BY <1>2, <1>5
  <2>2. m \in Incoming /\ m.n = count.arrivals + 1
    BY <1>1, PeersKnown DEF Incoming, Shapes
  <2> HIDE DEF m
  <2>3. inBytes \in Nat /\ InCharge(m) \in Nat
    <3>1. inBytes = InTotal(Range(incoming)) + HelloTotal(hellos) + HandCharge
      BY DEF Budgets, InExact
    <3>2. InTotal(Range(incoming)) \in Nat /\ HandCharge \in Nat
      BY <1>1 DEF Parts
    <3>3. InCharge(m) \in Nat
      BY <2>2, InTotalParts
    <3> QED
      BY <1>3, <3>1, <3>2, <3>3
  <2> HIDE DEF released
  <2>4. inBytes' <= Capacity
    BY <1>4, <1>5, <2>1, <2>3, MessageQueuesAssumption
  <2>5. InExact'
    BY <1>4, <2>1, <2>2, <2>4, ArrivesExact DEF Budgets
  <2>6. OutExact'
    BY <1>1, <2>1, OutSame DEF Budgets
  <2> QED
    BY <2>5, <2>6 DEF Budgets
<1>6. CASE ~(InCharge(m) + inBytes - released <= Capacity)
  <2>1. conn' = [conn EXCEPT ![s] = Failed(@)] /\ Discard({s}, released)
    BY <1>2, <1>6
  <2> HIDE DEF released, m
  <2> QED
    BY <1>4, <2>1, FailsExact
<1> QED
  BY <1>5, <1>6

(* Some messages of one queue go. *)
LEMMA OutLeavesExact ==
    ASSUME Shapes, Shapes', OutExact, NEW s \in Slots, NEW own \in SUBSET Range(conn[s].outgoing),
           \A t \in Slots \ {s} : conn'[t] = conn[t],
           Range(conn'[s].outgoing) = Range(conn[s].outgoing) \ own,
           outBytes' = outBytes - OutTotal(own)
    PROVE  OutExact'
<1>1. Range(conn[s].outgoing) \in SUBSET Outgoing /\ IsFiniteSet(Range(conn[s].outgoing))
  BY WeightIs DEF Weighed
<1>2. /\ OutTotal(Range(conn[s].outgoing)) = OutTotal(own) + OutTotal(Range(conn[s].outgoing) \ own)
      /\ OutTotal(own) \in Nat /\ OutTotal(Range(conn[s].outgoing) \ own) \in Nat
  BY <1>1, OutTotalParts DEF OutParts
<1>3. OutTotal(Range(conn'[s].outgoing)) = OutTotal(Range(conn[s].outgoing) \ own)
  OBVIOUS
<1>4. outBytes \in Nat /\ outBytes <= Capacity /\ Capacity \in Nat
  BY OutNat, MessageQueuesAssumption DEF OutExact
<1>5. OutChanges(s)
  BY <1>2, <1>3, <1>4 DEF OutChanges
<1> QED
  BY <1>5, OutChangesExact

LEMMA PopExact ==
    ASSUME IInv, Shapes', OutExact, NEW s \in Slots, conn[s].outgoing # <<>>,
           conn' = [conn EXCEPT ![s].outgoing = Tail(@)],
           outBytes' = outBytes - OutCharge(Head(conn[s].outgoing))
    PROVE  OutExact'
<1>1. /\ Shapes /\ conn[s].outgoing \in Seq(Outgoing) /\ Increasing(conn[s].outgoing)
      /\ Numbered(Outgoing)
  BY PeersKnown DEF IInv, Outbound, Numbered, Outgoing
<1>2. /\ Tail(conn[s].outgoing) \in Seq(Outgoing)
      /\ Range(Tail(conn[s].outgoing)) = Range(conn[s].outgoing) \ {Head(conn[s].outgoing)}
      /\ Head(conn[s].outgoing) \in Range(conn[s].outgoing) /\ Head(conn[s].outgoing) \in Outgoing
  BY <1>1, FrontOfQueue
<1>3. (\A t \in Slots \ {s} : conn'[t] = conn[t]) /\ conn'[s].outgoing = Tail(conn[s].outgoing)
  BY <1>1, <1>2, NewQueue
<1>4. OutTotal({Head(conn[s].outgoing)}) = OutCharge(Head(conn[s].outgoing))
  BY <1>2, OutTotalParts
<1> DEFINE own == {Head(conn[s].outgoing)}
<1>5. /\ own \in SUBSET Range(conn[s].outgoing)
      /\ Range(conn'[s].outgoing) = Range(conn[s].outgoing) \ own
      /\ outBytes' = outBytes - OutTotal(own)
  BY <1>2, <1>3, <1>4
<1> HIDE DEF own
<1> QED
  BY <1>1, <1>3, <1>5, OutLeavesExact

LEMMA SendExact ==
    ASSUME IInv, Shapes', Budgets, NEW o \in Objects, NEW peer \in 1..MaxPeers, Send(o, peer)
    PROVE  Budgets'
<1>1. PICK size \in Sizes, s \in Route(o, peer) :
        LET m == [n |-> count.sends + 1, feature |-> o, peer |-> peer, size |-> size]
        IN  /\ outBytes + OutCharge(m) <= Capacity
            /\ conn' = [conn EXCEPT ![s].outgoing = Append(@, m)]
            /\ outBytes' = outBytes + OutCharge(m)
  BY DEF Send
<1> DEFINE m == [n |-> count.sends + 1, feature |-> o, peer |-> peer, size |-> size]
<1>2. /\ outBytes + OutCharge(m) <= Capacity
      /\ conn' = [conn EXCEPT ![s].outgoing = Append(conn[s].outgoing, m)]
      /\ outBytes' = outBytes + OutCharge(m)
      /\ UNCHANGED <<incoming, hellos, inBytes, control>>
  BY <1>1 DEF Send
<1>3. /\ Shapes /\ s \in Slots /\ conn[s].outgoing \in Seq(Outgoing)
      /\ Increasing(conn[s].outgoing) /\ Numbered(Outgoing)
  <2>1. s \in Slots
    BY DEF Route, Live
  <2> QED
    BY <2>1, PeersKnown DEF IInv, Outbound, Numbered, Outgoing
<1>4. m \in Outgoing /\ m.n = count.sends + 1 /\ count.sends \in Nat
  BY <1>3, PeersKnown DEF Outgoing
<1> HIDE DEF m
<1>5. \A other \in Range(conn[s].outgoing) : other.n < m.n
  <2>1. \A other \in Range(conn[s].outgoing) : other.n <= count.sends /\ other.n \in Nat
    BY <1>3, PeersKnown DEF IInv, Outbound, Numbered
  <2> QED
    BY <1>4, <2>1
<1>6. /\ Append(conn[s].outgoing, m) \in Seq(Outgoing)
      /\ Range(Append(conn[s].outgoing, m)) = Range(conn[s].outgoing) \cup {m}
  BY <1>3, <1>4, <1>5, AppendedQueue
<1>7. /\ \A t \in Slots \ {s} : conn'[t] = conn[t]
      /\ Range(conn'[s].outgoing) = Range(conn[s].outgoing) \cup {m}
  BY <1>2, <1>3, <1>6, NewQueue
<1>8. m \notin Range(conn[s].outgoing)
  BY <1>4, <1>5
<1>9. /\ Range(conn'[s].outgoing) \in SUBSET Outgoing /\ IsFiniteSet(Range(conn'[s].outgoing))
      /\ {m} \in SUBSET Range(conn'[s].outgoing)
      /\ Range(conn'[s].outgoing) \ {m} = Range(conn[s].outgoing)
  <2>1. Shapes' => Weighed'
    BY WeightIs, PTL
  <2> QED
    BY <1>3, <1>7, <1>8, <2>1 DEF Weighed
<1>10. /\ OutTotal(Range(conn'[s].outgoing)) = OutTotal({m}) + OutTotal(Range(conn'[s].outgoing) \ {m})
       /\ OutTotal({m}) \in Nat /\ OutTotal(Range(conn'[s].outgoing) \ {m}) \in Nat
  BY <1>9, OutTotalParts DEF OutParts
<1>11. /\ OutTotal(Range(conn'[s].outgoing)) = OutCharge(m) + OutTotal(Range(conn[s].outgoing))
       /\ OutCharge(m) \in Nat /\ OutTotal(Range(conn[s].outgoing)) \in Nat
  BY <1>4, <1>9, <1>10, OutTotalParts
<1>12. OutChanges(s)
  <2>1. outBytes \in Nat
    BY <1>3, OutNat DEF Budgets
  <2>2. outBytes' = outBytes + OutTotal(Range(conn'[s].outgoing)) - OutTotal(Range(conn[s].outgoing))
    BY <1>2, <1>11, <2>1
  <2> QED
    BY <1>2, <1>7, <2>2 DEF OutChanges
<1>13. OutExact'
  BY <1>3, <1>12, OutChangesExact DEF Budgets
<1>14. InExact'
  BY <1>2, InSame DEF Budgets
<1> QED
  BY <1>13, <1>14 DEF Budgets

LEMMA FailExact ==
    ASSUME IInv, Shapes', Budgets, NEW o \in Objects, NEW peer \in 1..MaxPeers, Fail(o, peer)
    PROVE  Budgets'
<1>1. PICK s \in Route(o, peer) :
        LET own == {m \in Range(conn[s].outgoing) : m.feature.id = o.id}
        IN  /\ conn' = [conn EXCEPT
                 ![s].failed = @ \cup {o.id},
                 ![s].notice = IF IsLocal(s) THEN @ ELSE @ \cup {o.id},
                 ![s].outgoing = Without(@, own)]
            /\ outBytes' = outBytes - OutTotal(own)
  BY DEF Fail
<1> DEFINE own == {m \in Range(conn[s].outgoing) : m.feature.id = o.id}
           left == Without(conn[s].outgoing, own)
           failed == conn[s].failed \cup {o.id}
           notice == IF IsLocal(s) THEN conn[s].notice ELSE conn[s].notice \cup {o.id}
<1>2. /\ Shapes /\ s \in Slots /\ conn[s].outgoing \in Seq(Outgoing) /\ conn[s] \in Connections
      /\ Increasing(conn[s].outgoing) /\ Numbered(Outgoing) /\ conn \in [Slots -> Connections]
  <2>1. s \in Slots
    BY DEF Route, Live
  <2> QED
    BY <2>1, PeersKnown DEF IInv, Shapes, Outbound, Numbered, Outgoing
<1>3. /\ conn'[s] = [conn[s] EXCEPT !.failed = failed, !.notice = notice, !.outgoing = left]
      /\ \A t \in Slots \ {s} : conn'[t] = conn[t]
      /\ outBytes' = outBytes - OutTotal(own) /\ own \in SUBSET Range(conn[s].outgoing)
  BY <1>1, <1>2
<1> HIDE DEF own, left, failed, notice
<1>4. \A c \in Connections : [c EXCEPT !.failed = failed, !.notice = notice, !.outgoing = left].outgoing = left
  BY DEF Connections
<1>5. Range(conn'[s].outgoing) = Range(conn[s].outgoing) \ own
  BY <1>2, <1>3, <1>4, LeftInQueue DEF left
<1>6. OutExact'
  BY <1>2, <1>3, <1>5, OutLeavesExact DEF Budgets
<1>7. InExact'
  BY InSame DEF Budgets, Fail
<1> QED
  BY <1>6, <1>7 DEF Budgets

LEMMA PumpDropExact ==
    ASSUME IInv, Shapes', Budgets, PumpDrop
    PROVE  Budgets'
<1>1. PICK s \in At(pump.peer) :
        /\ Stale(s) /\ conn' = [conn EXCEPT ![s].outgoing = Tail(@)]
        /\ outBytes' = outBytes - OutCharge(Head(conn[s].outgoing))
  BY DEF PumpDrop
<1>2. s \in Slots /\ conn[s].outgoing # <<>>
  <2>1. \E frame \in FrontFrames(s) : frame.kind = "Data"
    BY <1>1 DEF Stale
  <2> QED
    BY <2>1 DEF FrontFrames, At, Live
<1>3. OutExact'
  BY <1>1, <1>2, PopExact DEF Budgets
<1>4. InExact'
  BY InSame DEF Budgets, PumpDrop
<1> QED
  BY <1>3, <1>4 DEF Budgets

LEMMA PumpLocalExact ==
    ASSUME IInv, Shapes', Budgets, PumpLocal
    PROVE  Budgets'
<1>1. Shapes /\ UNCHANGED <<hellos, control>>
  BY DEF IInv, PumpLocal
<1>2. PICK s \in At(pump.peer) :
         LET m == Head(conn[s].outgoing)
             popped == [conn EXCEPT ![s].outgoing = Tail(@)]
             arrival(o) == [n |-> count.arrivals + 1, feature |-> o,
                            peer |-> IF m.peer = host THEN local ELSE host,
                            connection |-> conn[s].id, size |-> m.size]
         IN  /\ IsLocal(s)
             /\ conn[s].outgoing # <<>>
             /\ IF LocalRecipient(m) = {} \/ Agreement(m.feature, m.peer) # "Compatible"
                THEN /\ conn' = popped
                     /\ outBytes' = outBytes - OutCharge(m)
                     /\ UNCHANGED <<incoming, inBytes, sent, count>>
                ELSE IF inBytes + InRecord + m.size > Capacity
                THEN /\ conn' = [conn EXCEPT ![s] = Failed(@)]
                     /\ Discard({s}, 0)
                     /\ UNCHANGED <<sent, count>>
                ELSE /\ conn' = popped
                     /\ outBytes' = outBytes - OutCharge(m)
                     /\ \E o \in LocalRecipient(m) : incoming' = Append(incoming, arrival(o))
                     /\ inBytes' = inBytes + InRecord + m.size
                     /\ sent' = Sent(s, m.n)
                     /\ count' = [count EXCEPT !.arrivals = @ + 1]
  BY DEF PumpLocal
<1> DEFINE m == Head(conn[s].outgoing)
           arrival(o) == [n |-> count.arrivals + 1, feature |-> o,
                          peer |-> IF m.peer = host THEN local ELSE host,
                          connection |-> conn[s].id, size |-> m.size]
           Popped == /\ conn' = [conn EXCEPT ![s].outgoing = Tail(@)]
                     /\ outBytes' = outBytes - OutCharge(Head(conn[s].outgoing))
<1>3. s \in Slots /\ conn[s].outgoing # <<>> /\ m \in Outgoing
  <2>1. s \in Slots /\ conn[s].outgoing # <<>>
    BY <1>2 DEF At, Live
  <2> QED
    BY <2>1, FrontIsServed
<1>4. \/ Popped /\ UNCHANGED <<incoming, inBytes>>
      \/ conn' = [conn EXCEPT ![s] = Failed(@)] /\ Discard({s}, 0)
      \/ /\ Popped
         /\ \E o \in LocalRecipient(m) : incoming' = Append(incoming, arrival(o))
         /\ inBytes' = inBytes + InRecord + m.size
         /\ ~(inBytes + InRecord + m.size > Capacity)
  BY <1>2
<1>5. ASSUME Popped PROVE OutExact'
  BY <1>3, <1>5, PopExact DEF Budgets
<1> HIDE DEF Popped
<1>6. CASE Popped /\ UNCHANGED <<incoming, inBytes>>
  <2>1. InExact'
    BY <1>1, <1>6, InSame DEF Budgets
  <2> QED
    BY <1>5, <1>6, <2>1 DEF Budgets
<1>7. CASE conn' = [conn EXCEPT ![s] = Failed(@)] /\ Discard({s}, 0)
  BY <1>1, <1>3, <1>7, SlotFailsExact
<1>8. CASE /\ Popped
           /\ \E o \in LocalRecipient(m) : incoming' = Append(incoming, arrival(o))
           /\ inBytes' = inBytes + InRecord + m.size
           /\ ~(inBytes + InRecord + m.size > Capacity)
  <2>1. PICK o \in LocalRecipient(m) : incoming' = Append(incoming, arrival(o))
    BY <1>8
  <2> DEFINE a == arrival(o)
  <2>2. o \in Objects
    BY DEF LocalRecipient, Implementation
  <2>3. m.size \in Sizes
    BY <1>3 DEF Outgoing
  <2>4. a \in Incoming /\ a.n = count.arrivals + 1 /\ a.size = m.size
    <3>1. /\ count.arrivals \in Nat /\ conn[s].id \in Nat /\ host \in Nat /\ local \in Nat
      BY <1>1, <1>3, PeersKnown DEF Shapes
    <3>2. count.arrivals + 1 \in Nat /\ (IF m.peer = host THEN local ELSE host) \in Nat
      BY <3>1
    <3> HIDE DEF m
    <3> QED
      BY <2>2, <2>3, <3>1, <3>2 DEF Incoming
  <2>5. inBytes \in Nat /\ Capacity \in Nat /\ InRecord \in Nat /\ m.size \in Nat
    <3>1. inBytes = InTotal(Range(incoming)) + HelloTotal(hellos) + HandCharge
      BY DEF Budgets, InExact
    <3>2. InTotal(Range(incoming)) \in Nat /\ HelloTotal(hellos) \in Nat /\ HandCharge \in Nat
      BY <1>1, PartsAre DEF Parts
    <3>3. Capacity \in Nat /\ InRecord \in Nat /\ Sizes \subseteq Nat
      BY MessageQueuesAssumption
    <3> HIDE DEF m
    <3>4. m.size \in Nat
      BY <2>3, <3>3
    <3>5. inBytes \in Nat
      BY <3>1, <3>2
    <3> QED
      BY <3>3, <3>4, <3>5
  <2>6. incoming' = Append(incoming, a)
    BY <2>1
  <2> HIDE DEF a, m
  <2>7. inBytes' = inBytes - 0 + InCharge(a) /\ inBytes' <= Capacity
    BY <1>8, <2>4, <2>5 DEF InCharge
  <2>8. HelloTotal(hellos') = HelloTotal(hellos) - 0 /\ 0 \in Nat
    BY <1>1, PartsAre DEF Parts
  <2>9. InExact'
    BY <1>1, <2>4, <2>6, <2>7, <2>8, ArrivesExact DEF Budgets
  <2> QED
    BY <1>5, <1>8, <2>9 DEF Budgets
<1> QED
  BY <1>4, <1>6, <1>7, <1>8

LEMMA PumpResumeExact ==
    ASSUME IInv, Shapes', Budgets, PumpResume
    PROVE  Budgets'
<1> DEFINE frame == pump.sub.frame
<1>1. UNCHANGED <<hellos, control>>
  BY DEF PumpResume
<1>2. \/ UNCHANGED <<conn, incoming, outBytes, inBytes>>
      \/ \E s \in At(pump.peer) : conn' = [conn EXCEPT ![s] = Failed(@)] /\ Discard({s}, 0)
      \/ \E s \in At(pump.peer) : Settled(s, frame) /\ UNCHANGED <<incoming, inBytes>>
  BY DEF PumpResume
<1> HIDE DEF frame
<1>3. At(pump.peer) \subseteq Slots /\ conn \in [Slots -> Connections]
  BY DEF At, Live, IInv, Shapes
<1>4. CASE UNCHANGED <<conn, incoming, outBytes, inBytes>>
  BY <1>1, <1>4, QuietExact
<1>5. CASE \E s \in At(pump.peer) : conn' = [conn EXCEPT ![s] = Failed(@)] /\ Discard({s}, 0)
  BY <1>1, <1>3, <1>5, SlotFailsExact
<1>6. CASE \E s \in At(pump.peer) : Settled(s, frame) /\ UNCHANGED <<incoming, inBytes>>
  <2>1. PICK s \in At(pump.peer) : Settled(s, frame) /\ UNCHANGED <<incoming, inBytes>>
    BY <1>6
  <2>2. CASE frame.kind = "Notice"
    <3>1. /\ conn' = [conn EXCEPT ![s].notice = conn[s].notice \ {frame.feature}]
          /\ UNCHANGED outBytes
      BY <2>1, <2>2 DEF Settled
    <3>2. \A c \in Connections : \A notice : [c EXCEPT !.notice = notice].outgoing = c.outgoing
      BY DEF Connections
    <3>3. /\ conn'[s] = [conn[s] EXCEPT !.notice = conn[s].notice \ {frame.feature}]
          /\ \A t \in Slots \ {s} : conn'[t] = conn[t]
      BY <1>3, <3>1
    <3>4. conn[s] \in Connections
      BY <1>3
    <3>5. conn'[s].outgoing = conn[s].outgoing
      BY <3>2, <3>3, <3>4
    <3>6. \A t \in Slots : Range(conn'[t].outgoing) = Range(conn[t].outgoing)
      BY <3>3, <3>5
    <3> QED
      BY <1>1, <2>1, <3>1, <3>6, QuietExact
  <2>3. CASE frame.kind # "Notice" /\ FrontIs(s, frame)
    <3>1. /\ conn' = [conn EXCEPT ![s].outgoing = Tail(@)]
          /\ outBytes' = outBytes - OutCharge(Head(conn[s].outgoing))
          /\ conn[s].outgoing # <<>>
      BY <2>1, <2>3 DEF Settled, FrontIs
    <3>2. OutExact'
      BY <1>3, <3>1, PopExact DEF Budgets
    <3>3. InExact'
      BY <1>1, <2>1, InSame DEF Budgets
    <3> QED
      BY <3>2, <3>3 DEF Budgets
  <2>4. CASE frame.kind # "Notice" /\ ~FrontIs(s, frame)
    <3>1. UNCHANGED <<conn, outBytes>>
      BY <2>1, <2>4 DEF Settled
    <3> QED
      BY <1>1, <2>1, <3>1, QuietExact
  <2> QED
    BY <2>2, <2>3, <2>4
<1> QED
  BY <1>2, <1>4, <1>5, <1>6

LEMMA DeliverNextExact ==
    ASSUME IInv, Shapes', Budgets, DeliverNext
    PROVE  Budgets'
<1>1. /\ UNCHANGED <<conn, hellos, outBytes, inBytes>> /\ control.at = "Draining"
      /\ Shapes /\ Parts
  BY PartsAre DEF DeliverNext, IInv
<1>2. OutExact'
  BY <1>1, OutSame DEF Budgets
<1>3. HandCharge = 0
  BY <1>1 DEF HandCharge
<1>4. CASE control' = ControlIdle /\ incoming' = incoming
  <2>1. HandCharge' = 0
    BY <1>4 DEF HandCharge, ControlIdle
  <2> QED
    BY <1>1, <1>2, <1>3, <1>4, <2>1 DEF Budgets, InExact
<1>5. CASE /\ control' = Calling(control.left - 1, Head(incoming), 1)
           /\ incoming' = Tail(incoming) /\ incoming # <<>>
  <2> DEFINE h == Head(incoming)
  <2>1. incoming \in Seq(Incoming) /\ Increasing(incoming) /\ Numbered(Incoming)
    BY DEF IInv, Shapes, Inbound, Numbered, Incoming
  <2>2. /\ h \in Range(incoming) /\ h \in Incoming
        /\ Range(incoming') = Range(incoming) \ {h}
    BY <1>5, <2>1, FrontOfQueue
  <2>3. HandCharge' = InCharge(h)
    BY <1>5 DEF HandCharge, Calling
  <2> HIDE DEF h
  <2>4. {h} \in SUBSET Range(incoming) /\ Range(incoming) \in SUBSET Incoming /\ IsFiniteSet(Range(incoming))
    BY <1>1, <2>2 DEF Parts
  <2>5. /\ InTotal(Range(incoming)) = InTotal({h}) + InTotal(Range(incoming) \ {h})
        /\ InTotal(Range(incoming) \ {h}) \in Nat
    BY <2>4, InTotalParts DEF InParts
  <2>6. InTotal({h}) = InCharge(h) /\ InCharge(h) \in Nat
    BY <2>2, InTotalParts
  <2>7. InTotal(Range(incoming')) = InTotal(Range(incoming) \ {h}) /\ HelloTotal(hellos') = HelloTotal(hellos)
    BY <1>1, <2>2
  <2>8. inBytes' = inBytes /\ inBytes = InTotal(Range(incoming)) + HelloTotal(hellos) + 0 /\ inBytes <= Capacity
    BY <1>1, <1>3 DEF Budgets, InExact
  <2>9. HelloTotal(hellos) \in Nat
    BY <1>1 DEF Parts
  <2>10. inBytes' = InTotal(Range(incoming')) + HelloTotal(hellos') + HandCharge' /\ inBytes' <= Capacity
    BY <2>3, <2>5, <2>6, <2>7, <2>8, <2>9
  <2> QED
    BY <1>2, <2>10 DEF Budgets, InExact
<1> QED
  BY <1>4, <1>5 DEF DeliverNext, FrontWaits

LEMMA DeliverDoneExact ==
    ASSUME IInv, Shapes', Budgets, DeliverDone
    PROVE  Budgets'
<1>1. /\ UNCHANGED <<conn, hellos, incoming, outBytes>> /\ control.at = "Calling"
      /\ inBytes' = inBytes - InCharge(control.message)
      /\ control' = Draining(control.left) /\ Shapes /\ Parts
  BY PartsAre DEF DeliverDone, IInv
<1>2. OutExact'
  BY <1>1, OutSame DEF Budgets
<1>3. HandCharge = InCharge(control.message) /\ HandCharge' = 0
  BY <1>1 DEF HandCharge, Draining
<1>4. /\ inBytes = InTotal(Range(incoming)) + HelloTotal(hellos) + HandCharge /\ inBytes <= Capacity
      /\ InTotal(Range(incoming)) \in Nat /\ HelloTotal(hellos) \in Nat /\ HandCharge \in Nat
      /\ Capacity \in Nat
  BY <1>1, MessageQueuesAssumption DEF Budgets, InExact, Parts
<1>5. InTotal(Range(incoming')) = InTotal(Range(incoming)) /\ HelloTotal(hellos') = HelloTotal(hellos)
  BY <1>1
<1>6. inBytes' = InTotal(Range(incoming')) + HelloTotal(hellos') + HandCharge' /\ inBytes' <= Capacity
  BY <1>1, <1>3, <1>4, <1>5
<1> QED
  BY <1>2, <1>6 DEF Budgets, InExact

LEMMA DeliverCallExact ==
    ASSUME IInv, Shapes', Budgets, DeliverBegin \/ DeliverCall
    PROVE  Budgets'
<1>1. UNCHANGED <<conn, hellos, incoming, outBytes, inBytes>> /\ Shapes
  BY DEF DeliverBegin, DeliverCall, IInv
<1>2. OutExact'
  BY <1>1, OutSame DEF Budgets
<1>3. HandCharge' = HandCharge
  <2>1. CASE DeliverBegin
    BY <2>1 DEF DeliverBegin, ControlIdle, Draining, HandCharge
  <2>2. CASE DeliverCall
    <3>1. control.at = "Calling" /\ \E k : control' = [control EXCEPT !.callback = k]
      BY <2>2 DEF DeliverCall
    <3>2. control \in [at : {"Calling"}, left : Nat, message : Incoming, callback : Nat]
      BY <1>1, <3>1 DEF Shapes, Controls, ControlIdle
    <3>3. control'.at = control.at /\ control'.message = control.message
      BY <3>1, <3>2
    <3> QED
      BY <3>3 DEF HandCharge
  <2> QED
    BY <2>1, <2>2
<1> QED
  BY <1>1, <1>2, <1>3 DEF Budgets, InExact

LEMMA StandsExact ==
    ASSUME IInv, Shapes', Budgets, ObserveLocal \/ PumpNext \/ PumpSubmit \/ UNCHANGED vars
    PROVE  Budgets'
<1>1. UNCHANGED <<conn, outBytes, inBytes, incoming, hellos, control>>
  BY DEF ObserveLocal, PumpNext, PumpSubmit, vars
<1> QED
  BY <1>1, QuietExact

LEMMA StepExact ==
    ASSUME IInv, Budgets, [Next]_vars
    PROVE  Budgets'
<1>1. Shapes'
  BY StepDone DEF IInv
<1>2. CASE UNCHANGED vars
  BY <1>1, <1>2, StandsExact
<1>3. CASE Begin \/ End \/ Reset \/ ObserveLocal \/ CarrierFailed \/ ExpireHellos
  BY <1>1, <1>3, SessionsExact, StandsExact, CarrierExact, HellosExact
<1>4. ASSUME NEW s \in Slots,
             \/ Connect(s) \/ Disconnect(s) \/ Negotiate(s) \/ ConnectionFails(s)
             \/ PeerFails(s) \/ ReceiveData(s) \/ RetainHello(s)
      PROVE  Budgets'
  BY <1>1, <1>4, ConnectExact, DisconnectExact, ConnectionsExact, ConnectionFailsExact,
     ReceiveExact, RetainExact
<1>5. ASSUME NEW o \in Objects, NEW peer \in 1..MaxPeers, Send(o, peer) \/ Fail(o, peer)
      PROVE  Budgets'
  BY <1>1, <1>5, SendExact, FailExact
<1>6. CASE Pump
  BY <1>1, <1>6, HellosExact, StandsExact, PumpDropExact, PumpLocalExact, PumpResumeExact DEF Pump
<1>7. CASE Deliver
  BY <1>1, <1>7, DeliverCallExact, DeliverNextExact, DeliverDoneExact DEF Deliver
<1> QED
  BY <1>2, <1>3, <1>4, <1>5, <1>6, <1>7 DEF Next

LEMMA InitExact == Init => Budgets
<1> SUFFICES ASSUME Init PROVE Budgets
  OBVIOUS
<1>1. Shapes /\ Outbound /\ Capacity \in Nat
  BY InitDone, MessageQueuesAssumption DEF IInv
<1>2. OutOf(Slots) = 0
  <2>1. /\ IsFiniteSet(Slots)
        /\ \A s \in Slots : Range(conn[s].outgoing) = {}
    BY MessageQueuesAssumption, NoConnectionIs, EmptyQueue DEF Init
  <2>2. \A s \in Slots : Weight[s] = 0
    BY <2>1, OutTotalParts DEF Weight
  <2>3. \A w : w = Weight => Sum(w, Slots) = 0
    BY <2>1, <2>2, SumZero
  <2> QED
    BY <1>1, <2>3, WeightIs DEF Weighed
<1>3. InTotal(Range(incoming)) = 0
  BY EmptyQueue, InTotalParts DEF Init
<1>4. HelloTotal(hellos) = 0
  BY NoneRetained DEF Init, NoHellos
<1>5. HandCharge = 0
  BY DEF Init, HandCharge, ControlIdle
<1> QED
  BY <1>1, <1>2, <1>3, <1>4, <1>5 DEF Init, Budgets, OutExact, InExact

(* send(), receive(), fail(), deliver() and whatever ends a connection      *)
(* (multiplayer.cpp) charge each budget with what is queued, retained or    *)
(* with a callback, and give back all of it once.                           *)
THEOREM BudgetsHold == Spec => []BudgetsExact
<1>1. Spec => []Budgets
  BY InitExact, StepExact, Invariance, PTL DEF Spec
<1>2. Budgets => BudgetsExact
  BY Exact DEF Budgets
<1> QED
  BY <1>1, <1>2, PTL
=============================================================================
