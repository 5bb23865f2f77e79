--------------------------- MODULE EventBus_proofs ---------------------------
(***************************************************************************)
(* No reliable sink and no browser misses an event, for any sinks, any     *)
(* browsers, and any lengths of the ring, the replay and the channels.     *)
(***************************************************************************)
EXTENDS EventBus, WellFoundedInduction, SequenceTheorems, TLAPS

\* What the limits must be.
Parameters == RingCap \in Nat \ {0} /\ ReplayMax \in Nat /\ Buffer \in Nat

StreamRecs == [at : {"off", "subscribed", "replay", "live"}, cursor : Nat, replay : Seq(Nat), gap : BOOLEAN]
KnownRecs  == [all : Nat, some : SUBSET Nat, revision : Nat]

BusTypes ==
    /\ nextSeq \in Nat /\ publishing \in Nat /\ todo \subseteq Sinks
    /\ ring \in Seq(Nat) /\ accepted \subseteq Nat /\ lossy \subseteq Streams
    /\ sink \in [Sinks -> {"new", "on", "off"}]
    /\ heard \in [Sinks -> Seq(Nat)] /\ since \in [Sinks -> Nat]
    /\ stream \in [Streams -> StreamRecs] /\ chan \in [Streams -> Seq(Nat)]
    /\ known \in [Streams -> KnownRecs]

Holds(q, e)   == \E i \in DOMAIN q : q[i] = e
Increasing(q) == \A i, k \in DOMAIN q : i < k => q[i] < q[k]
Within(q, S)  == \A i \in DOMAIN q : q[i] \in S

\* publishMu: the event under way is the newest.
Numbers ==
    /\ publishing # 0 => publishing = nextSeq
    /\ publishing = 0 => todo = {}
    /\ \A e \in accepted : e <= nextSeq /\ (publishing # 0 => e < publishing)

\* A sink has the event under way once its turn was, and all before.
SinkInv ==
    \A s \in Sinks :
        /\ Increasing(heard[s]) /\ \A i \in DOMAIN heard[s] : heard[s][i] <= nextSeq
        /\ s \in todo => sink[s] = "on" /\ \A i \in DOMAIN heard[s] : heard[s][i] < publishing
        /\ publishing # 0 /\ sink[s] = "on" /\ s \notin todo => Holds(heard[s], publishing)
        /\ sink[s] = "on" => \A e \in accepted : e > since[s] => Holds(heard[s], e)

\* The ring holds the newest events, in order and without a hole.
RingInv ==
    /\ Increasing(ring) /\ Within(ring, accepted)
    /\ \A e \in accepted : Holds(ring, e) \/ (ring # <<>> /\ e < ring[1])

\* A browser knows every event up to its revision; what is newer is on its way,
\* in order: the replay first, then the channel.
Revised(c) ==
    /\ known[c].revision <= nextSeq /\ (publishing # 0 => known[c].revision < publishing)
    /\ c \notin lossy =>
          \A e \in accepted : e <= known[c].revision => e <= known[c].all \/ e \in known[c].some
Queued(c) ==
    /\ Increasing(chan[c]) /\ Within(chan[c], accepted) /\ Len(chan[c]) <= Buffer
    /\ Increasing(stream[c].replay) /\ Within(stream[c].replay, accepted)
    /\ stream[c].at = "subscribed" => stream[c].cursor = known[c].revision
OnItsWay(c) ==
    /\ stream[c].at = "replay" /\ ~stream[c].gap =>
          \A e \in accepted : e > known[c].revision =>
              \/ Holds(stream[c].replay, e)
              \/ Holds(chan[c], e) /\ \A i \in DOMAIN stream[c].replay : stream[c].replay[i] < e
    /\ stream[c].at = "live" => \A e \in accepted : e > known[c].revision => Holds(chan[c], e)

BusInv ==
    /\ BusTypes /\ Numbers /\ SinkInv /\ RingInv
    /\ \A c \in Streams : Revised(c) /\ Queued(c) /\ (c \notin lossy => OnItsWay(c))

-----------------------------------------------------------------------------
(* Lemmas on sequences of numbers.                                         *)

\* Every set of naturals has a least member.
LEMMA LeastNat == \A T \in SUBSET Nat : T # {} => \E x \in T : \A y \in T : x <= y
<1>r. PICK R : R = {p \in Nat \X Nat : p[1] < p[2]}
  OBVIOUS
<1>w. R = OpToRel(<, Nat)
  BY <1>r DEF OpToRel
<1>v. IsWellFoundedOn(R, Nat)
  BY <1>w, NatLessThanWellFounded
<1> SUFFICES ASSUME NEW T \in SUBSET Nat, T # {} PROVE \E x \in T : \A y \in T : x <= y
  OBVIOUS
<1>1. \E x \in T : \A y \in T : ~ (<<y, x>> \in R)
  BY <1>v, WFMin
<1>2. \A x, y \in Nat : x < y => <<x, y>> \in R
  BY <1>r
<1>3. PICK x \in T : \A y \in T : ~ (<<y, x>> \in R)
  BY <1>1
<1>4. \A y \in T : x <= y
  <2> SUFFICES ASSUME NEW y \in T PROVE x <= y
    OBVIOUS
  <2>1. ~ (<<y, x>> \in R) /\ x \in Nat /\ y \in Nat
    BY <1>3
  <2>2. ~(y < x)
    BY <2>1, <1>2
  <2> QED
    BY <2>1, <2>2
<1> QED
  BY <1>4

\* What is in a tail of q.
LEMMA TailOf ==
  ASSUME NEW q \in Seq(Nat), NEW m \in 1..(Len(q) + 1), NEW r, r = SubSeq(q, m, Len(q))
  PROVE  /\ r \in Seq(Nat) /\ Len(r) = Len(q) - m + 1
         /\ \A i \in DOMAIN r : i + m - 1 \in DOMAIN q /\ r[i] = q[i + m - 1]
         /\ Increasing(q) => Increasing(r)
         /\ \A e : Holds(r, e) => Holds(q, e)
         /\ \A i \in DOMAIN q : i >= m => Holds(r, q[i])
<1>1. /\ r \in Seq(Nat) /\ Len(r) = Len(q) - m + 1
      /\ \A i \in 1..Len(r) : r[i] = q[i + m - 1]
  OBVIOUS
<1>2. DOMAIN r = 1..Len(r) /\ DOMAIN q = 1..Len(q) /\ Len(q) \in Nat
  BY <1>1
<1>3. \A i \in DOMAIN r : i + m - 1 \in DOMAIN q /\ r[i] = q[i + m - 1]
  <2> SUFFICES ASSUME NEW i \in DOMAIN r PROVE i + m - 1 \in DOMAIN q /\ r[i] = q[i + m - 1]
    OBVIOUS
  <2>1. i \in Nat /\ 1 <= i /\ i <= Len(q) - m + 1 /\ m \in Nat /\ 1 <= m
    BY <1>1, <1>2
  <2>2. i + m - 1 \in 1..Len(q)
    BY <1>2, <2>1
  <2> QED
    BY <1>1, <1>2, <2>2
<1>4. Increasing(q) => Increasing(r)
  BY <1>1, <1>2, <1>3 DEF Increasing
<1>5. \A e : Holds(r, e) => Holds(q, e)
  BY <1>3 DEF Holds
<1>6. \A i \in DOMAIN q : i >= m => Holds(r, q[i])
  <2> SUFFICES ASSUME NEW i \in DOMAIN q, i >= m PROVE Holds(r, q[i])
    OBVIOUS
  <2>1. i - m + 1 \in DOMAIN r /\ r[i - m + 1] = q[i]
    BY <1>1, <1>2
  <2> QED
    BY <2>1 DEF Holds
<1> QED
  BY <1>1, <1>3, <1>4, <1>5, <1>6

LEMMA AppendOf ==
  ASSUME NEW q \in Seq(Nat), NEW e \in Nat, NEW r, r = Append(q, e)
  PROVE  /\ r \in Seq(Nat) /\ Len(r) = Len(q) + 1 /\ r # <<>>
         /\ \A i \in DOMAIN r : (i \in DOMAIN q /\ r[i] = q[i]) \/ (i = Len(r) /\ r[i] = e)
         /\ Increasing(q) /\ (\A i \in DOMAIN q : q[i] < e) => Increasing(r)
         /\ \A x : Holds(r, x) <=> Holds(q, x) \/ x = e
<1>1. /\ r \in Seq(Nat) /\ Len(r) = Len(q) + 1 /\ r # <<>> /\ r[Len(r)] = e
      /\ \A i \in 1..Len(q) : r[i] = q[i]
  OBVIOUS
<1>2. DOMAIN r = 1..Len(r) /\ DOMAIN q = 1..Len(q) /\ Len(q) \in Nat
  BY <1>1
<1>3. \A i \in DOMAIN r : (i \in DOMAIN q /\ r[i] = q[i]) \/ (i = Len(r) /\ r[i] = e)
  <2> SUFFICES ASSUME NEW i \in DOMAIN r PROVE (i \in DOMAIN q /\ r[i] = q[i]) \/ (i = Len(r) /\ r[i] = e)
    OBVIOUS
  <2>1. i \in 1..Len(q) \/ i = Len(r)
    BY <1>1, <1>2
  <2> QED
    BY <1>1, <1>2, <2>1
<1>4. Increasing(q) /\ (\A i \in DOMAIN q : q[i] < e) => Increasing(r)
  BY <1>1, <1>2, <1>3 DEF Increasing
<1>5. \A x : Holds(r, x) <=> Holds(q, x) \/ x = e
  BY <1>1, <1>2, <1>3 DEF Holds
<1> QED
  BY <1>1, <1>3, <1>4, <1>5

LEMMA LastOfOf ==
  ASSUME NEW q \in Seq(Nat), NEW n \in Nat, NEW r, r = LastOf(q, n)
  PROVE  /\ r \in Seq(Nat) /\ Len(r) <= n
         /\ Len(q) <= n => r = q
         /\ Increasing(q) => Increasing(r)
         /\ \A e : Holds(r, e) => Holds(q, e)
         /\ n > 0 /\ Increasing(q) => \A e : Holds(q, e) => Holds(r, e) \/ (r # <<>> /\ e < r[1])
<1>1. CASE Len(q) <= n
  <2>1. r = q
    BY <1>1 DEF LastOf
  <2> QED
    BY <1>1, <2>1
<1>2. CASE Len(q) > n
  <2> DEFINE m == Len(q) - n + 1
  <2>1. r = SubSeq(q, m, Len(q)) /\ m \in 1..(Len(q) + 1) /\ Len(q) \in Nat
    BY <1>2 DEF LastOf
  <2> HIDE DEF m
  <2>2. /\ r \in Seq(Nat) /\ Len(r) = Len(q) - m + 1
        /\ \A i \in DOMAIN r : i + m - 1 \in DOMAIN q /\ r[i] = q[i + m - 1]
        /\ Increasing(q) => Increasing(r)
        /\ \A e : Holds(r, e) => Holds(q, e)
        /\ \A i \in DOMAIN q : i >= m => Holds(r, q[i])
    BY <2>1, TailOf
  <2>3. Len(r) = n
    BY <2>1, <2>2 DEF m
  <2>4. ASSUME n > 0, Increasing(q), NEW e, Holds(q, e), ~Holds(r, e)
        PROVE  r # <<>> /\ e < r[1]
    <3>1. PICK i \in DOMAIN q : q[i] = e
      BY <2>4 DEF Holds
    <3>2. i < m /\ i \in Nat
      BY <2>1, <2>2, <2>4, <3>1
    <3>3. 1 \in DOMAIN r /\ r # <<>>
      BY <2>2, <2>3, <2>4
    <3>4. 1 + m - 1 = m
      BY <2>1
    <3>5. r[1] = q[m] /\ m \in DOMAIN q
      BY <2>2, <3>3, <3>4
    <3> QED
      BY <2>4, <3>1, <3>2, <3>3, <3>5 DEF Increasing
  <2> QED
    BY <1>2, <2>1, <2>2, <2>3, <2>4
<1>3. Len(q) \in Nat
  OBVIOUS
<1> QED
  BY <1>1, <1>2, <1>3

\* After is what it should be on a sequence in order.
LEMMA AfterOf ==
  ASSUME NEW q \in Seq(Nat), Increasing(q), NEW n \in Nat, NEW r, r = After(q, n)
  PROVE  /\ r \in Seq(Nat) /\ Increasing(r)
         /\ \A e : Holds(r, e) <=> Holds(q, e) /\ e > n
<1>n. PICK newer : newer = {i \in DOMAIN q : q[i] > n}
  OBVIOUS
<1>d. DOMAIN q = 1..Len(q) /\ Len(q) \in Nat /\ \A i \in DOMAIN q : q[i] \in Nat
  OBVIOUS
<1>1. CASE newer = {}
  <2>1. r = <<>>
    BY <1>n, <1>1 DEF After
  <2>2. r \in Seq(Nat) /\ Increasing(r) /\ \A e : ~Holds(r, e)
    BY <2>1 DEF Increasing, Holds
  <2>3. \A e : ~(Holds(q, e) /\ e > n)
    BY <1>n, <1>1 DEF Holds
  <2> QED
    BY <2>2, <2>3
<1>2. CASE newer # {}
  <2>1. PICK m : m = CHOOSE i \in newer : \A k \in newer : i <= k
    OBVIOUS
  <2>0. newer \in SUBSET Nat
    BY <1>n, <1>d
  <2>2. \E i \in newer : \A k \in newer : i <= k
    BY <1>2, <2>0, LeastNat
  <2>3. m \in newer /\ \A k \in newer : m <= k
    BY <2>1, <2>2
  <2>r. r = SubSeq(q, m, Len(q))
    BY <1>n, <1>2, <2>1 DEF After
  <2>m. m \in DOMAIN q /\ q[m] > n
    BY <1>n, <2>3
  <2>4. r = SubSeq(q, m, Len(q)) /\ m \in 1..(Len(q) + 1) /\ m \in DOMAIN q /\ q[m] > n
    BY <1>d, <2>r, <2>m
  <2>5. /\ r \in Seq(Nat) /\ Increasing(r)
        /\ \A i \in DOMAIN r : i + m - 1 \in DOMAIN q /\ r[i] = q[i + m - 1]
        /\ \A e : Holds(r, e) => Holds(q, e)
        /\ \A i \in DOMAIN q : i >= m => Holds(r, q[i])
    BY <2>4, TailOf
  <2>6. \A e : Holds(r, e) => e > n
    <3> SUFFICES ASSUME NEW i \in DOMAIN r PROVE r[i] > n
      BY DEF Holds
    <3>1. i \in Nat /\ i >= 1 /\ i + m - 1 \in DOMAIN q /\ r[i] = q[i + m - 1]
      BY <2>5
    <3>3. m \in DOMAIN q /\ m \in Nat /\ q[m] \in Nat /\ q[i + m - 1] \in Nat
      BY <1>d, <2>4, <3>1
    <3>2. i = 1 \/ m < i + m - 1
      BY <3>1, <3>3
    <3>4. CASE i = 1
      <4>1. i + m - 1 = m
        BY <3>3, <3>4
      <4> QED
        BY <2>4, <3>1, <4>1
    <3>5. CASE m < i + m - 1
      <4>1. q[m] < q[i + m - 1]
        BY <3>1, <3>3, <3>5 DEF Increasing
      <4> QED
        BY <2>4, <3>1, <3>3, <4>1
    <3> QED
      BY <3>2, <3>4, <3>5
  <2>7. \A e : Holds(q, e) /\ e > n => Holds(r, e)
    <3> SUFFICES ASSUME NEW i \in DOMAIN q, q[i] > n PROVE Holds(r, q[i])
      BY DEF Holds
    <3>1. i >= m
      BY <1>n, <1>d, <2>3
    <3> QED
      BY <2>5, <3>1
  <2> QED
    BY <2>5, <2>6, <2>7
<1> QED
  BY <1>1, <1>2

\* What is left once the head of q is taken.
LEMMA RestOf ==
  ASSUME NEW q \in Seq(Nat), q # <<>>, NEW e, e = Head(q), NEW r, r = Tail(q)
  PROVE  /\ e \in Nat /\ r \in Seq(Nat) /\ Len(r) < Len(q) /\ Holds(q, e)
         /\ \A x : Holds(q, x) <=> x = e \/ Holds(r, x)
         /\ Increasing(q) => Increasing(r) /\ \A x : Holds(q, x) => e <= x
<1>1. /\ Len(q) \in Nat /\ Len(q) > 0 /\ e \in Nat /\ e = q[1] /\ r \in Seq(Nat) /\ Len(r) = Len(q) - 1
      /\ \A i \in 1..Len(r) : r[i] = q[i + 1]
  OBVIOUS
<1>2. DOMAIN r = 1..Len(r) /\ DOMAIN q = 1..Len(q) /\ \A i \in DOMAIN q : q[i] \in Nat
  BY <1>1
<1>3. ASSUME Increasing(q) PROVE Increasing(r)
  <2> SUFFICES ASSUME NEW i \in DOMAIN r, NEW k \in DOMAIN r, i < k PROVE r[i] < r[k]
    BY DEF Increasing
  <2>0. i \in 1..Len(r) /\ k \in 1..Len(r)
    BY <1>2
  <2>a. r[i] = q[i + 1] /\ r[k] = q[k + 1]
    BY <1>1, <2>0
  <2>b. i + 1 \in 1..Len(q) /\ k + 1 \in 1..Len(q) /\ i + 1 < k + 1
    BY <1>1, <2>0
  <2>1. i + 1 \in DOMAIN q /\ k + 1 \in DOMAIN q /\ i + 1 < k + 1 /\ r[i] = q[i + 1] /\ r[k] = q[k + 1]
    BY <1>2, <2>a, <2>b
  <2>2. q[i + 1] < q[k + 1]
    BY <1>3, <2>1 DEF Increasing
  <2> QED
    BY <2>1, <2>2
<1>4. Holds(q, e)
  BY <1>1, <1>2 DEF Holds
<1>5. ASSUME NEW x, Holds(q, x) PROVE x = e \/ Holds(r, x)
  <2>1. PICK i \in DOMAIN q : q[i] = x
    BY <1>5 DEF Holds
  <2>2. CASE i = 1
    BY <1>1, <2>1, <2>2
  <2>3. CASE i # 1
    <3>1. i - 1 \in DOMAIN r /\ i - 1 + 1 = i
      BY <1>1, <1>2, <2>3
    <3>2. r[i - 1] = x
      BY <1>1, <1>2, <2>1, <3>1
    <3> QED
      BY <3>1, <3>2 DEF Holds
  <2> QED
    BY <2>2, <2>3
<1>6. ASSUME NEW x, Holds(r, x) PROVE Holds(q, x)
  <2>1. PICK i \in DOMAIN r : r[i] = x
    BY <1>6 DEF Holds
  <2>2. i + 1 \in DOMAIN q /\ q[i + 1] = x
    BY <1>1, <1>2, <2>1
  <2> QED
    BY <2>2 DEF Holds
<1>7. ASSUME Increasing(q), NEW x, Holds(q, x) PROVE e <= x
  <2>1. PICK i \in DOMAIN q : q[i] = x
    BY <1>7 DEF Holds
  <2>2. 1 \in DOMAIN q /\ (i = 1 \/ 1 < i)
    BY <1>1, <1>2
  <2> QED
    BY <1>1, <1>2, <1>7, <2>1, <2>2 DEF Increasing
<1>8. \A x : Holds(q, x) <=> x = e \/ Holds(r, x)
  BY <1>4, <1>5, <1>6
<1>9. Increasing(q) => \A x : Holds(q, x) => e <= x
  BY <1>7
<1> QED
  BY <1>1, <1>3, <1>4, <1>8, <1>9

LEMMA EmptyOf == <<>> \in Seq(Nat) /\ Increasing(<<>>) /\ Len(<<>>) = 0 /\ \A x : ~Holds(<<>>, x)
  BY DEF Increasing, Holds

LEMMA WithinHolds ==
  ASSUME NEW q, NEW S
  PROVE  Within(q, S) <=> \A x : Holds(q, x) => x \in S
  BY DEF Within, Holds

-----------------------------------------------------------------------------
(* The initial state, and the sinks.                                       *)

LEMMA InitInv == ASSUME Parameters, Init PROVE BusInv
<1>1. BusTypes
  <2>1. stream \in [Streams -> StreamRecs]
    BY EmptyOf DEF Init, Off, StreamRecs
  <2>2. known \in [Streams -> KnownRecs]
    BY DEF Init, KnownRecs
  <2> QED
    BY <2>1, <2>2 DEF Init, BusTypes
<1>2. Numbers /\ RingInv
  BY EmptyOf DEF Init, Numbers, RingInv, Within
<1>3. SinkInv
  BY EmptyOf DEF Init, SinkInv
<1>4. ASSUME NEW c \in Streams PROVE Revised(c) /\ Queued(c) /\ OnItsWay(c)
  <2>1. /\ chan[c] = <<>> /\ stream[c] = Off /\ known[c] = [all |-> 0, some |-> {}, revision |-> 0]
        /\ accepted = {} /\ nextSeq = 0 /\ publishing = 0
    BY <1>4 DEF Init
  <2>2. stream[c].at = "off" /\ stream[c].replay = <<>> /\ known[c].revision = 0
    BY <2>1 DEF Off
  <2>3. Revised(c)
    BY <2>1, <2>2 DEF Revised
  <2>4. Queued(c)
    BY <2>1, <2>2, EmptyOf DEF Queued, Within, Parameters
  <2>5. OnItsWay(c)
    BY <2>2 DEF OnItsWay
  <2> QED
    BY <2>3, <2>4, <2>5
<1> QED
  BY <1>1, <1>2, <1>3, <1>4 DEF BusInv

\* What the sinks know is theirs: it depends on the publisher's side only.
SinkVars == <<nextSeq, publishing, todo, sink, heard, since, accepted>>

LEMMA SinksKept ==
  ASSUME Parameters, BusTypes, Numbers, SinkInv, [Next]_busVars
  PROVE  SinkInv'
<1>t. /\ nextSeq \in Nat /\ publishing \in Nat /\ accepted \subseteq Nat
      /\ \A s \in Sinks : heard[s] \in Seq(Nat) /\ since[s] \in Nat
      /\ sink \in [Sinks -> {"new", "on", "off"}] /\ heard \in [Sinks -> Seq(Nat)] /\ since \in [Sinks -> Nat]
  BY DEF BusTypes
<1>0. CASE UNCHANGED SinkVars
  BY <1>0 DEF SinkInv, SinkVars
<1>n. ASSUME NEW s \in Sinks, NEW i \in DOMAIN heard[s] PROVE heard[s][i] \in Nat
  BY <1>t, <1>n
<1>1. CASE PublishBegin
  <2>1. /\ publishing = 0 /\ publishing' = nextSeq + 1 /\ nextSeq' = nextSeq + 1
        /\ UNCHANGED <<sink, heard, since, accepted>> /\ todo' = {s \in Sinks : sink[s] = "on"}
    BY <1>1 DEF PublishBegin
  <2> SUFFICES ASSUME NEW s \in Sinks
               PROVE  /\ Increasing(heard[s]) /\ \A i \in DOMAIN heard[s] : heard[s][i] <= nextSeq + 1
                      /\ s \in todo' => sink[s] = "on" /\ \A i \in DOMAIN heard[s] : heard[s][i] < nextSeq + 1
                      /\ sink[s] = "on" /\ s \notin todo' => Holds(heard[s], publishing')
                      /\ sink[s] = "on" => \A e \in accepted : e > since[s] => Holds(heard[s], e)
    BY <2>1 DEF SinkInv
  <2>2. Increasing(heard[s]) /\ \A i \in DOMAIN heard[s] : heard[s][i] <= nextSeq
    BY DEF SinkInv
  <2>3. sink[s] = "on" => \A e \in accepted : e > since[s] => Holds(heard[s], e)
    BY DEF SinkInv
  <2>4. \A i \in DOMAIN heard[s] : heard[s][i] <= nextSeq + 1 /\ heard[s][i] < nextSeq + 1
    BY <1>t, <1>n, <2>2
  <2> QED
    BY <2>1, <2>2, <2>3, <2>4
<1>2. CASE PublishRefused
  <2>1. publishing = 0 /\ nextSeq' = nextSeq + 1 /\ UNCHANGED <<publishing, todo, sink, heard, since, accepted>>
    BY <1>2 DEF PublishRefused
  <2>2. ASSUME NEW s \in Sinks, NEW i \in DOMAIN heard[s] PROVE heard[s][i] <= nextSeq + 1
    <3>1. heard[s][i] <= nextSeq
      BY DEF SinkInv
    <3> QED
      BY <1>t, <1>n, <3>1
  <2> QED
    BY <2>1, <2>2 DEF SinkInv
<1>3. ASSUME NEW s \in Sinks, Deliver(s) PROVE SinkInv'
  <2>1. /\ s \in todo /\ todo' = todo \ {s} /\ UNCHANGED <<nextSeq, publishing, sink, since, accepted>>
        /\ heard' = [heard EXCEPT ![s] = Append(@, publishing)]
    BY <1>3 DEF Deliver
  <2>2. PICK r : r = Append(heard[s], publishing)
    OBVIOUS
  <2>3. heard'[s] = r /\ \A x \in Sinks : x # s => heard'[x] = heard[x]
    BY <1>t, <2>1, <2>2
  <2>4. publishing # 0 /\ publishing = nextSeq
    BY <2>1 DEF Numbers
  <2>5. \A i \in DOMAIN heard[s] : heard[s][i] < publishing
    BY <2>1 DEF SinkInv
  <2>6. /\ r \in Seq(Nat) /\ Increasing(r)
        /\ \A i \in DOMAIN r : (i \in DOMAIN heard[s] /\ r[i] = heard[s][i]) \/ (i = Len(r) /\ r[i] = publishing)
        /\ \A x : Holds(r, x) <=> Holds(heard[s], x) \/ x = publishing
    <3>1. PICK q, e : q = heard[s] /\ e = publishing
      OBVIOUS
    <3>2. Increasing(q) /\ q \in Seq(Nat) /\ e \in Nat
      BY <1>t, <3>1 DEF SinkInv
    <3>3. r = Append(q, e)
      BY <2>2, <3>1
    <3>a. \A i \in DOMAIN q : q[i] < e
      BY <2>5, <3>1
    <3>b. r \in Seq(Nat) /\ \A x : Holds(r, x) <=> Holds(q, x) \/ x = e
      BY <3>2, <3>3, AppendOf
    <3>c. Increasing(r)
      BY <3>2, <3>3, <3>a, AppendOf
    <3>d. \A i \in DOMAIN r : (i \in DOMAIN q /\ r[i] = q[i]) \/ (i = Len(r) /\ r[i] = e)
      BY <3>2, <3>3, AppendOf
    <3>4. /\ r \in Seq(Nat) /\ Increasing(r)
          /\ \A i \in DOMAIN r : (i \in DOMAIN q /\ r[i] = q[i]) \/ (i = Len(r) /\ r[i] = e)
          /\ \A x : Holds(r, x) <=> Holds(q, x) \/ x = e
      BY <3>b, <3>c, <3>d
    <3> QED
      BY <3>1, <3>4
  <2> SUFFICES ASSUME NEW x \in Sinks
               PROVE  /\ Increasing(heard'[x]) /\ \A i \in DOMAIN heard'[x] : heard'[x][i] <= nextSeq
                      /\ x \in todo' => sink[x] = "on" /\ \A i \in DOMAIN heard'[x] : heard'[x][i] < publishing
                      /\ sink[x] = "on" /\ x \notin todo' => Holds(heard'[x], publishing)
                      /\ sink[x] = "on" => \A e \in accepted : e > since[x] => Holds(heard'[x], e)
    BY <2>1 DEF SinkInv
  <2>7. CASE x = s
    <3>1. ASSUME NEW i \in DOMAIN r PROVE r[i] <= nextSeq
      <4>1. CASE i \in DOMAIN heard[s] /\ r[i] = heard[s][i]
        <5>1. heard[s][i] < publishing /\ heard[s][i] \in Nat
          BY <1>n, <2>5, <4>1
        <5> QED
          BY <1>t, <2>4, <4>1, <5>1
      <4>2. CASE r[i] = publishing
        BY <1>t, <2>4, <4>2
      <4> QED
        BY <2>6, <4>1, <4>2
    <3>2. sink[s] = "on" => \A e \in accepted : e > since[s] => Holds(r, e)
      BY <2>6 DEF SinkInv
    <3> QED
      BY <2>1, <2>3, <2>6, <2>7, <3>1, <3>2
  <2>8. CASE x # s
    <3>1. x \notin todo' => x \notin todo
      BY <2>1, <2>8
    <3> QED
      BY <2>1, <2>3, <2>4, <2>8, <3>1 DEF SinkInv
  <2> QED
    BY <2>7, <2>8
<1>4. CASE FanOut
  <2>1. /\ publishing # 0 /\ todo = {} /\ accepted' = accepted \cup {publishing} /\ publishing' = 0
        /\ UNCHANGED <<nextSeq, todo, sink, heard, since>>
    BY <1>4 DEF FanOut
  <2>2. ASSUME NEW s \in Sinks, sink[s] = "on", NEW e \in accepted', e > since[s] PROVE Holds(heard[s], e)
    BY <2>1, <2>2 DEF SinkInv
  <2> QED
    BY <2>1, <2>2 DEF SinkInv
<1>5. ASSUME NEW s \in Sinks, SubscribeReliable(s) PROVE SinkInv'
  <2>1. /\ publishing = 0 /\ sink' = [sink EXCEPT ![s] = "on"] /\ since' = [since EXCEPT ![s] = nextSeq]
        /\ UNCHANGED <<nextSeq, publishing, todo, heard, accepted>>
    BY <1>5 DEF SubscribeReliable
  <2>2. todo = {} /\ \A e \in accepted : e <= nextSeq
    BY <2>1 DEF Numbers
  <2> SUFFICES ASSUME NEW x \in Sinks
               PROVE  /\ Increasing(heard[x]) /\ \A i \in DOMAIN heard[x] : heard[x][i] <= nextSeq
                      /\ sink'[x] = "on" => \A e \in accepted : e > since'[x] => Holds(heard[x], e)
    BY <2>1, <2>2 DEF SinkInv
  <2>3. CASE x = s
    <3>1. since'[x] = nextSeq
      BY <1>t, <2>1, <2>3
    <3>2. \A e \in accepted : ~(e > nextSeq)
      BY <1>t, <2>2
    <3> QED
      BY <3>1, <3>2 DEF SinkInv
  <2>4. CASE x # s
    <3>1. since'[x] = since[x] /\ sink'[x] = sink[x]
      BY <1>t, <2>1, <2>4
    <3> QED
      BY <3>1 DEF SinkInv
  <2> QED
    BY <2>3, <2>4
<1>6. ASSUME NEW s \in Sinks, CancelReliable(s) PROVE SinkInv'
  <2>1. /\ publishing = 0 /\ sink' = [sink EXCEPT ![s] = "off"]
        /\ UNCHANGED <<nextSeq, publishing, todo, heard, since, accepted>>
    BY <1>6 DEF CancelReliable
  <2>2. todo = {}
    BY <2>1 DEF Numbers
  <2>3. \A x \in Sinks : sink'[x] = "on" => sink[x] = "on"
    BY <1>t, <2>1
  <2> QED
    BY <2>1, <2>2, <2>3 DEF SinkInv
<1>7. ASSUME NEW c \in Streams,
             Bootstrap(c) \/ Subscribe(c) \/ Replay(c) \/ Resync(c) \/ SendReplay(c) \/ SendLive(c) \/ Disconnect(c)
      PROVE  SinkInv'
  <2>1. UNCHANGED SinkVars
    BY <1>7 DEF Bootstrap, Subscribe, Replay, Resync, SendReplay, SendLive, Disconnect, streamOnly, SinkVars
  <2> QED
    BY <1>0, <2>1
<1>8. CASE UNCHANGED busVars
  BY <1>0, <1>8 DEF busVars, SinkVars
<1> QED
  BY <1>1, <1>2, <1>3, <1>4, <1>5, <1>6, <1>7, <1>8 DEF Next

-----------------------------------------------------------------------------
(* The ring.                                                               *)

LEMMA NumbersKept ==
  ASSUME BusTypes, Numbers, [Next]_busVars
  PROVE  Numbers'
<1>t. nextSeq \in Nat /\ publishing \in Nat /\ accepted \subseteq Nat
  BY DEF BusTypes
<1>0. CASE UNCHANGED <<nextSeq, publishing, todo, accepted>>
  BY <1>0 DEF Numbers
<1>1. CASE PublishBegin \/ PublishRefused
  <2>1. /\ publishing = 0 /\ nextSeq' = nextSeq + 1 /\ accepted' = accepted
        /\ publishing' = nextSeq' \/ (publishing' = 0 /\ todo' = todo)
    BY <1>1 DEF PublishBegin, PublishRefused
  <2>2. (publishing = 0 => todo = {}) /\ \A e \in accepted : e <= nextSeq
    BY DEF Numbers
  <2>3. (publishing' # 0 => publishing' = nextSeq') /\ (publishing' = 0 => todo' = {})
    BY <1>t, <2>1, <2>2
  <2>4. \A e \in accepted' : e <= nextSeq' /\ (publishing' # 0 => e < publishing')
    BY <1>t, <2>1, <2>2
  <2> QED
    BY <2>3, <2>4 DEF Numbers
<1>2. ASSUME NEW s \in Sinks, Deliver(s) PROVE Numbers'
  BY <1>2 DEF Deliver, Numbers
<1>3. CASE FanOut
  <2>1. /\ publishing # 0 /\ todo = {} /\ accepted' = accepted \cup {publishing} /\ publishing' = 0
        /\ UNCHANGED <<nextSeq, todo>>
    BY <1>3 DEF FanOut
  <2> QED
    BY <1>t, <2>1 DEF Numbers
<1>4. ASSUME NEW s \in Sinks, SubscribeReliable(s) \/ CancelReliable(s) PROVE Numbers'
  BY <1>0, <1>4 DEF SubscribeReliable, CancelReliable
<1>5. ASSUME NEW c \in Streams,
             Bootstrap(c) \/ Subscribe(c) \/ Replay(c) \/ Resync(c) \/ SendReplay(c) \/ SendLive(c) \/ Disconnect(c)
      PROVE  Numbers'
  BY <1>0, <1>5 DEF Bootstrap, Subscribe, Replay, Resync, SendReplay, SendLive, Disconnect, streamOnly
<1>6. CASE UNCHANGED busVars
  BY <1>0, <1>6 DEF busVars
<1> QED
  BY <1>1, <1>2, <1>3, <1>4, <1>5, <1>6 DEF Next

\* What FanOut does to the ring: the new event is in, and what fell out is older.
LEMMA RingGrows ==
  ASSUME Parameters, BusTypes, Numbers, RingInv, FanOut
  PROVE  ring' \in Seq(Nat) /\ RingInv'
<1>1. PICK e, q, r : e = publishing /\ q = Append(ring, e) /\ r = LastOf(q, RingCap)
  OBVIOUS
<1>2. /\ ring' = r /\ accepted' = accepted \cup {e} /\ publishing # 0
      /\ ring \in Seq(Nat) /\ e \in Nat /\ accepted \subseteq Nat /\ RingCap \in Nat /\ RingCap > 0
  BY <1>1 DEF FanOut, BusTypes, Parameters
<1>3. \A x \in accepted : x < e
  BY <1>1, <1>2 DEF Numbers
<1>4. \A x : Holds(ring, x) => x \in accepted
  BY WithinHolds DEF RingInv
<1>q. PICK old : old = ring
  OBVIOUS
<1>5. old \in Seq(Nat) /\ Increasing(old) /\ q = Append(old, e) /\ \A i \in DOMAIN old : old[i] < e
  <2>1. \A i \in DOMAIN ring : ring[i] \in accepted
    BY DEF RingInv, Within
  <2> QED
    BY <1>1, <1>2, <1>3, <1>q, <2>1 DEF RingInv
<1>6. q \in Seq(Nat) /\ \A x : Holds(q, x) <=> Holds(old, x) \/ x = e
  BY <1>2, <1>5, AppendOf
<1>7. Increasing(q)
  BY <1>2, <1>5, AppendOf
<1>8. r \in Seq(Nat) /\ Increasing(r) /\ \A x : Holds(r, x) => Holds(q, x)
  BY <1>1, <1>2, <1>6, <1>7, LastOfOf
<1>9. \A x : Holds(q, x) => Holds(r, x) \/ (r # <<>> /\ x < r[1])
  BY <1>1, <1>2, <1>6, <1>7, LastOfOf
<1>10. Within(r, accepted')
  <2>1. \A x : Holds(r, x) => x \in accepted'
    BY <1>2, <1>4, <1>6, <1>8, <1>q
  <2> QED
    BY <2>1, WithinHolds
<1>11. ASSUME NEW x \in accepted', ~Holds(r, x) PROVE r # <<>> /\ x < r[1]
  <2>1. CASE Holds(q, x)
    BY <1>9, <1>11, <2>1
  <2>2. CASE ~Holds(q, x)
    <3>1. x \in accepted /\ ~Holds(old, x) /\ x \in Nat
      BY <1>2, <1>6, <2>2, <1>11
    <3>2. ring # <<>> /\ x < ring[1]
      BY <1>q, <3>1 DEF RingInv
    <3>3. r # <<>>
      <4>1. Holds(q, e)
        BY <1>6
      <4> QED
        BY <1>9, <4>1, EmptyOf
    <3>4. 1 \in DOMAIN r /\ r[1] \in Nat /\ Holds(r, r[1])
      BY <1>8, <3>3 DEF Holds
    <3>5. Holds(old, r[1]) \/ r[1] = e
      BY <1>6, <1>8, <3>4
    <3>6. CASE r[1] = e
      BY <1>3, <3>1, <3>3, <3>6
    <3>7. CASE Holds(old, r[1])
      <4>1. PICK i \in DOMAIN old : old[i] = r[1]
        BY <3>7 DEF Holds
      <4>2. i = 1 \/ (1 < i /\ 1 \in DOMAIN old /\ old[1] \in Nat /\ i \in Nat)
        BY <1>5
      <4>3. old[1] = r[1] \/ old[1] < r[1]
        BY <1>5, <4>1, <4>2 DEF Increasing
      <4>4. 1 \in DOMAIN old /\ old[1] \in Nat
        BY <1>5, <4>2, <4>1
      <4> QED
        BY <1>q, <3>1, <3>2, <3>3, <3>4, <4>3, <4>4
    <3> QED
      BY <3>5, <3>6, <3>7
  <2> QED
    BY <2>1, <2>2
<1> QED
  BY <1>2, <1>8, <1>10, <1>11 DEF RingInv

LEMMA RingKept ==
  ASSUME Parameters, BusTypes, Numbers, RingInv, [Next]_busVars
  PROVE  ring' \in Seq(Nat) /\ RingInv'
<1>0. CASE UNCHANGED <<ring, accepted>>
  BY <1>0 DEF RingInv, BusTypes
<1>1. CASE PublishBegin \/ PublishRefused
  BY <1>0, <1>1 DEF PublishBegin, PublishRefused
<1>2. ASSUME NEW s \in Sinks, Deliver(s) \/ SubscribeReliable(s) \/ CancelReliable(s) PROVE UNCHANGED <<ring, accepted>>
  BY <1>2 DEF Deliver, SubscribeReliable, CancelReliable
<1>3. CASE FanOut
  BY <1>3, RingGrows
<1>5. ASSUME NEW c \in Streams,
             Bootstrap(c) \/ Subscribe(c) \/ Replay(c) \/ Resync(c) \/ SendReplay(c) \/ SendLive(c) \/ Disconnect(c)
      PROVE  UNCHANGED <<ring, accepted>>
  BY <1>5 DEF Bootstrap, Subscribe, Replay, Resync, SendReplay, SendLive, Disconnect, streamOnly
<1>6. CASE UNCHANGED busVars
  BY <1>0, <1>6 DEF busVars
<1> QED
  BY <1>0, <1>1, <1>2, <1>3, <1>5, <1>6 DEF Next

\* Unless the browser is told of a gap, what the ring replays is all that is new.
LEMMA ReplayIsAll ==
  ASSUME Parameters, BusTypes, RingInv, NEW n \in Nat, NEW r, r = LastOf(After(ring, n), ReplayMax)
  PROVE  /\ r \in Seq(Nat) /\ Increasing(r) /\ Within(r, accepted)
         /\ ~Gap(n) => \A e \in accepted : e > n => Holds(r, e)
<1>1. PICK q, a : q = ring /\ a = After(q, n)
  OBVIOUS
<1>2. q \in Seq(Nat) /\ Increasing(q) /\ accepted \subseteq Nat /\ ReplayMax \in Nat
  BY <1>1 DEF BusTypes, RingInv, Parameters
<1>3. a \in Seq(Nat) /\ Increasing(a)
  BY <1>1, <1>2, AfterOf
<1>4. \A e : Holds(a, e) <=> Holds(q, e) /\ e > n
  BY <1>1, <1>2, AfterOf
<1>5. r = LastOf(a, ReplayMax)
  BY <1>1
<1>6. r \in Seq(Nat) /\ Increasing(r) /\ \A e : Holds(r, e) => Holds(a, e)
  BY <1>2, <1>3, <1>5, LastOfOf
<1>7. Within(r, accepted)
  <2>1. \A e : Holds(q, e) => e \in accepted
    BY <1>1, WithinHolds DEF RingInv
  <2> QED
    BY <1>4, <1>6, <2>1, WithinHolds
<1>8. ASSUME ~Gap(n), NEW e \in accepted, e > n PROVE Holds(r, e)
  <2>1. Holds(q, e)
    <3>1. CASE ring = <<>>
      BY <1>1, <3>1, EmptyOf DEF RingInv
    <3>2. CASE ring # <<>>
      <4>1. ~(n + 1 < q[1])
        BY <1>1, <1>8, <3>2 DEF Gap
      <4>2. 1 \in DOMAIN q /\ q[1] \in Nat /\ e \in Nat
        BY <1>1, <1>2, <3>2
      <4>3. ~(e < q[1])
        BY <1>8, <4>1, <4>2
      <4> QED
        BY <1>1, <4>3 DEF RingInv
    <3> QED
      BY <3>1, <3>2
  <2>2. Holds(a, e) /\ ring # <<>>
    BY <1>1, <1>4, <1>8, <2>1, EmptyOf
  <2>3. Len(a) <= ReplayMax
    <3>1. ~(Len(a) > ReplayMax)
      BY <1>1, <1>8, <2>2 DEF Gap
    <3> QED
      BY <1>2, <1>3, <3>1
  <2>4. r = a
    BY <1>2, <1>3, <1>5, <2>3, LastOfOf
  <2> QED
    BY <2>2, <2>4
<1> QED
  BY <1>6, <1>7, <1>8

-----------------------------------------------------------------------------
(* The browsers.                                                           *)

StreamTypes ==
    /\ stream \in [Streams -> StreamRecs] /\ chan \in [Streams -> Seq(Nat)] /\ known \in [Streams -> KnownRecs]

LEMMA StreamRec ==
  ASSUME NEW x \in StreamRecs
  PROVE  /\ x = [at |-> x.at, cursor |-> x.cursor, replay |-> x.replay, gap |-> x.gap]
         /\ x.at \in {"off", "subscribed", "replay", "live"} /\ x.cursor \in Nat /\ x.replay \in Seq(Nat)
         /\ x.gap \in BOOLEAN
  BY DEF StreamRecs

LEMMA KnownRec ==
  ASSUME NEW x \in KnownRecs
  PROVE  /\ x = [all |-> x.all, some |-> x.some, revision |-> x.revision]
         /\ x.all \in Nat /\ x.some \in SUBSET Nat /\ x.revision \in Nat
  BY DEF KnownRecs

\* The browser learns events in order, and only those it does not know yet.
LEMMA LearnsOf ==
  ASSUME NEW k \in KnownRecs, NEW e \in Nat, NEW l, l = Learns(k, e)
  PROVE  /\ l \in KnownRecs /\ l.all = k.all /\ k.some \subseteq l.some
         /\ e <= k.revision => l = k
         /\ e > k.revision => l.revision = e /\ e \in l.some
<1>1. /\ k = [all |-> k.all, some |-> k.some, revision |-> k.revision]
      /\ k.all \in Nat /\ k.some \in SUBSET Nat /\ k.revision \in Nat
  BY KnownRec
<1>2. CASE e <= k.revision
  BY <1>1, <1>2 DEF Learns
<1>3. CASE e > k.revision
  <2>1. l = [k EXCEPT !.some = @ \cup {e}, !.revision = e]
    BY <1>1, <1>3 DEF Learns
  <2>2. l = [all |-> k.all, some |-> k.some \cup {e}, revision |-> e]
    BY <1>1, <2>1
  <2>3. l \in KnownRecs
    BY <1>1, <2>2 DEF KnownRecs
  <2> QED
    BY <1>1, <1>3, <2>2, <2>3
<1> QED
  BY <1>1, <1>2, <1>3

LEMMA LastOfType == \A q \in Seq(Nat) : \A n \in Nat : LastOf(q, n) \in Seq(Nat)
  BY LastOfOf

LEMMA StreamTypesKept ==
  ASSUME Parameters, BusTypes, RingInv, [Next]_busVars
  PROVE  StreamTypes'
<1>t. /\ stream \in [Streams -> StreamRecs] /\ chan \in [Streams -> Seq(Nat)] /\ known \in [Streams -> KnownRecs]
      /\ nextSeq \in Nat /\ publishing \in Nat /\ ring \in Seq(Nat) /\ Buffer \in Nat /\ ReplayMax \in Nat
  BY DEF BusTypes, Parameters
<1>0. CASE UNCHANGED <<stream, chan, known>>
  BY <1>t, <1>0 DEF StreamTypes
<1>o. Off \in StreamRecs
  BY EmptyOf DEF Off, StreamRecs
<1>1. CASE PublishBegin \/ PublishRefused
  BY <1>0, <1>1 DEF PublishBegin, PublishRefused, busOnly
<1>2. ASSUME NEW s \in Sinks, Deliver(s) \/ SubscribeReliable(s) \/ CancelReliable(s) PROVE StreamTypes'
  BY <1>0, <1>2 DEF Deliver, SubscribeReliable, CancelReliable, busOnly
<1>3. CASE FanOut
  <2>1. /\ UNCHANGED <<stream, known>>
        /\ chan' = [c \in Streams |-> IF Subscribed(c) THEN LastOf(Append(chan[c], publishing), Buffer) ELSE chan[c]]
    BY <1>3 DEF FanOut, busOnly
  <2>2. ASSUME NEW c \in Streams PROVE LastOf(Append(chan[c], publishing), Buffer) \in Seq(Nat)
    <3>1. Append(chan[c], publishing) \in Seq(Nat)
      BY <1>t
    <3> QED
      BY <1>t, <3>1, LastOfType
  <2>3. chan' \in [Streams -> Seq(Nat)]
    BY <1>t, <2>1, <2>2
  <2> QED
    BY <1>t, <2>1, <2>3 DEF StreamTypes
<1>4. ASSUME NEW c \in Streams PROVE Bootstrap(c) => StreamTypes'
  <2>1. [all |-> nextSeq, some |-> {}, revision |-> nextSeq] \in KnownRecs
    BY <1>t DEF KnownRecs
  <2> QED
    BY <1>t, <2>1 DEF Bootstrap, StreamTypes
<1>5. ASSUME NEW c \in Streams PROVE Subscribe(c) => StreamTypes'
  <2>0. known[c].revision \in Nat
    BY <1>t, KnownRec
  <2>1. [Off EXCEPT !.at = "subscribed", !.cursor = known[c].revision] \in StreamRecs
    BY <2>0, <1>o DEF StreamRecs
  <2> QED
    BY <1>t, <2>1, EmptyOf DEF Subscribe, StreamTypes
<1>6. ASSUME NEW c \in Streams PROVE Replay(c) => StreamTypes'
  <2>1. stream[c] \in StreamRecs /\ stream[c].cursor \in Nat
    BY <1>t, StreamRec
  <2>2. LastOf(After(ring, stream[c].cursor), ReplayMax) \in Seq(Nat)
    BY <2>1, ReplayIsAll
  <2>3. Gap(stream[c].cursor) \in BOOLEAN
    BY DEF Gap
  <2>4. [stream[c] EXCEPT !.at = "replay", !.gap = Gap(stream[c].cursor),
                          !.replay = LastOf(After(ring, stream[c].cursor), ReplayMax)] \in StreamRecs
    BY <2>1, <2>2, <2>3 DEF StreamRecs
  <2> QED
    BY <1>t, <2>4 DEF Replay, StreamTypes
<1>7. ASSUME NEW c \in Streams PROVE Resync(c) => StreamTypes'
  <2>1. stream[c] \in StreamRecs /\ known[c].revision \in Nat
    BY <1>t, KnownRec
  <2>2. [stream[c] EXCEPT !.gap = FALSE] \in StreamRecs
    BY <2>1 DEF StreamRecs
  <2>3. [all |-> nextSeq, some |-> {},
         revision |-> IF nextSeq > known[c].revision THEN nextSeq ELSE known[c].revision] \in KnownRecs
    BY <1>t, <2>1 DEF KnownRecs
  <2> QED
    BY <1>t, <2>2, <2>3 DEF Resync, StreamTypes
<1>8. ASSUME NEW c \in Streams PROVE SendReplay(c) => StreamTypes'
  <2>1. stream[c] \in StreamRecs /\ stream[c].replay \in Seq(Nat) /\ known[c] \in KnownRecs
    BY <1>t, StreamRec
  <2>2. [stream[c] EXCEPT !.at = "live"] \in StreamRecs
    BY <2>1 DEF StreamRecs
  <2>3. ASSUME stream[c].replay # <<>>
        PROVE  /\ [stream[c] EXCEPT !.replay = Tail(@)] \in StreamRecs
               /\ Learns(known[c], Head(stream[c].replay)) \in KnownRecs
    <3>1. Tail(stream[c].replay) \in Seq(Nat) /\ Head(stream[c].replay) \in Nat
      BY <2>1, <2>3
    <3>2. [stream[c] EXCEPT !.replay = Tail(@)] \in StreamRecs
      BY <2>1, <3>1 DEF StreamRecs
    <3> QED
      BY <2>1, <3>1, <3>2, LearnsOf
  <2>4. CASE stream[c].replay = <<>>
    BY <1>t, <2>2, <2>4 DEF SendReplay, StreamTypes
  <2>5. CASE stream[c].replay # <<>>
    BY <1>t, <2>3, <2>5 DEF SendReplay, StreamTypes
  <2> QED
    BY <2>4, <2>5
<1>9. ASSUME NEW c \in Streams PROVE SendLive(c) => StreamTypes'
  <2>1. ASSUME chan[c] # <<>> PROVE Tail(chan[c]) \in Seq(Nat) /\ Learns(known[c], Head(chan[c])) \in KnownRecs
    <3>1. Tail(chan[c]) \in Seq(Nat) /\ Head(chan[c]) \in Nat /\ known[c] \in KnownRecs
      BY <1>t, <2>1
    <3> QED
      BY <3>1, LearnsOf
  <2> QED
    BY <1>t, <2>1 DEF SendLive, StreamTypes
<1>10. ASSUME NEW c \in Streams PROVE Disconnect(c) => StreamTypes'
  BY <1>t, <1>o, EmptyOf DEF Disconnect, StreamTypes
<1>11. CASE UNCHANGED busVars
  BY <1>0, <1>11 DEF busVars
<1> QED
  BY <1>1, <1>2, <1>3, <1>4, <1>5, <1>6, <1>7, <1>8, <1>9, <1>10, <1>11 DEF Next

LEMMA TypesKept ==
  ASSUME Parameters, BusTypes, Numbers, RingInv, [Next]_busVars
  PROVE  BusTypes'
<1>1. StreamTypes' /\ ring' \in Seq(Nat)
  BY StreamTypesKept, RingKept
<1>2. /\ nextSeq \in Nat /\ publishing \in Nat /\ todo \subseteq Sinks
      /\ accepted \subseteq Nat /\ lossy \subseteq Streams
      /\ sink \in [Sinks -> {"new", "on", "off"}]
      /\ heard \in [Sinks -> Seq(Nat)] /\ since \in [Sinks -> Nat]
  BY DEF BusTypes
<1>m. /\ nextSeq' = nextSeq \/ nextSeq' = nextSeq + 1
      /\ publishing' = publishing \/ publishing' = 0 \/ publishing' = nextSeq + 1
  BY DEF Next, PublishBegin, PublishRefused, Deliver, FanOut, SubscribeReliable, CancelReliable,
         Bootstrap, Subscribe, Replay, Resync, SendReplay, SendLive, Disconnect, streamOnly, busVars
<1>n. nextSeq' \in Nat /\ publishing' \in Nat
  BY <1>2, <1>m
<1>a. accepted' \subseteq Nat
  BY <1>2 DEF Next, PublishBegin, PublishRefused, Deliver, FanOut, SubscribeReliable, CancelReliable,
              Bootstrap, Subscribe, Replay, Resync, SendReplay, SendLive, Disconnect, streamOnly, busVars
<1>l. lossy' \subseteq Streams
  BY <1>2 DEF Next, PublishBegin, PublishRefused, Deliver, FanOut, SubscribeReliable, CancelReliable,
              Bootstrap, Subscribe, Replay, Resync, SendReplay, SendLive, Disconnect, streamOnly, busVars
<1>4. todo' \subseteq Sinks
  BY <1>2 DEF Next, PublishBegin, PublishRefused, Deliver, FanOut, SubscribeReliable, CancelReliable,
              Bootstrap, Subscribe, Replay, Resync, SendReplay, SendLive, Disconnect, streamOnly, busVars
<1>5. sink' \in [Sinks -> {"new", "on", "off"}] /\ since' \in [Sinks -> Nat]
  BY <1>2 DEF Next, PublishBegin, PublishRefused, Deliver, FanOut, SubscribeReliable, CancelReliable,
              Bootstrap, Subscribe, Replay, Resync, SendReplay, SendLive, Disconnect, streamOnly, busVars
<1>6. heard' \in [Sinks -> Seq(Nat)]
  <2>1. ASSUME NEW s \in Sinks, Deliver(s) PROVE heard' \in [Sinks -> Seq(Nat)]
    <3>1. Append(heard[s], publishing) \in Seq(Nat)
      BY <1>2, <2>1
    <3> QED
      BY <1>2, <2>1, <3>1 DEF Deliver
  <2> QED
    BY <1>2, <2>1 DEF Next, PublishBegin, PublishRefused, FanOut, SubscribeReliable, CancelReliable,
              Bootstrap, Subscribe, Replay, Resync, SendReplay, SendLive, Disconnect, streamOnly, busVars
<1> QED
  BY <1>1, <1>n, <1>a, <1>l, <1>4, <1>5, <1>6 DEF BusTypes, StreamTypes

StreamInv(c) == Revised(c) /\ Queued(c) /\ (c \notin lossy => OnItsWay(c))

\* A browser no step concerns.
LEMMA StreamSame ==
  ASSUME NEW c \in Streams, StreamInv(c), UNCHANGED <<nextSeq, publishing, accepted>>,
         known'[c] = known[c], stream'[c] = stream[c], chan'[c] = chan[c], c \in lossy' <=> c \in lossy
  PROVE  StreamInv(c)'
<1>1. Revised(c)'
  BY DEF StreamInv, Revised
<1>2. Queued(c)'
  BY DEF StreamInv, Queued
<1>3. c \notin lossy => OnItsWay(c)'
  BY DEF StreamInv, OnItsWay
<1> QED
  BY <1>1, <1>2, <1>3 DEF StreamInv

LEMMA PublishKeepsStreams ==
  ASSUME BusTypes, NEW c \in Streams, StreamInv(c), PublishBegin \/ PublishRefused
  PROVE  StreamInv(c)'
<1>1. /\ nextSeq' = nextSeq + 1
      /\ publishing' = 0 \/ publishing' = nextSeq + 1
      /\ UNCHANGED <<known, stream, chan, lossy, accepted>> /\ nextSeq \in Nat /\ known[c].revision \in Nat
  BY KnownRec DEF PublishBegin, PublishRefused, busOnly, BusTypes
<1>2. Revised(c)'
  <2>1. known[c].revision <= nextSeq
    BY DEF StreamInv, Revised
  <2>v. PICK v : v = known[c].revision
    OBVIOUS
  <2>2. v <= nextSeq' /\ (publishing' # 0 => v < publishing')
    BY <1>1, <2>1, <2>v
  <2> QED
    BY <1>1, <2>v, <2>2 DEF StreamInv, Revised
<1>3. Queued(c)'
  BY <1>1 DEF StreamInv, Queued
<1>4. c \notin lossy => OnItsWay(c)'
  BY <1>1 DEF StreamInv, OnItsWay
<1> QED
  BY <1>1, <1>2, <1>3, <1>4 DEF StreamInv

LEMMA FanOutKeepsStreams ==
  ASSUME Parameters, BusTypes, Numbers, NEW c \in Streams, StreamInv(c), FanOut
  PROVE  StreamInv(c)'
<1>1. PICK e, q : e = publishing /\ q = chan[c]
  OBVIOUS
<1>2. /\ e \in Nat /\ e # 0 /\ accepted' = accepted \cup {e} /\ accepted \subseteq Nat /\ q \in Seq(Nat)
      /\ publishing' = 0 /\ UNCHANGED <<nextSeq, stream, known>> /\ Buffer \in Nat /\ nextSeq \in Nat
      /\ lossy' = lossy \cup {x \in Streams : Subscribed(x) /\ Len(chan[x]) = Buffer}
      /\ chan' = [x \in Streams |-> IF Subscribed(x) THEN LastOf(Append(chan[x], publishing), Buffer) ELSE chan[x]]
  BY <1>1 DEF FanOut, busOnly, BusTypes, Parameters
<1>3. (\A x \in accepted : x < e) /\ e = nextSeq
  BY <1>1, <1>2 DEF Numbers
<1>4. /\ known[c].revision \in Nat /\ known[c].revision <= nextSeq /\ known[c].revision < e
      /\ stream[c].at \in {"off", "subscribed", "replay", "live"}
  <2>1. known[c] \in KnownRecs /\ stream[c] \in StreamRecs
    BY DEF BusTypes
  <2> QED
    BY <1>1, <1>2, <2>1, KnownRec, StreamRec DEF StreamInv, Revised
<1>5. Revised(c)'
  <2>1. ASSUME c \notin lossy', NEW x \in accepted', x <= known[c].revision
        PROVE  x <= known[c].all \/ x \in known[c].some
    <3>1. c \notin lossy
      BY <1>2, <2>1
    <3>2. x # e
      BY <1>2, <1>4, <2>1
    <3>3. x \in accepted
      BY <1>2, <2>1, <3>2
    <3> QED
      BY <2>1, <3>1, <3>3 DEF StreamInv, Revised
  <2> QED
    BY <1>2, <1>4, <2>1 DEF Revised
<1>6. Increasing(q) /\ Within(q, accepted) /\ Len(q) <= Buffer /\ Len(q) \in Nat
  BY <1>1, <1>2 DEF StreamInv, Queued
<1>7. PICK a, l : a = Append(q, e) /\ l = LastOf(a, Buffer)
  OBVIOUS
<1>8. \A i \in DOMAIN q : q[i] < e
  BY <1>3, <1>6 DEF Within
<1>9. a \in Seq(Nat) /\ Len(a) = Len(q) + 1 /\ \A x : Holds(a, x) <=> Holds(q, x) \/ x = e
  BY <1>2, <1>7, AppendOf
<1>10. Increasing(a)
  BY <1>2, <1>6, <1>7, <1>8, AppendOf
<1>11. l \in Seq(Nat) /\ Len(l) <= Buffer /\ Increasing(l) /\ \A x : Holds(l, x) => Holds(a, x)
  BY <1>2, <1>7, <1>9, <1>10, LastOfOf
<1>12. ASSUME Len(q) < Buffer PROVE l = a
  <2>1. Len(a) <= Buffer
    BY <1>2, <1>6, <1>9, <1>12
  <2> QED
    BY <1>2, <1>7, <1>9, <2>1, LastOfOf
<1>13. CASE ~Subscribed(c)
  <2>1. chan'[c] = chan[c] /\ stream'[c] = stream[c] /\ stream[c].at = "off"
    BY <1>2, <1>13 DEF Subscribed
  <2>2. Queued(c)'
    BY <1>2, <2>1 DEF StreamInv, Queued, Within
  <2>3. OnItsWay(c)'
    BY <2>1 DEF OnItsWay
  <2> QED
    BY <1>5, <2>2, <2>3 DEF StreamInv
<1>14. CASE Subscribed(c)
  <2>1. chan'[c] = l
    BY <1>1, <1>2, <1>7, <1>14
  <2>2. Within(l, accepted')
    <3>1. \A x : Holds(l, x) => x \in accepted'
      BY <1>2, <1>6, <1>9, <1>11, WithinHolds
    <3> QED
      BY <3>1, WithinHolds
  <2>3. Queued(c)'
    BY <1>2, <1>11, <2>1, <2>2 DEF StreamInv, Queued, Within
  <2>4. ASSUME c \notin lossy' PROVE OnItsWay(c)'
    <3>1. c \notin lossy /\ Len(q) # Buffer
      BY <1>1, <1>2, <1>14, <2>4
    <3>2. l = a
      BY <1>2, <1>6, <1>12, <3>1
    <3>3. OnItsWay(c) /\ Queued(c)
      BY <3>1 DEF StreamInv
    <3>4. \A x : Holds(l, x) <=> Holds(q, x) \/ x = e
      BY <1>9, <3>2
    <3>5. ASSUME stream[c].at = "replay", ~stream[c].gap, NEW x \in accepted', x > known[c].revision
          PROVE  \/ Holds(stream[c].replay, x)
                 \/ Holds(l, x) /\ \A i \in DOMAIN stream[c].replay : stream[c].replay[i] < x
      <4>1. CASE x = e
        <5>1. \A i \in DOMAIN stream[c].replay : stream[c].replay[i] < e
          BY <1>3, <3>3 DEF Queued, Within
        <5> QED
          BY <3>4, <4>1, <5>1
      <4>2. CASE x \in accepted
        BY <1>1, <3>3, <3>4, <3>5, <4>2 DEF OnItsWay
      <4> QED
        BY <1>2, <4>1, <4>2
    <3>6. ASSUME stream[c].at = "live", NEW x \in accepted', x > known[c].revision PROVE Holds(l, x)
      BY <1>1, <1>2, <3>3, <3>4, <3>6 DEF OnItsWay
    <3> QED
      BY <1>2, <2>1, <3>5, <3>6 DEF OnItsWay
  <2> QED
    BY <1>5, <2>3, <2>4 DEF StreamInv
<1> QED
  BY <1>13, <1>14

LEMMA BootstrapKeeps ==
  ASSUME BusTypes, Numbers, NEW c \in Streams, StreamInv(c), Bootstrap(c)
  PROVE  StreamInv(c)'
<1>1. /\ stream[c].at = "off" /\ publishing = 0 /\ UNCHANGED <<nextSeq, publishing, accepted, stream, chan>>
      /\ nextSeq \in Nat /\ known \in [Streams -> KnownRecs]
      /\ known' = [known EXCEPT ![c] = [all |-> nextSeq, some |-> {}, revision |-> nextSeq]]
  BY DEF Bootstrap, Subscribed, streamOnly, BusTypes
<1>2. known'[c].all = nextSeq /\ known'[c].revision = nextSeq
  BY <1>1
<1>3. \A e \in accepted : e <= nextSeq
  BY DEF Numbers
<1>4. Revised(c)'
  BY <1>1, <1>2, <1>3 DEF Revised
<1>5. Queued(c)' /\ OnItsWay(c)'
  BY <1>1 DEF StreamInv, Queued, OnItsWay
<1> QED
  BY <1>4, <1>5 DEF StreamInv

LEMMA SubscribeKeeps ==
  ASSUME Parameters, BusTypes, NEW c \in Streams, StreamInv(c), Subscribe(c)
  PROVE  StreamInv(c)'
<1>1. /\ UNCHANGED <<nextSeq, publishing, accepted, known, lossy>>
      /\ stream' = [stream EXCEPT ![c] = [Off EXCEPT !.at = "subscribed", !.cursor = known[c].revision]]
      /\ chan' = [chan EXCEPT ![c] = <<>>]
      /\ stream \in [Streams -> StreamRecs] /\ chan \in [Streams -> Seq(Nat)] /\ Buffer \in Nat
  BY DEF Subscribe, streamOnly, BusTypes, Parameters
<1>2. /\ stream'[c].at = "subscribed" /\ stream'[c].cursor = known[c].revision /\ stream'[c].replay = <<>>
      /\ chan'[c] = <<>>
  BY <1>1 DEF Off
<1>3. Revised(c)'
  BY <1>1 DEF StreamInv, Revised
<1>4. Queued(c)'
  BY <1>1, <1>2, EmptyOf DEF Queued, Within
<1>5. OnItsWay(c)'
  BY <1>2 DEF OnItsWay
<1> QED
  BY <1>3, <1>4, <1>5 DEF StreamInv

LEMMA ReplayKeeps ==
  ASSUME Parameters, BusTypes, RingInv, NEW c \in Streams, StreamInv(c), Replay(c)
  PROVE  StreamInv(c)'
<1>1. PICK n, r : n = stream[c].cursor /\ r = LastOf(After(ring, stream[c].cursor), ReplayMax)
  OBVIOUS
<1>2. /\ stream[c].at = "subscribed" /\ UNCHANGED <<nextSeq, publishing, accepted, known, lossy, chan>>
      /\ stream' = [stream EXCEPT ![c].at = "replay", ![c].gap = Gap(n), ![c].replay = r]
      /\ stream \in [Streams -> StreamRecs] /\ n \in Nat /\ n = known[c].revision
  <2>1. stream[c] \in StreamRecs
    BY DEF BusTypes
  <2> QED
    BY <1>1, <2>1, StreamRec DEF Replay, streamOnly, BusTypes, StreamInv, Queued
<1>3. stream'[c].at = "replay" /\ stream'[c].replay = r /\ stream'[c].gap = Gap(n)
  <2>1. stream[c] = [at |-> stream[c].at, cursor |-> stream[c].cursor, replay |-> stream[c].replay, gap |-> stream[c].gap]
    BY <1>2, StreamRec
  <2> QED
    BY <1>2, <2>1
<1>4. Increasing(r) /\ Within(r, accepted) /\ (~Gap(n) => \A e \in accepted : e > n => Holds(r, e))
  <2>1. r = LastOf(After(ring, n), ReplayMax)
    BY <1>1
  <2> QED
    BY <1>2, <2>1, ReplayIsAll
<1>5. Revised(c)'
  BY <1>2 DEF StreamInv, Revised
<1>6. Queued(c)'
  BY <1>2, <1>3, <1>4 DEF StreamInv, Queued, Within
<1>7. OnItsWay(c)'
  BY <1>2, <1>3, <1>4 DEF OnItsWay
<1> QED
  BY <1>5, <1>6, <1>7 DEF StreamInv

LEMMA ResyncKeeps ==
  ASSUME BusTypes, Numbers, NEW c \in Streams, StreamInv(c), Resync(c)
  PROVE  StreamInv(c)'
<1>1. PICK v : v = known[c].revision
  OBVIOUS
<1>2. /\ stream[c].at = "replay" /\ publishing = 0 /\ UNCHANGED <<nextSeq, publishing, accepted, lossy, chan>>
      /\ known' = [known EXCEPT ![c] = [all |-> nextSeq, some |-> {}, revision |-> IF nextSeq > v THEN nextSeq ELSE v]]
      /\ stream' = [stream EXCEPT ![c].gap = FALSE]
      /\ stream \in [Streams -> StreamRecs] /\ known \in [Streams -> KnownRecs]
      /\ nextSeq \in Nat /\ v \in Nat /\ v <= nextSeq /\ accepted \subseteq Nat
  <2>1. known[c] \in KnownRecs
    BY DEF BusTypes
  <2> QED
    BY <1>1, <2>1, KnownRec DEF Resync, streamOnly, BusTypes, StreamInv, Revised
<1>3. known'[c].all = nextSeq /\ known'[c].revision = nextSeq
  BY <1>2
<1>4. stream'[c].at = "replay" /\ stream'[c].replay = stream[c].replay
  <2>1. stream[c] = [at |-> stream[c].at, cursor |-> stream[c].cursor, replay |-> stream[c].replay, gap |-> stream[c].gap]
    BY <1>2, StreamRec
  <2> QED
    BY <1>2, <2>1
<1>5. \A e \in accepted : e <= nextSeq /\ ~(e > nextSeq)
  BY <1>2 DEF Numbers
<1>6. Revised(c)'
  BY <1>2, <1>3, <1>5 DEF Revised
<1>7. Queued(c)'
  BY <1>2, <1>4 DEF StreamInv, Queued, Within
<1>8. OnItsWay(c)'
  BY <1>2, <1>3, <1>4, <1>5 DEF OnItsWay
<1> QED
  BY <1>6, <1>7, <1>8 DEF StreamInv

\* The browser learns e, and every older event was known: its revision stays whole.
LEMMA LearnsKeeps ==
  ASSUME BusTypes, Numbers, NEW c \in Streams, StreamInv(c), NEW e \in accepted,
         UNCHANGED <<nextSeq, publishing, accepted, lossy>>, known'[c] = Learns(known[c], e),
         c \notin lossy => \A x \in accepted : x > known[c].revision => e <= x
  PROVE  /\ Revised(c)'
         /\ \A x \in accepted : x > known'[c].revision => x > known[c].revision /\ x # e
<1>1. PICK k, l : k = known[c] /\ l = Learns(k, e)
  OBVIOUS
<1>2. /\ k \in KnownRecs /\ e \in Nat /\ accepted \subseteq Nat /\ known'[c] = l
      /\ nextSeq \in Nat /\ publishing \in Nat
  BY <1>1 DEF BusTypes
<1>3. l \in KnownRecs /\ l.all = k.all /\ k.some \subseteq l.some
  BY <1>1, <1>2, LearnsOf
<1>4. e <= k.revision => l = k
  BY <1>1, <1>2, LearnsOf
<1>5. e > k.revision => l.revision = e /\ e \in l.some
  BY <1>1, <1>2, LearnsOf
<1>6. k.revision \in Nat /\ k.revision <= nextSeq /\ (publishing # 0 => k.revision < publishing)
  BY <1>1, <1>2, KnownRec DEF StreamInv, Revised
<1>7. e <= nextSeq /\ (publishing # 0 => e < publishing)
  BY DEF Numbers
<1>8. c \notin lossy => \A x \in accepted : x <= k.revision => x <= k.all \/ x \in k.some
  BY <1>1 DEF StreamInv, Revised
<1>9. CASE e <= k.revision
  <2>1. Revised(c)'
    BY <1>1, <1>2, <1>4, <1>9 DEF StreamInv, Revised
  <2>2. \A x \in accepted : x > k.revision => x # e
    BY <1>2, <1>6, <1>9
  <2> QED
    BY <1>1, <1>2, <1>4, <1>9, <2>1, <2>2
<1>10. CASE e > k.revision
  <2>1. l.revision = e /\ e \in l.some
    BY <1>5, <1>10
  <2>2. ASSUME c \notin lossy, NEW x \in accepted, x <= e PROVE x <= l.all \/ x \in l.some
    <3>1. x \in Nat
      BY <1>2
    <3>2. CASE x <= k.revision
      BY <1>3, <1>8, <2>2, <3>2
    <3>3. CASE x > k.revision
      <4>1. e <= x
        BY <1>1, <2>2, <3>3
      <4>2. x = e
        BY <1>2, <2>2, <3>1, <4>1
      <4> QED
        BY <2>1, <4>2
    <3> QED
      BY <1>6, <3>1, <3>2, <3>3
  <2>3. Revised(c)'
    BY <1>2, <1>7, <2>1, <2>2 DEF Revised
  <2>4. \A x \in accepted : x > e => x > k.revision /\ x # e
    BY <1>2, <1>6, <1>10
  <2> QED
    BY <1>1, <1>2, <2>1, <2>3, <2>4
<1> QED
  BY <1>2, <1>6, <1>9, <1>10

LEMMA SendReplayKeeps ==
  ASSUME BusTypes, Numbers, NEW c \in Streams, StreamInv(c), SendReplay(c)
  PROVE  StreamInv(c)'
<1>1. PICK r : r = stream[c].replay
  OBVIOUS
<1>2. /\ stream[c].at = "replay" /\ ~stream[c].gap /\ UNCHANGED <<nextSeq, publishing, accepted, lossy, chan>>
      /\ r = <<>> => stream' = [stream EXCEPT ![c].at = "live"] /\ known' = known
      /\ r # <<>> => /\ known' = [known EXCEPT ![c] = Learns(@, Head(r))]
                     /\ stream' = [stream EXCEPT ![c].replay = Tail(@)]
      /\ stream \in [Streams -> StreamRecs] /\ known \in [Streams -> KnownRecs]
  BY <1>1 DEF SendReplay, streamOnly, BusTypes
<1>3. /\ stream[c] = [at |-> stream[c].at, cursor |-> stream[c].cursor, replay |-> stream[c].replay, gap |-> stream[c].gap]
      /\ r \in Seq(Nat)
  BY <1>1, <1>2, StreamRec
<1>4. Increasing(r) /\ \A x : Holds(r, x) => x \in accepted
  BY <1>1, WithinHolds DEF StreamInv, Queued
<1>w. c \notin lossy => \A x \in accepted : x > known[c].revision =>
          Holds(r, x) \/ (Holds(chan[c], x) /\ \A i \in DOMAIN r : r[i] < x)
  BY <1>1, <1>2 DEF StreamInv, OnItsWay
<1>5. CASE r = <<>>
  <2>1. stream'[c].at = "live" /\ stream'[c].replay = r /\ known'[c] = known[c]
    BY <1>1, <1>2, <1>3, <1>5
  <2>2. Revised(c)'
    BY <1>2, <2>1 DEF StreamInv, Revised
  <2>3. Queued(c)'
    BY <1>1, <1>2, <2>1 DEF StreamInv, Queued, Within
  <2>4. c \notin lossy => OnItsWay(c)'
    BY <1>2, <1>5, <1>w, <2>1, EmptyOf DEF OnItsWay
  <2> QED
    BY <1>2, <2>2, <2>3, <2>4 DEF StreamInv
<1>6. CASE r # <<>>
  <2>1. PICK e, t : e = Head(r) /\ t = Tail(r)
    OBVIOUS
  <2>2. /\ stream'[c].at = "replay" /\ stream'[c].replay = t /\ known'[c] = Learns(known[c], e)
    BY <1>1, <1>2, <1>3, <1>6, <2>1
  <2>3. e \in Nat /\ t \in Seq(Nat) /\ Holds(r, e) /\ Increasing(t)
    BY <1>3, <1>4, <1>6, <2>1, RestOf
  <2>4. \A x : Holds(r, x) <=> x = e \/ Holds(t, x)
    BY <1>3, <1>6, <2>1, RestOf
  <2>5. \A x : Holds(r, x) => e <= x
    BY <1>3, <1>4, <1>6, <2>1, RestOf
  <2>6. e \in accepted
    BY <1>4, <2>3
  <2>7. ASSUME c \notin lossy, NEW x \in accepted, x > known[c].revision PROVE e <= x
    <3>1. CASE Holds(r, x)
      BY <2>5, <3>1
    <3>2. CASE \A i \in DOMAIN r : r[i] < x
      <4>1. e < x
        BY <2>3, <3>2 DEF Holds
      <4>2. x \in Nat
        BY DEF BusTypes
      <4> QED
        BY <2>3, <4>1, <4>2
    <3> QED
      BY <1>w, <2>7, <3>1, <3>2
  <2>8. Revised(c)' /\ \A x \in accepted : x > known'[c].revision => x > known[c].revision /\ x # e
    BY <1>2, <2>2, <2>6, <2>7, LearnsKeeps
  <2>9. Queued(c)'
    <3>1. Within(t, accepted)
      BY <1>4, <2>4, WithinHolds
    <3> QED
      BY <1>2, <2>2, <2>3, <3>1 DEF StreamInv, Queued, Within
  <2>10. ASSUME c \notin lossy PROVE OnItsWay(c)'
    <3>1. \A i \in DOMAIN t : Holds(t, t[i])
      BY DEF Holds
    <3>2. ASSUME NEW x \in accepted, x > known'[c].revision
          PROVE  Holds(t, x) \/ (Holds(chan[c], x) /\ \A i \in DOMAIN t : t[i] < x)
      <4>1. x > known[c].revision /\ x # e
        BY <2>8, <3>2
      <4>2. CASE Holds(r, x)
        BY <2>4, <4>1, <4>2
      <4>3. CASE Holds(chan[c], x) /\ \A i \in DOMAIN r : r[i] < x
        <5>1. \A i \in DOMAIN t : t[i] < x
          BY <2>4, <3>1, <4>3 DEF Holds
        <5> QED
          BY <4>3, <5>1
      <4> QED
        BY <1>w, <2>10, <4>1, <4>2, <4>3
    <3> QED
      BY <1>2, <2>2, <3>2 DEF OnItsWay
  <2> QED
    BY <1>2, <2>8, <2>9, <2>10 DEF StreamInv
<1> QED
  BY <1>5, <1>6

LEMMA SendLiveKeeps ==
  ASSUME Parameters, BusTypes, Numbers, NEW c \in Streams, StreamInv(c), SendLive(c)
  PROVE  StreamInv(c)'
<1>1. PICK q, e, t : q = chan[c] /\ e = Head(q) /\ t = Tail(q)
  OBVIOUS
<1>2. /\ stream[c].at = "live" /\ q # <<>> /\ q \in Seq(Nat) /\ UNCHANGED <<nextSeq, publishing, accepted, lossy, stream>>
      /\ known'[c] = Learns(known[c], e) /\ chan'[c] = t /\ accepted \subseteq Nat
  BY <1>1 DEF SendLive, streamOnly, BusTypes
<1>3. Increasing(q) /\ (\A x : Holds(q, x) => x \in accepted) /\ Len(q) <= Buffer
  BY <1>1, WithinHolds DEF StreamInv, Queued
<1>4. e \in Nat /\ t \in Seq(Nat) /\ Holds(q, e) /\ Increasing(t) /\ Len(t) < Len(q)
  BY <1>1, <1>2, <1>3, RestOf
<1>5. \A x : Holds(q, x) <=> x = e \/ Holds(t, x)
  BY <1>1, <1>2, RestOf
<1>6. \A x : Holds(q, x) => e <= x
  BY <1>1, <1>2, <1>3, RestOf
<1>7. e \in accepted
  BY <1>3, <1>4
<1>w. c \notin lossy => \A x \in accepted : x > known[c].revision => Holds(q, x)
  BY <1>1, <1>2 DEF StreamInv, OnItsWay
<1>8. Revised(c)' /\ \A x \in accepted : x > known'[c].revision => x > known[c].revision /\ x # e
  BY <1>2, <1>6, <1>7, <1>w, LearnsKeeps
<1>9. Queued(c)'
  <2>1. Within(t, accepted)
    BY <1>3, <1>5, WithinHolds
  <2>2. Len(t) <= Buffer
    <3>1. Len(t) \in Nat /\ Len(q) \in Nat
      BY <1>2, <1>4
    <3> QED
      BY <1>3, <1>4, <3>1 DEF Parameters
  <2> QED
    BY <1>2, <1>4, <2>1, <2>2 DEF StreamInv, Queued, Within
<1>10. c \notin lossy => OnItsWay(c)'
  BY <1>2, <1>5, <1>8, <1>w DEF OnItsWay
<1> QED
  BY <1>2, <1>8, <1>9, <1>10 DEF StreamInv

LEMMA DisconnectKeeps ==
  ASSUME Parameters, BusTypes, NEW c \in Streams, StreamInv(c), Disconnect(c)
  PROVE  StreamInv(c)'
<1>1. /\ UNCHANGED <<nextSeq, publishing, accepted, known, lossy>> /\ Buffer \in Nat
      /\ stream'[c] = Off /\ chan'[c] = <<>>
  BY DEF Disconnect, streamOnly, BusTypes, Parameters
<1>2. stream'[c].at = "off" /\ stream'[c].replay = <<>>
  BY <1>1 DEF Off
<1>3. Revised(c)'
  BY <1>1 DEF StreamInv, Revised
<1>4. Queued(c)'
  BY <1>1, <1>2, EmptyOf DEF Queued, Within
<1>5. OnItsWay(c)'
  BY <1>2 DEF OnItsWay
<1> QED
  BY <1>3, <1>4, <1>5 DEF StreamInv

LEMMA StreamsKept ==
  ASSUME Parameters, BusTypes, Numbers, RingInv, \A c \in Streams : StreamInv(c), [Next]_busVars
  PROVE  \A c \in Streams : StreamInv(c)'
<1> SUFFICES ASSUME NEW c \in Streams PROVE StreamInv(c)'
  OBVIOUS
<1>i. StreamInv(c)
  OBVIOUS
<1>t. stream \in [Streams -> StreamRecs] /\ chan \in [Streams -> Seq(Nat)] /\ known \in [Streams -> KnownRecs]
  BY DEF BusTypes
<1>0. CASE UNCHANGED <<nextSeq, publishing, accepted, known, stream, chan, lossy>>
  <2>1. UNCHANGED <<nextSeq, publishing, accepted>> /\ known'[c] = known[c] /\ stream'[c] = stream[c] /\ chan'[c] = chan[c]
        /\ (c \in lossy' <=> c \in lossy)
    BY <1>0
  <2> QED
    BY <1>i, <2>1, StreamSame
<1>1. CASE PublishBegin \/ PublishRefused
  BY <1>1, <1>i, PublishKeepsStreams
<1>2. CASE FanOut
  BY <1>2, <1>i, FanOutKeepsStreams
<1>3. ASSUME NEW s \in Sinks, Deliver(s) \/ SubscribeReliable(s) \/ CancelReliable(s)
      PROVE  UNCHANGED <<nextSeq, publishing, accepted, known, stream, chan, lossy>>
  BY <1>3 DEF Deliver, SubscribeReliable, CancelReliable, busOnly
<1>4. ASSUME NEW d \in Streams,
             Bootstrap(d) \/ Subscribe(d) \/ Replay(d) \/ Resync(d) \/ SendReplay(d) \/ SendLive(d) \/ Disconnect(d)
      PROVE  StreamInv(c)'
  <2>1. CASE d = c
    BY <1>4, <1>i, <2>1, BootstrapKeeps, SubscribeKeeps, ReplayKeeps, ResyncKeeps, SendReplayKeeps, SendLiveKeeps,
       DisconnectKeeps
  <2>2. CASE d # c
    <3>1. UNCHANGED <<nextSeq, publishing, accepted>> /\ (c \in lossy' <=> c \in lossy)
      BY <1>4, <2>2 DEF Bootstrap, Subscribe, Replay, Resync, SendReplay, SendLive, Disconnect, streamOnly
    <3>2. known'[c] = known[c]
      BY <1>t, <1>4, <2>2 DEF Bootstrap, Subscribe, Replay, Resync, SendReplay, SendLive, Disconnect
    <3>3. stream'[c] = stream[c]
      BY <1>t, <1>4, <2>2 DEF Bootstrap, Subscribe, Replay, Resync, SendReplay, SendLive, Disconnect
    <3>4. chan'[c] = chan[c]
      BY <1>t, <1>4, <2>2 DEF Bootstrap, Subscribe, Replay, Resync, SendReplay, SendLive, Disconnect
    <3> QED
      BY <1>i, <3>1, <3>2, <3>3, <3>4, StreamSame
  <2> QED
    BY <2>1, <2>2
<1>5. CASE UNCHANGED busVars
  BY <1>0, <1>5 DEF busVars
<1> QED
  BY <1>0, <1>1, <1>2, <1>3, <1>4, <1>5 DEF Next

-----------------------------------------------------------------------------
(* The theorems.                                                           *)

LEMMA StepInv == ASSUME Parameters, BusInv, [Next]_busVars PROVE BusInv'
<1>1. BusTypes /\ Numbers /\ SinkInv /\ RingInv /\ \A c \in Streams : StreamInv(c)
  BY DEF BusInv, StreamInv
<1>2. BusTypes'
  BY <1>1, TypesKept
<1>3. Numbers' /\ SinkInv' /\ RingInv'
  BY <1>1, NumbersKept, SinksKept, RingKept
<1>4. \A c \in Streams : StreamInv(c)'
  BY <1>1, StreamsKept
<1> QED
  BY <1>2, <1>3, <1>4 DEF BusInv, StreamInv

\* The ring is the newest events without a hole, and what a browser does not
\* know yet is in its replay or its channel, in order: kept by every step of
\* the bus and of the streams.
THEOREM BusInvariant == ASSUME Parameters PROVE Spec => []BusInv
<1>1. Init => BusInv
  BY InitInv
<1>2. BusInv /\ [Next]_busVars => BusInv'
  BY StepInv
<1> QED
  BY <1>1, <1>2, PTL DEF Spec

LEMMA InvSinks == ASSUME BusInv PROVE SinksHearAll
<1>1. BusTypes /\ SinkInv
  BY DEF BusInv
<1> SUFFICES ASSUME NEW s \in Sinks
             PROVE  /\ \A i \in 1..Len(heard[s]) - 1 : heard[s][i] < heard[s][i + 1]
                    /\ s \in todo => sink[s] = "on"
                    /\ sink[s] = "on" => {e \in accepted : e > since[s]} \subseteq {heard[s][i] : i \in DOMAIN heard[s]}
  BY DEF SinksHearAll
<1>2. PICK q : q = heard[s]
  OBVIOUS
<1>3. q \in Seq(Nat) /\ Increasing(q)
  BY <1>1, <1>2 DEF BusTypes, SinkInv
<1>4. ASSUME NEW i \in 1..Len(q) - 1 PROVE q[i] < q[i + 1]
  <2>1. i \in DOMAIN q /\ i + 1 \in DOMAIN q /\ i < i + 1
    BY <1>3
  <2> QED
    BY <1>3, <2>1 DEF Increasing
<1>5. s \in todo => sink[s] = "on"
  BY <1>1 DEF SinkInv
<1>6. sink[s] = "on" => \A e \in accepted : e > since[s] => Holds(q, e)
  BY <1>1, <1>2 DEF SinkInv
<1>7. sink[s] = "on" => {e \in accepted : e > since[s]} \subseteq {q[i] : i \in DOMAIN q}
  BY <1>6 DEF Holds
<1> QED
  BY <1>2, <1>4, <1>5, <1>7

\* A reliable sink (the audit log, the statistics) hears every accepted event of
\* the time it is registered, once and in order: Publish, SubscribeReliable and
\* the cancel function take turns under publishMu.
THEOREM SinksHear == ASSUME Parameters PROVE Spec => []SinksHearAll
<1>1. Spec => []BusInv
  BY BusInvariant
<1>2. BusInv => SinksHearAll
  BY InvSinks
<1> QED
  BY <1>1, <1>2, PTL

LEMMA InvStreams == ASSUME BusInv PROVE StreamMissesNothing
<1> SUFFICES ASSUME NEW c \in Streams, stream[c].at = "live", chan[c] = <<>>, c \notin lossy, NEW e \in accepted
             PROVE  e <= known[c].all \/ e \in known[c].some
  BY DEF StreamMissesNothing
<1>1. Revised(c) /\ OnItsWay(c) /\ known[c] \in KnownRecs /\ e \in Nat
  BY DEF BusInv, BusTypes
<1>2. known[c].revision \in Nat
  BY <1>1, KnownRec
<1>3. ~(e > known[c].revision)
  BY <1>1, EmptyOf DEF OnItsWay
<1> QED
  BY <1>1, <1>2, <1>3 DEF Revised

\* A browser that has read what its stream holds knows every accepted event,
\* whenever it subscribed and however often it came back: the channel is opened
\* before the ring is read, and a cursor the ring does not reach asks for a reload.
THEOREM StreamsMissNothing == ASSUME Parameters PROVE Spec => []StreamMissesNothing
<1>1. Spec => []BusInv
  BY BusInvariant
<1>2. BusInv => StreamMissesNothing
  BY InvStreams
<1> QED
  BY <1>1, <1>2, PTL

=============================================================================
