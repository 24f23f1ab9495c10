-------------------------- MODULE EventStream_proofs --------------------------
(***************************************************************************)
(* Theorems of EventStream, for every ring capacity, every set of clients  *)
(* and every bound: the types, the shape of the ring and the log, that an  *)
(* event below a client's bookmark is accounted for, and that the stream   *)
(* implements EventDelivery.                                               *)
(***************************************************************************)
EXTENDS EventStream, FiniteSetTheorems, SequenceTheorems, TLAPS

(***************************************************************************)
(* Sequences                                                               *)
(***************************************************************************)

(* RingAppend adds the number at the end and drops at most the oldest.     *)
LEMMA RingAppendElements ==
  ASSUME NEW S, NEW r \in Seq(S), NEW n \in S, Len(r) <= RingCapacity
  PROVE  LET q == RingAppend(r, n)
             d == IF Len(r) < RingCapacity THEN 0 ELSE 1
         IN /\ q \in Seq(S)
            /\ Len(q) = Len(r) + 1 - d /\ Len(q) <= RingCapacity
            /\ d <= Len(r)
            /\ \A i \in 1..(Len(r) - d) : q[i] = r[i + d]
            /\ q[Len(q)] = n
  <1>1. CASE Len(r) < RingCapacity
    BY <1>1, AppendProperties, CapacityAssumption DEF RingAppend
  <1>2. CASE ~(Len(r) < RingCapacity)
    <2>1. Len(r) = RingCapacity /\ r # <<>>
      BY <1>2, CapacityAssumption
    <2>2. /\ Tail(r) \in Seq(S)
          /\ Len(Tail(r)) = Len(r) - 1
          /\ \A i \in 1..Len(Tail(r)) : Tail(r)[i] = r[i + 1]
      BY <2>1, HeadTailProperties
    <2>3. RingAppend(r, n) = Append(Tail(r), n)
      BY <1>2 DEF RingAppend
    <2>4. QED
      BY <1>2, <2>1, <2>2, <2>3, AppendProperties, CapacityAssumption
  <1>3. QED
    BY <1>1, <1>2

(* LastN is the end of the sequence.                                       *)
LEMMA LastNElements ==
  ASSUME NEW S, NEW s \in Seq(S), NEW n \in Nat
  PROVE  LET q == LastN(s, n)
         IN /\ q \in Seq(S)
            /\ Len(q) = IF Len(s) <= n THEN Len(s) ELSE n
            /\ \A i \in 1..Len(q) : q[i] = s[Len(s) - Len(q) + i]
  <1>1. CASE Len(s) <= n
    BY <1>1 DEF LastN
  <1>2. CASE ~(Len(s) <= n)
    <2>1. \A i \in (Len(s) - n + 1)..Len(s) : s[i] \in S
      BY <1>2
    <2>2. LastN(s, n) = SubSeq(s, Len(s) - n + 1, Len(s))
      BY <1>2 DEF LastN
    <2>3. QED
      BY <1>2, <2>1, <2>2, SubSeqProperties
  <1>3. QED
    BY <1>1, <1>2

(* Since returns an ordered part of an ordered ring, and everything in it  *)
(* with a higher number.                                                   *)
LEMMA SinceElements ==
  ASSUME NEW S \in SUBSET Nat, NEW r \in Seq(S), NEW seen \in Nat, Increasing(r)
  PROVE  /\ Since(r, seen) \in Seq(S)
         /\ Increasing(Since(r, seen))
         /\ \A n \in Items(r) : n > seen => n \in Items(Since(r, seen))
         /\ Items(Since(r, seen)) \subseteq Items(r)
  <1> DEFINE low == {i \in 1..Len(r) : r[i] <= seen}
  <1>0. /\ Len(r) \in Nat /\ DOMAIN r = 1..Len(r)
        /\ \A i \in 1..Len(r) : r[i] \in S /\ r[i] \in Nat
    BY LenProperties, ElementOfSeq
  <1>1. PICK k \in Nat : k = Cardinality(low) /\ k <= Len(r)
    <2>1. IsFiniteSet(1..Len(r)) /\ Cardinality(1..Len(r)) = Len(r)
      BY <1>0, FS_Interval
    <2>2. low \subseteq 1..Len(r)
      OBVIOUS
    <2> HIDE DEF low
    <2>3. IsFiniteSet(low) /\ Cardinality(low) <= Len(r)
      BY <2>1, <2>2, FS_Subset
    <2>4. QED
      BY <2>3, FS_CardinalityType
  <1>2. \A i \in 1..Len(r) : r[i] > seen => k < i
    <2> SUFFICES ASSUME NEW i \in 1..Len(r), r[i] > seen
                 PROVE  k < i
      OBVIOUS
    <2>1. low \subseteq 1..(i - 1)
      BY <1>0 DEF Increasing
    <2>2. IsFiniteSet(1..(i - 1)) /\ Cardinality(1..(i - 1)) = i - 1
      <3>1. i - 1 \in Int /\ i - 1 >= 0 /\ 1 \in Int
        BY <1>0
      <3>2. /\ IsFiniteSet(1..(i - 1))
            /\ Cardinality(1..(i - 1)) = IF 1 > i - 1 THEN 0 ELSE (i - 1) - 1 + 1
        BY <3>1, FS_Interval
      <3>3. QED
        BY <3>1, <3>2
    <2> HIDE DEF low
    <2>3. Cardinality(low) <= i - 1
      BY <2>1, <2>2, FS_Subset
    <2>4. QED
      BY <2>3, <1>0, <1>1
  <1>3. \A i \in (k + 1)..Len(r) : r[i] \in S
    BY <1>0, <1>1
  <1>4. Since(r, seen) = SubSeq(r, k + 1, Len(r))
    BY <1>1 DEF Since
  <1> HIDE DEF low
  <1>5. /\ Since(r, seen) \in Seq(S)
        /\ Len(Since(r, seen)) = Len(r) - k
        /\ \A i \in 1..(Len(r) - k) : Since(r, seen)[i] = r[k + i]
    <2>1. k + 1 \in Int /\ Len(r) \in Int
      BY <1>0, <1>1
    <2> DEFINE q == SubSeq(r, k + 1, Len(r))
    <2>2. /\ q \in Seq(S)
          /\ Len(q) = IF k + 1 <= Len(r) THEN Len(r) - (k + 1) + 1 ELSE 0
          /\ \A i \in 1..(Len(r) - (k + 1) + 1) : q[i] = r[(k + 1) + i - 1]
      BY <2>1, <1>3, SubSeqProperties
    <2> HIDE DEF q
    <2>3. Len(q) = Len(r) - k
      BY <1>0, <1>1, <2>2
    <2>4. ASSUME NEW i \in 1..(Len(r) - k) PROVE q[i] = r[k + i]
      <3>1. i \in 1..(Len(r) - (k + 1) + 1) /\ (k + 1) + i - 1 = k + i
        BY <1>0
      <3>2. QED
        BY <2>2, <3>1
    <2>5. Since(r, seen) = q
      BY <1>4 DEF q
    <2>6. QED
      BY <2>2, <2>3, <2>4, <2>5
  <1>6. Increasing(Since(r, seen))
    <2>1. DOMAIN Since(r, seen) = 1..(Len(r) - k)
      BY <1>5, LenProperties
    <2>2. ASSUME NEW i \in 1..(Len(r) - k), NEW j \in 1..(Len(r) - k), i < j
          PROVE  Since(r, seen)[i] < Since(r, seen)[j]
      <3>1. k + i \in 1..Len(r) /\ k + j \in 1..Len(r) /\ k + i < k + j
        BY <1>0, <2>2
      <3>2. r[k + i] < r[k + j]
        BY <1>0, <3>1 DEF Increasing
      <3>3. QED
        BY <1>5, <3>2
    <2>3. QED
      BY <2>1, <2>2 DEF Increasing
  <1>7. \A i \in 1..Len(r) : r[i] > seen => r[i] \in Items(Since(r, seen))
    <2> SUFFICES ASSUME NEW i \in 1..Len(r), r[i] > seen
                 PROVE  r[i] \in Items(Since(r, seen))
      OBVIOUS
    <2>1. i - k \in 1..(Len(r) - k)
      BY <1>0, <1>1, <1>2
    <2>2. Since(r, seen)[i - k] = r[i]
      BY <1>1, <1>5, <2>1
    <2>3. QED
      BY <1>0, <1>1, <1>5, <2>1, <2>2 DEF Items
  <1>8. \A n \in Items(r) : n > seen => n \in Items(Since(r, seen))
    BY <1>0, <1>7 DEF Items
  <1>9. Items(Since(r, seen)) \subseteq Items(r)
    <2>1. \A i \in 1..(Len(r) - k) : k + i \in 1..Len(r)
      BY <1>0, <1>1
    <2>2. DOMAIN Since(r, seen) = 1..(Len(r) - k)
      BY <1>5, LenProperties
    <2>3. QED
      BY <1>0, <1>5, <2>1, <2>2 DEF Items
  <1>10. QED
    BY <1>5, <1>6, <1>8, <1>9

(***************************************************************************)
(* The frames that are sent have their type.                               *)
(***************************************************************************)
LEMMA EventTyped ==
  ASSUME NEW n \in 1..MaxSeq
  PROVE  Event(n) \in Frame
  BY BoundsAssumption DEF Event, Frame

LEMMA GapTyped ==
  ASSUME NEW n \in 1..MaxSeq, NEW since \in Nat, NEW first \in Nat
  PROVE  <<Gap(n, since, first)>> \in Seq(Frame)
  <1>1. (since + 1)..(first - 1) \subseteq Nat
    OBVIOUS
  <1>2. Gap(n, since, first) \in Frame
    BY <1>1, BoundsAssumption DEF Gap, Frame
  <1>3. QED
    BY <1>2

LEMMA CopiesTyped ==
  ASSUME NEW c \in Clients, NEW n \in 1..MaxSeq
  PROVE  Copies(c, n) \in Seq(Frame)
  <1> DEFINE one == <<Event(n)>>
             a == IF owner = c THEN one ELSE <<>>
             b == IF c \in watchers THEN one ELSE <<>>
  <1>1. one \in Seq(Frame) /\ <<>> \in Seq(Frame)
    BY EventTyped
  <1> HIDE DEF one
  <1>2. a \in Seq(Frame) /\ b \in Seq(Frame)
    BY <1>1
  <1> HIDE DEF a, b
  <1>3. a \o b \in Seq(Frame)
    BY <1>2, ConcatProperties
  <1>4. Copies(c, n) = IF ~Up(c) THEN <<>> ELSE a \o b
    BY DEF Copies, a, b, one
  <1>5. QED
    BY <1>1, <1>3, <1>4

(* Replay and notice of an attach, when the ring is in order.              *)
LEMMA ReplayTyped ==
  ASSUME TypeOK, Increasing(ring), NEW seen \in Nat
  PROVE  /\ Replay(seen) \in Seq(Frame)
         /\ Len(Replay(seen)) = Len(Since(ring, seen))
         /\ \A i \in 1..Len(Since(ring, seen)) :
              Replay(seen)[i] = Event(Since(ring, seen)[i])
  <1> DEFINE q == Since(ring, seen)
  <1>1. q \in Seq(1..MaxSeq)
    <2>1. 1..MaxSeq \in SUBSET Nat /\ ring \in Seq(1..MaxSeq)
      BY BoundsAssumption DEF TypeOK
    <2>2. QED
      BY <2>1, SinceElements
  <1> HIDE DEF q
  <1>2. Len(q) \in Nat /\ \A i \in 1..Len(q) : q[i] \in 1..MaxSeq
    BY <1>1, LenProperties, ElementOfSeq
  <1>3. \A i \in 1..Len(q) : Event(q[i]) \in Frame
    BY <1>2, EventTyped
  <1>4. Replay(seen) = [i \in 1..Len(q) |-> Event(q[i])]
    BY DEF Replay, q
  <1>5. Replay(seen) \in [1..Len(q) -> Frame]
    BY <1>3, <1>4
  <1>6. Replay(seen) \in Seq(Frame)
    BY <1>2, <1>5, SeqDef
  <1>7. Len(Replay(seen)) = Len(q)
    BY <1>2, <1>5, <1>6, LenProperties
  <1>8. QED
    BY <1>4, <1>6, <1>7 DEF q

LEMMA NoticeTyped ==
  ASSUME TypeOK, NEW seen \in Nat, seq + 1 <= MaxSeq
  PROVE  /\ Notice(seen) \in Seq(Frame) /\ Len(Notice(seen)) \in {0, 1}
         /\ WatchNotice(seen) \in Seq(Frame) /\ Len(WatchNotice(seen)) \in {0, 1}
  <1>1. seq \in Nat /\ seq + 1 \in 1..MaxSeq /\ seq + 2 \in Nat
    BY BoundsAssumption DEF TypeOK
  <1>2. <<>> \in Seq(Frame) /\ Len(<<>>) = 0
    OBVIOUS
  <1>3. ASSUME NEW first \in Nat
        PROVE  /\ <<Gap(seq + 1, seen, first)>> \in Seq(Frame)
               /\ Len(<<Gap(seq + 1, seen, first)>>) = 1
    BY <1>1, GapTyped
  <1>4. RolledPast(ring, seen) => Head(ring) \in Nat
    BY HeadTailProperties, BoundsAssumption DEF TypeOK, RolledPast
  <1>5. QED
    BY <1>1, <1>2, <1>3, <1>4 DEF Notice, WatchNotice

(***************************************************************************)
(* Types, with the order of the ring that they need.                       *)
(***************************************************************************)
NewestRing ==
  /\ Increasing(ring)
  /\ Items(ring) \subseteq emitted
  /\ \A m \in emitted \ Items(ring) : \A n \in Items(ring) : m < n
  /\ emitted # {} => ring # <<>>

RecordInv ==
  /\ Increasing(log)
  /\ Items(log) \subseteq emitted
  /\ emitted \subseteq 1..seq
  /\ NewestRing

Inv == TypeOK /\ RecordInv

(* A rebuild that reads no whole frame of a log that has some restarts the *)
(* numbers, and what is in the log is then ahead of them.                  *)
InvUnlessForgot == ~forgot => Inv

THEOREM InitInv == Init => Inv
  <1> SUFFICES ASSUME Init PROVE Inv
    OBVIOUS
  <1>1. <<>> \in Seq(1..MaxSeq) /\ <<>> \in Seq(Frame) /\ Len(<<>>) = 0
    OBVIOUS
  <1>2. TypeOK
    <2>1. forgot \in BOOLEAN
      BY DEF Init
    <2>2. /\ seq = 0 /\ ring = <<>> /\ log = <<>> /\ owner = NoOwner /\ watchers = {}
          /\ conn = [c \in Clients |-> "down"] /\ chan = [c \in Clients |-> <<>>]
          /\ lastSeq = [c \in Clients |-> 0] /\ told = [c \in Clients |-> {}]
          /\ lostNotice = [c \in Clients |-> {}] /\ emitted = {} /\ recoveries = 0
      BY DEF Init
    <2> QED
      BY <1>1, <2>1, <2>2, CapacityAssumption, BoundsAssumption DEF TypeOK
  <1>3. RecordInv
    BY DEF Init, RecordInv, NewestRing, Increasing, Items
  <1>4. QED
    BY <1>2, <1>3 DEF Inv

(* A new event keeps the ring the newest part of the record.               *)
LEMMA RingAppendKeeps ==
  ASSUME Inv, seq + 1 <= MaxSeq,
         ring' = RingAppend(ring, seq + 1), emitted' = emitted \cup {seq + 1}
  PROVE  NewestRing'
  <1> DEFINE n == seq + 1
             d == IF Len(ring) < RingCapacity THEN 0 ELSE 1
  <1>1. /\ n \in 1..MaxSeq /\ ring \in Seq(1..MaxSeq) /\ Len(ring) <= RingCapacity
        /\ seq \in Nat
    BY BoundsAssumption DEF Inv, TypeOK
  <1>2. /\ ring' \in Seq(1..MaxSeq)
        /\ Len(ring') = Len(ring) + 1 - d
        /\ d <= Len(ring)
        /\ \A i \in 1..(Len(ring) - d) : ring'[i] = ring[i + d]
        /\ ring'[Len(ring')] = n
    <2>1. ring' = RingAppend(ring, n)
      OBVIOUS
    <2> HIDE DEF n, d
    <2> DEFINE S == 1..MaxSeq
               q == RingAppend(ring, n)
    <2>2. n \in S /\ ring \in Seq(S) /\ Len(ring) <= RingCapacity
      BY <1>1
    <2> HIDE DEF S
    <2>3. /\ q \in Seq(S) /\ Len(q) = Len(ring) + 1 - d /\ d <= Len(ring)
          /\ \A i \in 1..(Len(ring) - d) : q[i] = ring[i + d]
          /\ q[Len(q)] = n
      BY <2>2, RingAppendElements DEF d
    <2> QED
      BY <2>1, <2>3 DEF S
  <1>3. /\ Len(ring) \in Nat /\ DOMAIN ring = 1..Len(ring)
        /\ Len(ring') \in Nat /\ DOMAIN ring' = 1..Len(ring')
        /\ d \in {0, 1}
    BY <1>1, <1>2, LenProperties
  <1>4. /\ Increasing(ring) /\ Items(ring) \subseteq emitted
        /\ emitted \subseteq 1..seq
        /\ \A m \in emitted \ Items(ring) : \A k \in Items(ring) : m < k
        /\ emitted # {} => ring # <<>>
    BY DEF Inv, RecordInv, NewestRing
  <1> HIDE DEF d, n
  <1>5. \A i \in 1..(Len(ring') - 1) :
          /\ i + d \in 1..Len(ring) /\ ring'[i] = ring[i + d]
          /\ ring'[i] \in Items(ring) /\ ring'[i] < n
    <2> SUFFICES ASSUME NEW i \in 1..(Len(ring') - 1)
                 PROVE  /\ i + d \in 1..Len(ring) /\ ring'[i] = ring[i + d]
                        /\ ring'[i] \in Items(ring) /\ ring'[i] < n
      OBVIOUS
    <2>1. i \in 1..(Len(ring) - d) /\ i + d \in 1..Len(ring)
      BY <1>2, <1>3
    <2>2. ring'[i] = ring[i + d] /\ ring'[i] \in Items(ring)
      BY <1>2, <1>3, <2>1 DEF Items
    <2>3. ring'[i] \in 1..seq
      BY <1>4, <2>2
    <2>4. QED
      BY <1>1, <2>1, <2>2, <2>3 DEF n
  <1>6. Increasing(ring')
    <2> SUFFICES ASSUME NEW i \in 1..Len(ring'), NEW j \in 1..Len(ring'), i < j
                 PROVE  ring'[i] < ring'[j]
      BY <1>3 DEF Increasing
    <2>1. i \in 1..(Len(ring') - 1)
      BY <1>3
    <2>2. CASE j = Len(ring')
      BY <1>2, <1>5, <2>1, <2>2
    <2>3. CASE j # Len(ring')
      <3>1. j \in 1..(Len(ring') - 1) /\ i + d < j + d
        BY <1>3, <2>3
      <3>2. ring[i + d] < ring[j + d]
        BY <1>3, <1>4, <1>5, <2>1, <3>1 DEF Increasing
      <3>3. QED
        BY <1>5, <2>1, <3>1, <3>2
    <2>4. QED
      BY <2>2, <2>3
  <1>7. Items(ring') = {ring'[i] : i \in 1..(Len(ring') - 1)} \cup {n}
    <2>1. 1..Len(ring') = 1..(Len(ring') - 1) \cup {Len(ring')}
      BY <1>2, <1>3
    <2>2. Items(ring') = {ring'[i] : i \in 1..(Len(ring') - 1) \cup {Len(ring')}}
      BY <1>3, <2>1 DEF Items
    <2>3. QED
      BY <1>2, <2>2
  <1>8. Items(ring') \subseteq emitted'
    BY <1>4, <1>5, <1>7 DEF n
  <1>9. ASSUME NEW m \in emitted' \ Items(ring'), NEW k \in Items(ring')
        PROVE  m < k
    <2>1. m \in emitted /\ m \in 1..seq
      BY <1>4, <1>7, <1>9 DEF n
    <2>2. CASE k = n
      BY <1>1, <2>1, <2>2 DEF n
    <2>3. CASE k # n
      <3>1. PICK i \in 1..(Len(ring') - 1) : k = ring'[i]
        BY <1>7, <2>3
      <3>2. k \in Items(ring) /\ k = ring[i + d]
        BY <1>5, <3>1
      <3>3. CASE m \notin Items(ring)
        BY <1>4, <2>1, <3>2, <3>3
      <3>4. CASE m \in Items(ring)
        <4>1. PICK j \in 1..Len(ring) : m = ring[j]
          BY <1>3, <3>4 DEF Items
        <4>2. j <= d
          <5> SUFFICES ASSUME ~(j <= d) PROVE FALSE
            OBVIOUS
          <5>1. j - d \in 1..(Len(ring') - 1) /\ (j - d) + d = j
            BY <1>2, <1>3
          <5>2. m = ring'[j - d]
            BY <1>5, <4>1, <5>1
          <5>3. QED
            BY <1>7, <5>1, <5>2, <1>9
        <4>3. i + d \in 1..Len(ring) /\ j < i + d
          BY <1>3, <1>5, <4>2
        <4>4. QED
          BY <1>3, <1>4, <3>2, <4>1, <4>3 DEF Increasing
      <3>5. QED
        BY <3>3, <3>4
    <2>4. QED
      BY <2>2, <2>3
  <1>10. ring' # <<>>
    BY <1>2, <1>3
  <1>11. QED
    BY <1>6, <1>8, <1>9, <1>10 DEF NewestRing

LEMMA OnEventInv == Inv /\ OnEvent => Inv'
  <1> SUFFICES ASSUME Inv, OnEvent PROVE Inv'
    OBVIOUS
  <1>1. seq + 1 \in 1..MaxSeq /\ seq \in Nat
    BY BoundsAssumption DEF Inv, TypeOK, OnEvent
  <1>2. NewestRing'
    BY RingAppendKeeps DEF OnEvent
  <1>3. TypeOK'
    <2>1. ring' \in Seq(1..MaxSeq) /\ Len(ring') <= RingCapacity
      BY <1>1, RingAppendElements DEF Inv, TypeOK, OnEvent
    <2>2. log' \in Seq(1..MaxSeq)
      <3>1. log' = log \/ log' = Append(log, seq + 1)
        BY Zenon DEF OnEvent
      <3>2. log \in Seq(1..MaxSeq)
        BY DEF Inv, TypeOK
      <3>3. Append(log, seq + 1) \in Seq(1..MaxSeq)
        BY <1>1, <3>2, AppendProperties
      <3>4. QED
        BY <3>1, <3>2, <3>3
    <2>3. ASSUME NEW c \in Clients PROVE chan[c] \o Copies(c, seq + 1) \in Seq(Frame)
      <3>1. chan[c] \in Seq(Frame)
        BY DEF Inv, TypeOK
      <3>2. QED
        BY <1>1, <3>1, CopiesTyped, ConcatProperties
    <2>4. chan' \in [Clients -> Seq(Frame)]
      BY <2>3 DEF OnEvent
    <2>5. QED
      BY <1>1, <2>1, <2>2, <2>4 DEF Inv, TypeOK, OnEvent
  <1>4. Increasing(log') /\ Items(log') \subseteq emitted'
    <2>1. /\ log \in Seq(1..MaxSeq) /\ Increasing(log)
          /\ Items(log) \subseteq emitted /\ emitted \subseteq 1..seq
      BY DEF Inv, TypeOK, RecordInv
    <2>2. CASE log' = log
      BY <2>1, <2>2 DEF OnEvent
    <2>3. CASE log' = Append(log, seq + 1)
      <3>1. /\ DOMAIN log = 1..Len(log) /\ Len(log) \in Nat
            /\ \A i \in 1..Len(log) : log[i] \in 1..seq
        BY <2>1, LenProperties DEF Items
      <3>2. /\ DOMAIN log' = 1..(Len(log) + 1)
            /\ \A i \in 1..Len(log) : log'[i] = log[i]
            /\ log'[Len(log) + 1] = seq + 1
        BY <1>1, <2>1, <2>3, AppendProperties, LenProperties
      <3>3. \A i \in 1..(Len(log) + 1) : i \in 1..Len(log) \/ i = Len(log) + 1
        BY <3>1
      <3>4. Increasing(log')
        BY <1>1, <2>1, <3>1, <3>2, <3>3 DEF Increasing
      <3>5. Items(log') \subseteq emitted'
        BY <2>1, <3>1, <3>2, <3>3 DEF Items, OnEvent
      <3>6. QED
        BY <3>4, <3>5
    <2>4. QED
      BY <2>2, <2>3 DEF OnEvent
  <1>5. emitted' \subseteq 1..seq'
    BY <1>1 DEF Inv, RecordInv, OnEvent
  <1>6. QED
    BY <1>2, <1>3, <1>4, <1>5 DEF Inv, RecordInv

(* Only the counter grows: what is on record stays as it is.               *)
LEMMA RecordUnchanged ==
  ASSUME Inv, UNCHANGED <<ring, log, emitted>>, seq' \in Nat, seq' >= seq
  PROVE  RecordInv'
  <1>1. emitted' \subseteq 1..seq'
    BY BoundsAssumption DEF Inv, TypeOK, RecordInv
  <1>2. QED
    BY <1>1 DEF Inv, RecordInv, NewestRing

(* A counter within its bound that takes one more number, or none.         *)
LEMMA CounterWithin ==
  ASSUME NEW a \in Nat, NEW d \in {0, 1}, NEW m \in Nat, a + 1 <= m
  PROVE  a + d \in 0..m /\ a + d >= a
  OBVIOUS

(* Frames added to one client's queue.                                     *)
LEMMA SendTyped ==
  ASSUME Inv, NEW c \in Clients, NEW a \in Seq(Frame), NEW b \in Seq(Frame),
         chan' = [chan EXCEPT ![c] = @ \o a \o b]
  PROVE  chan' \in [Clients -> Seq(Frame)]
  <1>1. chan \in [Clients -> Seq(Frame)]
    BY DEF Inv, TypeOK
  <1>2. chan[c] \o a \o b \in Seq(Frame)
    BY <1>1, ConcatProperties
  <1>3. QED
    BY <1>1, <1>2

LEMMA AttachInv ==
  ASSUME Inv, NEW c \in Clients, NEW seen \in {0, lastSeq[c]}, Attach(c, seen)
  PROVE  Inv'
  <1>1. seen \in Nat /\ seq \in Nat /\ seq + 1 <= MaxSeq /\ Increasing(ring)
    BY BoundsAssumption DEF Inv, TypeOK, RecordInv, NewestRing, Attach
  <1>2. /\ Replay(seen) \in Seq(Frame)
        /\ Notice(seen) \in Seq(Frame) /\ Len(Notice(seen)) \in {0, 1}
    BY <1>1, ReplayTyped, NoticeTyped DEF Inv
  <1>3. chan' \in [Clients -> Seq(Frame)]
    BY <1>2, SendTyped DEF Attach
  <1>4. seq' \in 0..MaxSeq /\ seq' >= seq
    <2>1. seq' = seq + Len(Notice(seen))
      BY DEF Attach
    <2>2. QED
      BY <1>1, <1>2, <2>1, BoundsAssumption, CounterWithin
  <1>5. RecordInv'
    BY <1>4, RecordUnchanged DEF Attach
  <1>6. TypeOK'
    <2>1. owner' \in Clients \cup {NoOwner}
      BY DEF Attach
    <2>2. QED
      BY <1>3, <1>4, <2>1 DEF Inv, TypeOK, Attach
  <1>7. QED
    BY <1>5, <1>6 DEF Inv

LEMMA WatchInv ==
  ASSUME Inv, NEW c \in Clients, NEW seen \in {0, lastSeq[c], LiveOnly}, Watch(c, seen)
  PROVE  Inv'
  <1>1. CASE seen = LiveOnly /\ UNCHANGED <<seq, chan>>
             /\ told' = [told EXCEPT ![c] = @ \cup 1..seq]
    <2>1. told' \in [Clients -> SUBSET Nat]
      BY <1>1 DEF Inv, TypeOK
    <2>2. RecordInv'
      BY <1>1, RecordUnchanged, BoundsAssumption DEF Inv, TypeOK, Watch
    <2>3. QED
      BY <1>1, <2>1, <2>2 DEF Inv, TypeOK, Watch
  <1>2. CASE /\ seen # LiveOnly /\ seq + 1 <= MaxSeq
             /\ seq' = seq + Len(WatchNotice(seen))
             /\ chan' = [chan EXCEPT ![c] = @ \o Replay(seen) \o WatchNotice(seen)]
             /\ UNCHANGED told
    <2>1. seen \in Nat /\ seq \in Nat /\ Increasing(ring)
      BY <1>2, BoundsAssumption DEF Inv, TypeOK, RecordInv, NewestRing
    <2>2. /\ Replay(seen) \in Seq(Frame)
          /\ WatchNotice(seen) \in Seq(Frame) /\ Len(WatchNotice(seen)) \in {0, 1}
      BY <1>2, <2>1, ReplayTyped, NoticeTyped DEF Inv
    <2>3. chan' \in [Clients -> Seq(Frame)]
      BY <1>2, <2>2, SendTyped
    <2>4. seq' \in 0..MaxSeq /\ seq' >= seq
      <3>1. MaxSeq \in Nat /\ seq \in Nat /\ seq + 1 <= MaxSeq
        BY <1>2, <2>1, BoundsAssumption
      <3>2. QED
        BY <1>2, <2>2, <3>1, CounterWithin
    <2>5. RecordInv'
      BY <2>4, RecordUnchanged DEF Watch
    <2>6. QED
      <3>1. watchers' \subseteq Clients
        BY DEF Inv, TypeOK, Watch
      <3>2. QED
        BY <1>2, <2>3, <2>4, <2>5, <3>1 DEF Inv, TypeOK, Watch
  <1>3. QED
    BY <1>1, <1>2 DEF Watch

(* A rebuilt session has the log for its record, the log's tail for its    *)
(* ring and the last line's number for its counter: but the counter would  *)
(* start over if no line of a log that has some were taken.                *)
LEMMA RebuildInv ==
  ASSUME Inv, NEW k \in Nat, k <= RingCapacity, k = 0 => log = <<>>, Rebuild(k)
  PROVE  /\ RecordInv'
         /\ seq' \in 0..MaxSeq
         /\ ring' \in Seq(1..MaxSeq) /\ Len(ring') <= RingCapacity
         /\ emitted' \subseteq 1..MaxSeq
         /\ recoveries' \in 1..MaxRecoveries
  <1>1. /\ log \in Seq(1..MaxSeq) /\ Increasing(log) /\ log' = log
        /\ Len(log) \in Nat /\ DOMAIN log = 1..Len(log)
        /\ \A i \in 1..Len(log) : log[i] \in 1..MaxSeq
    BY LenProperties, ElementOfSeq DEF Inv, TypeOK, RecordInv, Rebuild
  <1> DEFINE d == Len(log) - Len(ring')
  <1>2. /\ ring' \in Seq(1..MaxSeq)
        /\ Len(ring') = IF Len(log) <= k THEN Len(log) ELSE k
        /\ \A i \in 1..Len(ring') : ring'[i] = log[d + i]
    <2>1. ring' = LastN(log, k) /\ log \in Seq(1..MaxSeq) /\ k \in Nat
      BY <1>1 DEF Rebuild
    <2>2. /\ LastN(log, k) \in Seq(1..MaxSeq)
          /\ Len(LastN(log, k)) = IF Len(log) <= k THEN Len(log) ELSE k
          /\ \A i \in 1..Len(LastN(log, k)) :
               LastN(log, k)[i] = log[Len(log) - Len(LastN(log, k)) + i]
      BY <2>1, LastNElements
    <2> QED
      BY <2>1, <2>2
  <1>3. /\ d \in Nat /\ Len(ring') \in Nat /\ Len(ring') <= RingCapacity
        /\ DOMAIN ring' = 1..Len(ring')
        /\ \A i \in 1..Len(ring') : d + i \in 1..Len(log)
        /\ Len(log) > 0 => Len(ring') > 0
    <2>1. Len(log) > 0 => k > 0
      OBVIOUS
    <2> QED
      BY <1>1, <1>2, <2>1, CapacityAssumption, LenProperties
  <1>4. d + Len(ring') = Len(log)
    BY <1>1, <1>3
  <1> HIDE DEF d
  <1>5. Increasing(ring')
    <2> SUFFICES ASSUME NEW i \in 1..Len(ring'), NEW j \in 1..Len(ring'), i < j
                 PROVE  ring'[i] < ring'[j]
      BY <1>3 DEF Increasing
    <2>1. d + i < d + j /\ d + i \in 1..Len(log) /\ d + j \in 1..Len(log)
      BY <1>3
    <2>2. log[d + i] < log[d + j]
      BY <1>1, <2>1 DEF Increasing
    <2>3. QED
      BY <1>2, <2>2
  <1>6. Items(ring') \subseteq emitted'
    <2>1. \A i \in 1..Len(ring') : ring'[i] \in Items(log)
      BY <1>1, <1>2, <1>3 DEF Items
    <2>2. QED
      BY <1>3, <2>1 DEF Items, Rebuild
  <1>7. ASSUME NEW m \in emitted' \ Items(ring'), NEW n \in Items(ring')
        PROVE  m < n
    <2>1. PICK i \in 1..Len(log) : m = log[i]
      BY <1>1 DEF Rebuild, Items
    <2>2. PICK j \in 1..Len(ring') : n = ring'[j]
      BY <1>3 DEF Items
    <2>3. i < d + j
      <3> SUFFICES ASSUME ~(i < d + j) PROVE FALSE
        OBVIOUS
      <3>1. i - d \in 1..Len(ring') /\ d + (i - d) = i
        BY <1>3, <1>4
      <3>2. m = ring'[i - d]
        BY <1>2, <2>1, <3>1
      <3>3. QED
        BY <1>3, <1>7, <3>1, <3>2 DEF Items
    <2>4. d + j \in 1..Len(log)
      BY <1>3
    <2>5. QED
      BY <1>1, <1>2, <2>1, <2>2, <2>3, <2>4 DEF Increasing
  <1>8. emitted' # {} => ring' # <<>>
    <2> SUFFICES ASSUME emitted' # {} PROVE ring' # <<>>
      OBVIOUS
    <2>1. PICK m : m \in Items(log)
      BY DEF Rebuild
    <2>2. Len(log) > 0
      BY <1>1, <2>1 DEF Items
    <2>3. QED
      BY <1>3, <2>2
  <1>9. seq' \in 0..MaxSeq /\ emitted' \subseteq 1..seq'
    <2>1. CASE ring' = <<>>
      <3>1. emitted' = {} /\ seq' = 0
        BY <1>8, <2>1 DEF Rebuild, LastNumber
      <3>2. QED
        BY <3>1, BoundsAssumption
    <2>2. CASE ring' # <<>>
      <3>1. Len(ring') > 0 /\ Len(log) > 0
        BY <1>2, <1>3, <1>4, <2>2, EmptySeq
      <3>2. seq' = log[Len(log)]
        <4>1. seq' = LastNumber(ring')
          BY DEF Rebuild
        <4> QED
          BY <1>2, <1>3, <1>4, <2>2, <3>1, <4>1 DEF LastNumber
      <3>3. \A i \in 1..Len(log) : log[i] <= seq'
        BY <1>1, <3>1, <3>2 DEF Increasing
      <3>4. QED
        BY <1>1, <3>1, <3>2, <3>3, BoundsAssumption DEF Rebuild, Items
    <2>3. QED
      BY <2>1, <2>2
  <1>10. RecordInv'
    BY <1>1, <1>5, <1>6, <1>7, <1>8, <1>9 DEF RecordInv, NewestRing, Rebuild
  <1>11. emitted' \subseteq 1..MaxSeq
    BY <1>9, BoundsAssumption
  <1>12. recoveries' \in 1..MaxRecoveries
    BY BoundsAssumption DEF Inv, TypeOK, Rebuild
  <1>13. QED
    BY <1>2, <1>3, <1>9, <1>10, <1>11, <1>12

(* What a queue announces as gone are numbers.                             *)
LEMMA AnnouncedTyped ==
  ASSUME NEW q \in Seq(Frame)
  PROVE  Announced(q) \in SUBSET Nat
  <1>1. \A f \in Items(q) : f \in Frame
    BY LenProperties, ElementOfSeq DEF Items
  <1>2. QED
    BY <1>1 DEF Announced, Frame

(* The actions of connections and clients, which leave the record alone.   *)
LEMMA ClientInv ==
  ASSUME Inv, NEW c \in Clients,
         Detach(c) \/ Connect(c) \/ Deliver(c) \/ Break(c) \/ Unserve(c)
  PROVE  Inv'
  <1>1. UNCHANGED <<seq, ring, log, emitted, recoveries>>
    BY DEF Detach, Connect, Deliver, Break, Unserve, session
  <1>2. RecordInv'
    BY <1>1, RecordUnchanged, BoundsAssumption DEF Inv, TypeOK
  <1>3. TypeOK'
    <2>1. CASE Detach(c)
      BY <1>1, <2>1 DEF Inv, TypeOK, Detach, client
    <2>2. CASE Connect(c)
      BY <1>1, <2>2 DEF Inv, TypeOK, Connect, session
    <2>3. CASE Deliver(c)
      <3>1. /\ chan[c] \in Seq(Frame) /\ Head(chan[c]) \in Frame
            /\ Tail(chan[c]) \in Seq(Frame)
        BY <2>3, HeadTailProperties DEF Inv, TypeOK, Deliver
      <3>2. lastSeq' \in [Clients -> 0..MaxSeq]
        BY <2>3, <3>1, BoundsAssumption DEF Inv, TypeOK, Deliver, Frame
      <3>3. told' \in [Clients -> SUBSET Nat]
        BY <2>3, <3>1 DEF Inv, TypeOK, Deliver, Frame
      <3>4. chan' \in [Clients -> Seq(Frame)]
        BY <2>3, <3>1 DEF Inv, TypeOK, Deliver
      <3>5. QED
        BY <1>1, <2>3, <3>2, <3>3, <3>4 DEF Inv, TypeOK, Deliver, session
    <2>4. CASE Break(c)
      <3>1. Announced(chan[c]) \in SUBSET Nat
        BY AnnouncedTyped DEF Inv, TypeOK
      <3>2. lostNotice' \in [Clients -> SUBSET Nat]
        BY <2>4, <3>1 DEF Inv, TypeOK, Break
      <3>3. chan' \in [Clients -> Seq(Frame)]
        BY <2>4 DEF Inv, TypeOK, Break
      <3>4. QED
        BY <1>1, <2>4, <3>2, <3>3 DEF Inv, TypeOK, Break, session
    <2>5. CASE Unserve(c)
      BY <1>1, <2>5 DEF Inv, TypeOK, Unserve
    <2>6. QED
      BY <2>1, <2>2, <2>3, <2>4, <2>5
  <1>4. QED
    BY <1>2, <1>3 DEF Inv

LEMMA RecoveryInv ==
  ASSUME Inv, NEW k \in Nat, k <= RingCapacity, k = 0 => log = <<>>, Reopen(k) \/ Restart(k)
  PROVE  Inv'
  <1>1. /\ RecordInv'
        /\ seq' \in 0..MaxSeq
        /\ ring' \in Seq(1..MaxSeq) /\ Len(ring') <= RingCapacity
        /\ emitted' \subseteq 1..MaxSeq
        /\ recoveries' \in 0..MaxRecoveries
    BY RebuildInv, BoundsAssumption DEF Reopen, Restart
  <1>2. log' \in Seq(1..MaxSeq) /\ owner' \in Clients \cup {NoOwner} /\ watchers' \subseteq Clients
    BY DEF Inv, TypeOK, Reopen, Restart, Rebuild
  <1>3. /\ conn' \in [Clients -> {"up", "closing", "down"}]
        /\ chan' \in [Clients -> Seq(Frame)]
        /\ lastSeq' \in [Clients -> 0..MaxSeq]
        /\ told' \in [Clients -> SUBSET Nat]
        /\ lostNotice' \in [Clients -> SUBSET Nat]
    <2>1. CASE Reopen(k)
      BY <2>1 DEF Inv, TypeOK, Reopen, client
    <2>2. CASE Restart(k)
      <3>1. \A c \in Clients : lostNotice[c] \cup Announced(chan[c]) \in SUBSET Nat
        BY AnnouncedTyped DEF Inv, TypeOK
      <3>2. QED
        BY <2>2, <3>1 DEF Inv, TypeOK, Restart
    <2>3. QED
      BY <2>1, <2>2
  <1>4. forgot' \in BOOLEAN
    <2>1. forgot' = (forgot \/ (k = 0 /\ log # <<>>))
      BY DEF Reopen, Restart, Rebuild
    <2> QED
      BY <2>1
  <1>5. QED
    BY <1>1, <1>2, <1>3, <1>4 DEF Inv, TypeOK

LEMMA NextInv ==
  ASSUME Inv, ~forgot', [Next]_vars
  PROVE  Inv'
  <1>1. CASE OnEvent
    BY <1>1, OnEventInv
  <1>2. ASSUME NEW c \in Clients, NEW seen \in {0, lastSeq[c]}, Attach(c, seen)
        PROVE  Inv'
    BY <1>2, AttachInv
  <1>3. ASSUME NEW c \in Clients, NEW seen \in {0, lastSeq[c], LiveOnly}, Watch(c, seen)
        PROVE  Inv'
    BY <1>3, WatchInv
  <1>4. ASSUME NEW c \in Clients,
               Detach(c) \/ Connect(c) \/ Deliver(c) \/ Break(c) \/ Unserve(c)
        PROVE  Inv'
    BY <1>4, ClientInv
  <1>5. ASSUME NEW k \in 0..RingCapacity, Reopen(k) \/ Restart(k)
        PROVE  Inv'
    <2>1. k \in Nat /\ k <= RingCapacity
      BY CapacityAssumption
    <2>2. k = 0 => log = <<>>
      <3>1. forgot' = (forgot \/ (k = 0 /\ log # <<>>))
        BY <1>5 DEF Reopen, Restart, Rebuild
      <3> QED
        BY <3>1
    <2>3. QED
      BY <1>5, <2>1, <2>2, RecoveryInv
  <1>6. CASE UNCHANGED vars
    <2>1. TypeOK'
      BY <1>6 DEF Inv, TypeOK, vars, session, client
    <2>2. RecordInv'
      BY <1>6 DEF Inv, RecordInv, NewestRing, vars, session
    <2>3. QED
      BY <2>1, <2>2 DEF Inv
  <1>7. QED
    BY <1>1, <1>2, <1>3, <1>4, <1>5, <1>6 DEF Next

(* What was forgotten stays so, and the count of the rebuilds starts with  *)
(* the first.                                                              *)
LEMMA ForgotStays ==
  ASSUME [Next]_vars
  PROVE  /\ forgot => forgot'
         /\ \/ recoveries' = recoveries /\ forgot' = forgot
            \/ recoveries' = recoveries + 1
  <1>1. CASE OnEvent \/ UNCHANGED vars
    <2>1. recoveries' = recoveries /\ forgot' = forgot
      BY <1>1 DEF OnEvent, vars, session
    <2> QED
      BY <2>1
  <1>2. ASSUME NEW c \in Clients, NEW seen, Attach(c, seen) \/ Watch(c, seen)
        PROVE  recoveries' = recoveries /\ forgot' = forgot
    BY <1>2 DEF Attach, Watch
  <1>3. ASSUME NEW c \in Clients,
               Detach(c) \/ Connect(c) \/ Deliver(c) \/ Break(c) \/ Unserve(c)
        PROVE  recoveries' = recoveries /\ forgot' = forgot
    BY <1>3 DEF Detach, Connect, Deliver, Break, Unserve, session
  <1>4. ASSUME NEW k, Reopen(k) \/ Restart(k)
        PROVE  recoveries' = recoveries + 1 /\ (forgot => forgot')
    <2>1. recoveries' = recoveries + 1 /\ forgot' = (forgot \/ (k = 0 /\ log # <<>>))
      BY <1>4 DEF Reopen, Restart, Rebuild
    <2> QED
      BY <2>1
  <1>5. CASE recoveries' = recoveries /\ forgot' = forgot
    BY <1>5
  <1> QED
    BY <1>1, <1>2, <1>3, <1>4, <1>5 DEF Next

(***************************************************************************)
(* The theorems.  A tail read that holds no whole frame of a log that has  *)
(* some is a real case of the code (event_log.py:92-100): the counter then *)
(* starts over at 0.  Each theorem excepts a stream to which it happened.  *)
(***************************************************************************)
THEOREM InvHolds == Spec => []InvUnlessForgot
  <1>1. Init => InvUnlessForgot
    BY InitInv DEF InvUnlessForgot
  <1>2. InvUnlessForgot /\ [Next]_vars => InvUnlessForgot'
    BY NextInv, ForgotStays DEF InvUnlessForgot
  <1>3. QED
    BY <1>1, <1>2, PTL DEF Spec

(* Every variable keeps its type, and the ring stays within its capacity,  *)
(* as long as no rebuild has read no whole frame of a log that has some.   *)
THEOREM TypeCorrect == Spec => [](~forgot => TypeOK)
  <1>1. InvUnlessForgot => (~forgot => TypeOK)
    BY DEF InvUnlessForgot, Inv
  <1>2. QED
    BY <1>1, InvHolds, PTL

(* The ring is always the newest part of the record, through appends that  *)
(* evict and through every rebuild from the log's tail (event_log.py:27-60,*)
(* session.py:569-586), up to one that reads no whole frame of a log that  *)
(* has some.                                                               *)
THEOREM RingNewest == Spec => []RingIsNewest
  <1>1. InvUnlessForgot => RingIsNewest
    BY DEF InvUnlessForgot, Inv, RecordInv, NewestRing, RingIsNewest
  <1>2. QED
    BY <1>1, InvHolds, PTL

(* The log stays in order and behind the counter whatever appends the disk *)
(* refused and however often the session was rebuilt, up to a rebuild that *)
(* reads no whole frame of a log that has some.                            *)
THEOREM LogOrdered == Spec => []LogInOrder
  <1>1. InvUnlessForgot => LogInOrder
    <2> SUFFICES ASSUME Inv PROVE Increasing(log) /\ \A n \in Items(log) : n <= seq
      BY DEF InvUnlessForgot, LogInOrder
    <2>1. seq \in Nat
      BY BoundsAssumption DEF Inv, TypeOK
    <2>2. Increasing(log) /\ Items(log) \subseteq emitted /\ emitted \subseteq 1..seq
      BY DEF Inv, RecordInv
    <2>3. \A n \in 1..seq : n <= seq
      BY <2>1
    <2>4. QED
      BY <2>2, <2>3
  <1>2. QED
    BY <1>1, InvHolds, PTL

(***************************************************************************)
(* No event is left unaccounted for.                                       *)
(*                                                                         *)
(* AccountedFor speaks of the bookmark alone.  It is inductive once the    *)
(* same is said of every frame under way (what it will make the client     *)
(* believe it has seen) and of the end of a live subscriber's queue (where *)
(* the next event goes).                                                   *)
(***************************************************************************)
Known(c) == told[c] \cup lostNotice[c] \cup Announced(chan[c])

(* Of the events in E, those up to the i-th frame's number are in K or     *)
(* among the frames up to it.                                              *)
InQueue(n, q, i) == \E j \in 1..i : q[j] = Event(n)

QueueAccounted(q, K, E) ==
  \A i \in 1..Len(q) : \A n \in E : n <= q[i].seq => n \in K \/ InQueue(n, q, i)

(* Every event in E is in K or in the queue.                               *)
AllAccounted(q, K, E) == \A n \in E : n \in K \/ InQueue(n, q, Len(q))

BookmarkAccounted(c) == \A n \in emitted : n <= lastSeq[c] => n \in Known(c)

ClientAccounted(c) ==
  /\ lastSeq[c] <= seq
  /\ \A i \in 1..Len(chan[c]) : chan[c][i].seq <= seq
  /\ BookmarkAccounted(c)
  /\ QueueAccounted(chan[c], Known(c), emitted)

Subscribed(c) == Up(c) /\ (owner = c \/ c \in watchers)

SubscriberAccounted(c) ==
  /\ Subscribed(c) => AllAccounted(chan[c], Known(c), emitted)
  /\ conn[c] = "down" => owner # c /\ c \notin watchers

AccountInv ==
  recoveries = 0 => \A c \in Clients : ClientAccounted(c) /\ SubscriberAccounted(c)

LEMMA InQueueConcat ==
  ASSUME NEW a \in Seq(Frame), NEW b \in Seq(Frame), NEW n
  PROVE  /\ \A i \in 0..Len(a) : InQueue(n, a, i) => InQueue(n, a \o b, i)
         /\ \A i \in 0..Len(b) : InQueue(n, b, i) => InQueue(n, a \o b, Len(a) + i)
  <1>1. /\ Len(a) \in Nat /\ Len(b) \in Nat
        /\ a \o b \in Seq(Frame) /\ Len(a \o b) = Len(a) + Len(b)
        /\ \A i \in 1..(Len(a) + Len(b)) :
             (a \o b)[i] = IF i <= Len(a) THEN a[i] ELSE b[i - Len(a)]
    BY ConcatProperties, LenProperties
  <1>2. ASSUME NEW i \in 0..Len(a), NEW j \in 1..i, a[j] = Event(n)
        PROVE  InQueue(n, a \o b, i)
    <2>1. j \in 1..(Len(a) + Len(b)) /\ j <= Len(a)
      BY <1>1
    <2>2. (a \o b)[j] = Event(n)
      BY <1>1, <1>2, <2>1
    <2>3. QED
      BY <2>2 DEF InQueue
  <1>3. ASSUME NEW i \in 0..Len(b), NEW j \in 1..i, b[j] = Event(n)
        PROVE  InQueue(n, a \o b, Len(a) + i)
    <2>1. /\ Len(a) + j \in 1..(Len(a) + Len(b)) /\ Len(a) + j \in 1..(Len(a) + i)
          /\ ~(Len(a) + j <= Len(a)) /\ (Len(a) + j) - Len(a) = j
      BY <1>1
    <2>2. (a \o b)[Len(a) + j] = Event(n)
      BY <1>1, <1>3, <2>1
    <2>3. QED
      BY <2>1, <2>2 DEF InQueue
  <1>4. QED
    BY <1>2, <1>3 DEF InQueue

LEMMA InQueueLater ==
  ASSUME NEW q, NEW n, NEW i \in Nat, NEW j \in Nat, i <= j, InQueue(n, q, i)
  PROVE  InQueue(n, q, j)
  BY DEF InQueue

LEMMA ItemsConcat ==
  ASSUME NEW a \in Seq(Frame), NEW b \in Seq(Frame)
  PROVE  Items(a \o b) = Items(a) \cup Items(b)
  <1>1. /\ Len(a) \in Nat /\ Len(b) \in Nat
        /\ DOMAIN a = 1..Len(a) /\ DOMAIN b = 1..Len(b)
        /\ DOMAIN (a \o b) = 1..(Len(a) + Len(b))
        /\ \A i \in 1..(Len(a) + Len(b)) :
             (a \o b)[i] = IF i <= Len(a) THEN a[i] ELSE b[i - Len(a)]
    BY ConcatProperties, LenProperties
  <1>2. ASSUME NEW f \in Items(a \o b) PROVE f \in Items(a) \cup Items(b)
    <2>1. PICK i \in 1..(Len(a) + Len(b)) : f = (a \o b)[i]
      BY <1>1 DEF Items
    <2>2. CASE i <= Len(a)
      BY <1>1, <2>1, <2>2 DEF Items
    <2>3. CASE ~(i <= Len(a))
      <3>1. i - Len(a) \in 1..Len(b) /\ f = b[i - Len(a)]
        BY <1>1, <2>1, <2>3
      <3>2. QED
        BY <1>1, <3>1 DEF Items
    <2>4. QED
      BY <2>2, <2>3
  <1>3. ASSUME NEW f \in Items(a) PROVE f \in Items(a \o b)
    <2>1. PICK i \in 1..Len(a) : f = a[i]
      BY <1>1 DEF Items
    <2>2. i \in 1..(Len(a) + Len(b)) /\ i <= Len(a)
      BY <1>1
    <2>3. QED
      BY <1>1, <2>1, <2>2 DEF Items
  <1>4. ASSUME NEW f \in Items(b) PROVE f \in Items(a \o b)
    <2>1. PICK i \in 1..Len(b) : f = b[i]
      BY <1>1 DEF Items
    <2>2. /\ Len(a) + i \in 1..(Len(a) + Len(b))
          /\ ~(Len(a) + i <= Len(a)) /\ (Len(a) + i) - Len(a) = i
      BY <1>1
    <2>3. (a \o b)[Len(a) + i] = f
      BY <1>1, <2>1, <2>2
    <2>4. QED
      BY <1>1, <2>2, <2>3 DEF Items
  <1>5. QED
    BY <1>2, <1>3, <1>4

LEMMA AnnouncedConcat ==
  ASSUME NEW a \in Seq(Frame), NEW b \in Seq(Frame)
  PROVE  Announced(a \o b) = Announced(a) \cup Announced(b)
  <1>1. Items(a \o b) = Items(a) \cup Items(b)
    BY ItemsConcat
  <1>2. QED
    BY <1>1 DEF Announced

(* Frames sent to a client keep it accounted for when each comes with, or  *)
(* after, everything below its number.                                     *)
LEMMA SendAccounted ==
  ASSUME Inv, NEW c \in Clients, ClientAccounted(c), NEW b \in Seq(Frame),
         chan'[c] = chan[c] \o b, lastSeq'[c] = lastSeq[c],
         seq' \in Nat, seq' >= seq, emitted' \subseteq Nat,
         \A n \in emitted' : n \in emitted \/ n > seq,
         Known(c) \subseteq Known(c)',
         \A i \in 1..Len(b) : b[i].seq <= seq',
         \A i \in 1..Len(b) : \A n \in emitted' : n <= b[i].seq =>
            n \in Known(c)' \/ InQueue(n, b, i) \/ InQueue(n, chan[c], Len(chan[c]))
  PROVE  ClientAccounted(c)'
  <1> DEFINE a == chan[c]
             q == a \o b
  <1>1. /\ a \in Seq(Frame) /\ Len(a) \in Nat /\ Len(b) \in Nat
        /\ Len(q) = Len(a) + Len(b)
        /\ \A i \in 1..(Len(a) + Len(b)) : q[i] = IF i <= Len(a) THEN a[i] ELSE b[i - Len(a)]
    BY ConcatProperties, LenProperties DEF Inv, TypeOK
  <1>2. /\ \A i \in 1..Len(a) : a[i].seq \in Nat
        /\ \A i \in 1..Len(b) : b[i].seq \in Nat
        /\ seq \in Nat /\ lastSeq[c] \in Nat
    <2>1. \A f \in Frame : f.seq \in Nat
      BY BoundsAssumption DEF Frame
    <2>2. /\ \A i \in 1..Len(a) : a[i] \in Frame
          /\ \A i \in 1..Len(b) : b[i] \in Frame
      BY <1>1, ElementOfSeq
    <2>3. seq \in Nat
      BY BoundsAssumption DEF Inv, TypeOK
    <2>4. lastSeq[c] \in Nat
      BY BoundsAssumption DEF Inv, TypeOK
    <2>5. QED
      BY <2>1, <2>2, <2>3, <2>4
  <1>3. /\ lastSeq[c] <= seq
        /\ \A i \in 1..Len(a) : a[i].seq <= seq
        /\ BookmarkAccounted(c)
        /\ QueueAccounted(a, Known(c), emitted)
    BY DEF ClientAccounted
  <1>4. \A i \in 1..Len(q) : \/ i \in 1..Len(a) /\ q[i] = a[i]
                             \/ \E j \in 1..Len(b) : i = Len(a) + j /\ q[i] = b[j]
    <2> SUFFICES ASSUME NEW i \in 1..Len(q), ~(i \in 1..Len(a) /\ q[i] = a[i])
                 PROVE  \E j \in 1..Len(b) : i = Len(a) + j /\ q[i] = b[j]
      OBVIOUS
    <2>1. i \in 1..(Len(a) + Len(b))
      BY <1>1
    <2>2. ~(i <= Len(a))
      BY <1>1, <2>1
    <2>3. i - Len(a) \in 1..Len(b) /\ i = Len(a) + (i - Len(a))
      BY <1>1, <2>1, <2>2
    <2>4. q[i] = b[i - Len(a)]
      BY <1>1, <2>1, <2>2
    <2>5. QED
      BY <2>3, <2>4
  <1> HIDE DEF a, q
  <1>5. lastSeq'[c] <= seq' /\ \A i \in 1..Len(q) : q[i].seq <= seq'
    <2>1. lastSeq'[c] <= seq'
      BY <1>2, <1>3
    <2>2. ASSUME NEW i \in 1..Len(q) PROVE q[i].seq <= seq'
      <3>1. CASE i \in 1..Len(a) /\ q[i] = a[i]
        <4>1. a[i].seq <= seq /\ a[i].seq \in Nat
          BY <1>2, <1>3, <3>1
        <4>2. QED
          BY <1>2, <3>1, <4>1
      <3>2. QED
        BY <1>4, <3>1
    <2>3. QED
      BY <2>1, <2>2
  <1>6. BookmarkAccounted(c)'
    <2> SUFFICES ASSUME NEW n \in emitted', n <= lastSeq'[c] PROVE n \in Known(c)'
      BY DEF BookmarkAccounted
    <2>1. n \in Nat /\ n <= seq
      BY <1>2, <1>3
    <2>2. n \in emitted
      BY <1>2, <2>1
    <2>3. QED
      BY <1>3, <2>2 DEF BookmarkAccounted
  <1>7. ASSUME NEW i \in 1..Len(q), NEW n \in emitted', n <= q[i].seq
        PROVE  n \in Known(c)' \/ InQueue(n, q, i)
    <2>1. CASE i \in 1..Len(a) /\ q[i] = a[i]
      <3>1. n \in emitted
        <4>1. a[i].seq <= seq /\ a[i].seq \in Nat /\ n \in Nat /\ n <= a[i].seq
          BY <1>2, <1>3, <1>7, <2>1
        <4>2. ~(n > seq)
          BY <1>2, <4>1
        <4>3. QED
          BY <4>2
      <3>2. n \in Known(c) \/ InQueue(n, a, i)
        BY <1>3, <1>7, <2>1, <3>1 DEF QueueAccounted
      <3>3. i \in 0..Len(a)
        BY <1>1, <2>1
      <3>4. QED
        BY <1>1, <3>2, <3>3, InQueueConcat DEF q
    <2>2. ASSUME NEW j \in 1..Len(b), i = Len(a) + j, q[i] = b[j]
          PROVE  n \in Known(c)' \/ InQueue(n, q, i)
      <3>1. n \in Known(c)' \/ InQueue(n, b, j) \/ InQueue(n, a, Len(a))
        BY <1>7, <2>2 DEF a
      <3>2. j \in 0..Len(b) /\ Len(a) \in 0..Len(a) /\ i \in Nat /\ Len(a) <= i
        BY <1>1, <2>2
      <3>3. CASE InQueue(n, b, j)
        BY <1>1, <2>2, <3>2, <3>3, InQueueConcat DEF q
      <3>4. CASE InQueue(n, a, Len(a))
        <4>1. InQueue(n, q, Len(a))
          BY <1>1, <3>2, <3>4, InQueueConcat DEF q
        <4>2. QED
          BY <1>1, <3>2, <4>1, InQueueLater
      <3>5. QED
        BY <3>1, <3>3, <3>4
    <2>3. QED
      BY <1>4, <2>1, <2>2
  <1>8. chan'[c] = q
    BY DEF q, a
  <1>9. QueueAccounted(q, Known(c)', emitted')
    BY <1>7 DEF QueueAccounted
  <1>10. QED
    BY <1>5, <1>6, <1>8, <1>9 DEF ClientAccounted

(* The ring's frames after a bookmark, in order, and what a notice says of *)
(* those it no longer has.                                                 *)
LEMMA ReplayAccounts ==
  ASSUME Inv, NEW c \in Clients, NEW seen \in {0, lastSeq[c]},
         BookmarkAccounted(c), NEW K, Known(c) \subseteq K,
         RolledPast(ring, seen) => (seen + 1)..(Head(ring) - 1) \subseteq K
  PROVE  /\ \A n \in emitted : n \in K \/ InQueue(n, Replay(seen), Len(Replay(seen)))
         /\ \A i \in 1..Len(Replay(seen)) :
              /\ Replay(seen)[i].seq <= seq
              /\ \A n \in emitted : n <= Replay(seen)[i].seq =>
                   n \in K \/ InQueue(n, Replay(seen), i)
  <1> DEFINE p == Since(ring, seen)
             q == Replay(seen)
  <1>1. /\ seen \in Nat /\ seq \in Nat /\ ring \in Seq(1..MaxSeq)
        /\ 1..MaxSeq \in SUBSET Nat
    BY BoundsAssumption DEF Inv, TypeOK
  <1>2. /\ Increasing(ring) /\ Items(ring) \subseteq emitted
        /\ \A m \in emitted \ Items(ring) : \A n \in Items(ring) : m < n
        /\ emitted # {} => ring # <<>>
        /\ emitted \subseteq 1..seq
    BY DEF Inv, RecordInv, NewestRing
  <1>3. /\ p \in Seq(1..MaxSeq) /\ Increasing(p)
        /\ \A n \in Items(ring) : n > seen => n \in Items(p)
        /\ Items(p) \subseteq Items(ring)
    BY <1>1, <1>2, SinceElements
  <1>4. Len(q) = Len(p) /\ \A i \in 1..Len(p) : q[i] = Event(p[i])
    BY <1>1, <1>2, ReplayTyped DEF Inv
  <1>5. /\ Len(p) \in Nat /\ DOMAIN p = 1..Len(p)
        /\ \A i \in 1..Len(p) : p[i] \in Nat
    BY <1>1, <1>3, LenProperties, ElementOfSeq
  <1>6. ASSUME NEW n \in emitted, n <= seen PROVE n \in K
    <2>1. seen = lastSeq[c]
      BY <1>1, <1>2, <1>6
    <2>2. QED
      BY <1>6, <2>1 DEF BookmarkAccounted
  <1>7. ASSUME NEW n \in emitted, n > seen, n \notin Items(ring) PROVE n \in K
    <2>1. ring # <<>> /\ Len(ring) > 0 /\ Len(ring) \in Nat /\ 1 \in DOMAIN ring
      BY <1>1, <1>2, LenProperties, EmptySeq
    <2>2. Head(ring) = ring[1] /\ Head(ring) \in Items(ring) /\ Head(ring) \in Nat
      <3>1. Head(ring) = ring[1]
        BY <2>1
      <3>2. ring[1] \in Items(ring)
        BY <2>1 DEF Items
      <3>3. ring[1] \in 1..seq
        BY <1>2, <3>2
      <3>4. QED
        BY <1>1, <3>1, <3>2, <3>3
    <2>3. n < Head(ring) /\ n \in Nat
      BY <1>1, <1>2, <1>7, <2>2
    <2>4. RolledPast(ring, seen) /\ n \in (seen + 1)..(Head(ring) - 1)
      BY <1>1, <1>7, <2>1, <2>2, <2>3 DEF RolledPast
    <2>5. QED
      BY <2>4
  <1> HIDE DEF p, q
  <1>8. ASSUME NEW n \in emitted PROVE n \in K \/ \E j \in 1..Len(p) : n = p[j]
    <2>1. n \in Nat
      BY <1>1, <1>2
    <2>2. CASE n <= seen
      BY <1>6, <2>2
    <2>3. CASE n > seen /\ n \in Items(ring)
      BY <1>3, <1>5, <2>3 DEF Items
    <2>4. CASE n > seen /\ n \notin Items(ring)
      BY <1>7, <2>4
    <2>5. QED
      BY <1>1, <2>1, <2>2, <2>3, <2>4
  <1>9. \A n \in emitted : n \in K \/ InQueue(n, q, Len(q))
    BY <1>4, <1>8 DEF InQueue
  <1>10. ASSUME NEW i \in 1..Len(q)
         PROVE  /\ q[i].seq = p[i] /\ p[i] <= seq
                /\ \A n \in emitted : n <= p[i] => n \in K \/ InQueue(n, q, i)
    <2>1. q[i].seq = p[i]
      <3>1. q[i] = Event(p[i])
        BY <1>4
      <3>2. Event(p[i]).seq = p[i]
        BY DEF Event
      <3>3. QED
        BY <3>1, <3>2
    <2>2. p[i] <= seq
      <3>1. p[i] \in emitted
        BY <1>2, <1>3, <1>4, <1>5 DEF Items
      <3>2. p[i] \in 1..seq
        BY <1>2, <3>1
      <3>3. QED
        BY <1>1, <3>2
    <2>3. ASSUME NEW n \in emitted, n <= p[i], n \notin K
          PROVE  InQueue(n, q, i)
      <3>1. PICK j \in 1..Len(p) : n = p[j]
        BY <1>8, <2>3
      <3>2. ~(i < j)
        <4> SUFFICES ASSUME i < j PROVE FALSE
          OBVIOUS
        <4>1. p[i] < p[j]
          BY <1>3, <1>4, <1>5, <3>1 DEF Increasing
        <4>2. QED
          BY <1>4, <1>5, <2>3, <3>1, <4>1
      <3>3. j \in 1..i /\ q[j] = Event(n)
        BY <1>4, <1>5, <3>1, <3>2
      <3>4. QED
        BY <3>3 DEF InQueue
    <2>4. QED
      BY <2>1, <2>2, <2>3
  <1>11. QED
    BY <1>9, <1>10 DEF q

(* A notice is one frame at most, with the next number, and makes known    *)
(* what the ring rolled past.                                              *)
LEMMA NoticeAnnounces ==
  ASSUME Inv, NEW seen \in Nat, seq + 1 <= MaxSeq,
         NEW N, N = Notice(seen) \/ N = WatchNotice(seen)
  PROVE  /\ N \in Seq(Frame) /\ Len(N) \in {0, 1}
         /\ \A i \in 1..Len(N) : N[i].seq <= seq + Len(N)
         /\ RolledPast(ring, seen) => (seen + 1)..(Head(ring) - 1) \subseteq Announced(N)
  <1>1. N \in Seq(Frame) /\ Len(N) \in {0, 1} /\ seq \in Nat
    <2>1. seq \in Nat
      BY BoundsAssumption DEF Inv, TypeOK
    <2>2. QED
      BY <2>1, NoticeTyped DEF Inv
  <1>2. N = <<>> \/ \E first : N = <<Gap(seq + 1, seen, first)>>
    BY DEF Notice, WatchNotice
  <1>3. \A i \in 1..Len(N) : N[i].seq <= seq + Len(N)
    <2> SUFFICES ASSUME NEW i \in 1..Len(N) PROVE N[i].seq <= seq + Len(N)
      OBVIOUS
    <2>1. i = 1 /\ Len(N) = 1
      <3>1. Len(N) = 1
        BY <1>1
      <3>2. i \in 1..1
        BY <3>1
      <3>3. QED
        BY <3>1, <3>2
    <2>2. PICK first : N = <<Gap(seq + 1, seen, first)>>
      BY <1>2, <2>1
    <2>3. N[1] = Gap(seq + 1, seen, first)
      BY <2>2
    <2>4. N[1].seq = seq + 1
      BY <2>3 DEF Gap
    <2>5. QED
      BY <1>1, <2>1, <2>4
  <1>4. ASSUME RolledPast(ring, seen)
        PROVE  (seen + 1)..(Head(ring) - 1) \subseteq Announced(N)
    <2> DEFINE g == Gap(seq + 1, seen, Head(ring))
    <2>1. N = <<g>>
      BY <1>4 DEF Notice, WatchNotice
    <2>2. Items(N) = {g}
      BY <2>1 DEF Items
    <2>3. g.kind = "replay_gap" /\ g.covers = (seen + 1)..(Head(ring) - 1)
      BY DEF Gap
    <2> HIDE DEF g
    <2>4. QED
      BY <2>2, <2>3 DEF Announced
  <1>5. QED
    BY <1>1, <1>3, <1>4

LEMMA FramesConcat ==
  \A p, q, r \in Seq(Frame) : (p \o q) \o r = p \o (q \o r)
  BY ConcatAssociative

(* Replay and notice together leave nothing out.                           *)
LEMMA CatchUpAccounts ==
  ASSUME Inv, NEW c \in Clients, NEW seen \in {0, lastSeq[c]}, seq + 1 <= MaxSeq,
         ClientAccounted(c),
         NEW N, N = Notice(seen) \/ N = WatchNotice(seen),
         chan' = [chan EXCEPT ![c] = @ \o Replay(seen) \o N],
         seq' = seq + Len(N), UNCHANGED <<emitted, told, lostNotice, lastSeq>>
  PROVE  ClientAccounted(c)' /\ AllAccounted(chan[c], Known(c), emitted)'
  <1> DEFINE r == Replay(seen)
             b == r \o N
             K == Known(c)'
  <1>1. seen \in Nat /\ seq \in Nat /\ Increasing(ring) /\ chan[c] \in Seq(Frame)
        /\ emitted \subseteq 1..seq /\ c \in DOMAIN chan
    BY BoundsAssumption DEF Inv, TypeOK, RecordInv, NewestRing
  <1>2. /\ N \in Seq(Frame) /\ Len(N) \in {0, 1}
        /\ \A i \in 1..Len(N) : N[i].seq <= seq + Len(N)
        /\ RolledPast(ring, seen) => (seen + 1)..(Head(ring) - 1) \subseteq Announced(N)
    BY <1>1, NoticeAnnounces
  <1>3. r \in Seq(Frame)
    BY <1>1, ReplayTyped DEF Inv
  <1>4. /\ b \in Seq(Frame) /\ Len(r) \in Nat /\ Len(b) = Len(r) + Len(N)
        /\ \A i \in 1..(Len(r) + Len(N)) : b[i] = IF i <= Len(r) THEN r[i] ELSE N[i - Len(r)]
    BY <1>2, <1>3, ConcatProperties, LenProperties
  <1>5. chan'[c] = chan[c] \o b
    <2>1. chan'[c] = chan[c] \o r \o N
      BY <1>1
    <2>2. (chan[c] \o r) \o N = chan[c] \o (r \o N)
      BY <1>1, <1>2, <1>3, FramesConcat
    <2>3. QED
      BY <2>1, <2>2
  <1>6. Known(c) \subseteq K /\ Announced(N) \subseteq K
    <2>1. Announced(b) = Announced(r) \cup Announced(N)
      BY <1>2, <1>3, AnnouncedConcat
    <2>2. Announced(chan'[c]) = Announced(chan[c]) \cup Announced(b)
      BY <1>1, <1>4, <1>5, AnnouncedConcat
    <2>3. QED
      BY <2>1, <2>2 DEF Known
  <1> HIDE DEF K, r, b
  <1>7. /\ \A n \in emitted : n \in K \/ InQueue(n, r, Len(r))
        /\ \A i \in 1..Len(r) :
              /\ r[i].seq <= seq
              /\ \A n \in emitted : n <= r[i].seq => n \in K \/ InQueue(n, r, i)
    BY <1>2, <1>6, ReplayAccounts DEF r, ClientAccounted
  <1>8. \A i \in 1..Len(b) : \/ i \in 1..Len(r) /\ b[i] = r[i]
                             \/ i = Len(r) + 1 /\ Len(N) = 1 /\ b[i] = N[1]
    <2> SUFFICES ASSUME NEW i \in 1..Len(b), ~(i <= Len(r))
                 PROVE  i = Len(r) + 1 /\ Len(N) = 1 /\ b[i] = N[1]
      BY <1>4
    <2>1. i = Len(r) + 1 /\ Len(N) = 1 /\ i - Len(r) = 1
      BY <1>2, <1>4
    <2>2. QED
      BY <1>4, <2>1
  <1>9. \A n \in emitted : \A i \in 1..Len(b) : i >= Len(r) => n \in K \/ InQueue(n, b, i)
    <2> SUFFICES ASSUME NEW n \in emitted, NEW i \in 1..Len(b), i >= Len(r), n \notin K
                 PROVE  InQueue(n, b, i)
      OBVIOUS
    <2>1. Len(r) \in 0..Len(r) /\ i \in Nat
      BY <1>4
    <2>2. InQueue(n, b, Len(r))
      BY <1>2, <1>3, <1>7, <2>1, InQueueConcat DEF b
    <2>3. QED
      BY <1>4, <2>1, <2>2, InQueueLater
  <1>10. ASSUME NEW i \in 1..Len(b)
         PROVE  /\ b[i].seq <= seq'
                /\ \A n \in emitted : n <= b[i].seq => n \in K \/ InQueue(n, b, i)
    <2>1. CASE i \in 1..Len(r) /\ b[i] = r[i]
      <3>1. r[i].seq <= seq /\ r[i].seq \in Nat
        <4>1. r[i] \in Frame
          BY <1>3, <1>4, <2>1, ElementOfSeq
        <4>2. QED
          BY <1>7, <2>1, <4>1, BoundsAssumption DEF Frame
      <3>2. b[i].seq <= seq'
        BY <1>1, <1>2, <2>1, <3>1
      <3>3. i \in 0..Len(r)
        BY <2>1, <1>4
      <3>4. QED
        BY <1>2, <1>3, <1>7, <2>1, <3>2, <3>3, InQueueConcat DEF b
    <2>2. CASE i = Len(r) + 1 /\ Len(N) = 1 /\ b[i] = N[1]
      <3>1. b[i].seq <= seq'
        BY <1>2, <2>2
      <3>2. i >= Len(r)
        BY <1>4, <2>2
      <3>3. QED
        BY <1>9, <3>1, <3>2
    <2>3. QED
      BY <1>8, <2>1, <2>2
  <1>11. ClientAccounted(c)'
    <2>1. seq' \in Nat /\ seq' >= seq /\ emitted' \subseteq Nat
      BY <1>1, <1>2
    <2>2. \A i \in 1..Len(b) : \A n \in emitted' : n <= b[i].seq =>
             n \in K \/ InQueue(n, b, i) \/ InQueue(n, chan[c], Len(chan[c]))
      BY <1>10
    <2>3. QED
      BY <1>4, <1>5, <1>6, <1>10, <2>1, <2>2, SendAccounted DEF K
  <1>12. ASSUME NEW n \in emitted, n \notin K
         PROVE  InQueue(n, chan'[c], Len(chan'[c]))
    <2>1. InQueue(n, r, Len(r))
      BY <1>7, <1>12
    <2>2. Len(r) \in 0..Len(r) /\ Len(b) \in 0..Len(b) /\ Len(r) <= Len(b)
      BY <1>2, <1>4
    <2>3. InQueue(n, b, Len(r))
      BY <1>2, <1>3, <2>1, <2>2, InQueueConcat DEF b
    <2>4. InQueue(n, b, Len(b))
      BY <1>4, <2>2, <2>3, InQueueLater
    <2>5. InQueue(n, chan[c] \o b, Len(chan[c]) + Len(b))
      BY <1>1, <1>4, <2>2, <2>4, InQueueConcat
    <2>6. Len(chan'[c]) = Len(chan[c]) + Len(b)
      BY <1>1, <1>4, <1>5, ConcatProperties
    <2>7. QED
      BY <1>5, <2>5, <2>6
  <1>13. QED
    BY <1>11, <1>12 DEF AllAccounted, K

(* A client whose queue, bookmark and knowledge stay is accounted for as   *)
(* before, however far the counter moves.                                  *)
LEMMA SameAccounted ==
  ASSUME Inv, NEW d \in Clients, ClientAccounted(d),
         chan'[d] = chan[d], lastSeq'[d] = lastSeq[d], told'[d] = told[d],
         lostNotice'[d] = lostNotice[d], emitted' = emitted, seq' \in Nat, seq' >= seq
  PROVE  /\ ClientAccounted(d)'
         /\ AllAccounted(chan[d], Known(d), emitted) => AllAccounted(chan[d], Known(d), emitted)'
  <1>1. Known(d)' = Known(d)
    BY DEF Known
  <1>2. /\ seq \in Nat /\ lastSeq[d] \in Nat
        /\ \A i \in 1..Len(chan[d]) : chan[d][i].seq \in Nat
    <2>1. \A f \in Frame : f.seq \in Nat
      BY BoundsAssumption DEF Frame
    <2>2. chan[d] \in Seq(Frame) /\ seq \in Nat
      BY BoundsAssumption DEF Inv, TypeOK
    <2>3. \A i \in 1..Len(chan[d]) : chan[d][i] \in Frame
      BY <2>2, LenProperties, ElementOfSeq
    <2>4. lastSeq[d] \in Nat
      BY BoundsAssumption DEF Inv, TypeOK
    <2>5. QED
      BY <2>1, <2>2, <2>3, <2>4
  <1>3. lastSeq'[d] <= seq'
    BY <1>2 DEF ClientAccounted
  <1>4. \A i \in 1..Len(chan[d]) : chan[d][i].seq <= seq'
    <2> SUFFICES ASSUME NEW i \in 1..Len(chan[d]) PROVE chan[d][i].seq <= seq'
      OBVIOUS
    <2>1. chan[d][i].seq <= seq /\ chan[d][i].seq \in Nat
      BY <1>2 DEF ClientAccounted
    <2>2. QED
      BY <1>2, <2>1
  <1>5. BookmarkAccounted(d)' /\ QueueAccounted(chan[d], Known(d), emitted)'
    BY <1>1 DEF ClientAccounted, BookmarkAccounted, QueueAccounted, InQueue
  <1>6. AllAccounted(chan[d], Known(d), emitted) => AllAccounted(chan[d], Known(d), emitted)'
    BY <1>1 DEF AllAccounted, InQueue
  <1>7. QED
    BY <1>3, <1>4, <1>5, <1>6 DEF ClientAccounted

(* The copies of an event are that event, and there is one at least if the *)
(* client follows the session.                                             *)
LEMMA CopiesElements ==
  ASSUME NEW c \in Clients, NEW n \in 1..MaxSeq
  PROVE  /\ \A i \in 1..Len(Copies(c, n)) : Copies(c, n)[i] = Event(n)
         /\ Copies(c, n) # <<>> <=> Subscribed(c)
  <1> DEFINE e == Event(n)
             one == <<e>>
  <1>1. Copies(c, n) =
          IF ~Up(c) THEN <<>>
          ELSE (IF owner = c THEN one ELSE <<>>) \o (IF c \in watchers THEN one ELSE <<>>)
    BY DEF Copies
  <1> HIDE DEF e
  <1>2. CASE ~Subscribed(c)
    <2>1. Copies(c, n) = <<>>
      BY <1>1, <1>2 DEF Subscribed
    <2>2. QED
      BY <1>2, <2>1
  <1>3. CASE Up(c) /\ owner = c /\ c \in watchers
    BY <1>1, <1>3 DEF Subscribed, e
  <1>4. CASE Up(c) /\ owner = c /\ c \notin watchers
    BY <1>1, <1>4 DEF Subscribed, e
  <1>5. CASE Up(c) /\ owner # c /\ c \in watchers
    BY <1>1, <1>5 DEF Subscribed, e
  <1>6. QED
    BY <1>2, <1>3, <1>4, <1>5 DEF Subscribed

(* A new event reaches the end of every subscriber's queue.                *)
LEMMA OnEventAccount ==
  ASSUME Inv, OnEvent, NEW d \in Clients, ClientAccounted(d), SubscriberAccounted(d)
  PROVE  ClientAccounted(d)' /\ SubscriberAccounted(d)'
  <1> DEFINE n == seq + 1
             b == Copies(d, n)
  <1>1. /\ seq \in Nat /\ n \in 1..MaxSeq /\ emitted \subseteq 1..seq
        /\ chan[d] \in Seq(Frame)
    BY BoundsAssumption DEF Inv, TypeOK, RecordInv, OnEvent
  <1>2. /\ chan'[d] = chan[d] \o b /\ seq' = n /\ emitted' = emitted \cup {n}
        /\ UNCHANGED <<owner, watchers, conn, lastSeq, told, lostNotice>>
    BY DEF OnEvent
  <1>3. b \in Seq(Frame)
    BY <1>1, CopiesTyped
  <1>5. (b # <<>>) <=> Subscribed(d)
    BY <1>1, CopiesElements
  <1>6. Len(b) \in Nat /\ \A i \in 1..Len(b) : b[i] = Event(n) /\ b[i].seq = n
    <2>1. Len(b) \in Nat /\ \A i \in 1..Len(b) : b[i] = Event(n)
      BY <1>1, <1>3, CopiesElements, LenProperties
    <2>2. Event(n).seq = n
      BY DEF Event
    <2> HIDE DEF b, n
    <2>3. QED
      BY <2>1, <2>2
  <1> HIDE DEF b
  <1>7. Known(d)' = Known(d)
    <2>1. \A f \in Items(b) : f = Event(n)
      BY <1>3, <1>6, LenProperties DEF Items
    <2>2. Announced(b) = {}
      BY <2>1 DEF Announced, Event
    <2>3. QED
      BY <1>1, <1>2, <1>3, <2>2, AnnouncedConcat DEF Known
  <1> HIDE DEF n
  <1>8. ASSUME Subscribed(d), NEW m \in emitted
        PROVE  m \in Known(d) \/ InQueue(m, chan[d], Len(chan[d]))
    BY <1>8 DEF SubscriberAccounted, AllAccounted
  <1>9. ASSUME NEW i \in 1..Len(b)
        PROVE  Subscribed(d) /\ InQueue(n, b, i)
    <2>1. b # <<>>
      BY <1>6, <1>9
    <2>2. Subscribed(d)
      BY <1>5, <2>1
    <2>3. 1 \in 1..i /\ 1 \in 1..Len(b)
      BY <1>6
    <2>4. QED
      BY <1>6, <2>2, <2>3 DEF InQueue
  <1>10. ClientAccounted(d)'
    <2>1. /\ seq' \in Nat /\ seq' >= seq /\ emitted' \subseteq Nat
          /\ \A m \in emitted' : m \in emitted \/ m > seq
      BY <1>1, <1>2 DEF n
    <2>2. \A i \in 1..Len(b) : b[i].seq <= seq'
      BY <1>1, <1>2, <1>6
    <2>3. \A i \in 1..Len(b) : \A m \in emitted' : m <= b[i].seq =>
             m \in Known(d)' \/ InQueue(m, b, i) \/ InQueue(m, chan[d], Len(chan[d]))
      BY <1>2, <1>7, <1>8, <1>9
    <2>4. Known(d) \subseteq Known(d)'
      BY <1>7
    <2>5. QED
      BY <1>2, <1>3, <2>1, <2>2, <2>3, <2>4, SendAccounted
  <1>11. ASSUME Subscribed(d)
         PROVE  AllAccounted(chan'[d], Known(d)', emitted')
    <2>1. b # <<>> /\ Len(b) \in 1..Len(b)
      BY <1>3, <1>5, <1>6, <1>11, EmptySeq
    <2>2. Len(chan[d]) \in Nat /\ Len(chan'[d]) = Len(chan[d]) + Len(b)
      BY <1>1, <1>2, <1>3, ConcatProperties, LenProperties
    <2>3. Len(chan[d]) \in 0..Len(chan[d]) /\ Len(b) \in 0..Len(b)
      BY <1>6, <2>2
    <2>4. InQueue(n, chan'[d], Len(chan'[d]))
      <3>1. InQueue(n, b, Len(b))
        BY <1>9, <2>1
      <3>2. QED
        BY <1>1, <1>2, <1>3, <2>2, <2>3, <3>1, InQueueConcat
    <2>5. ASSUME NEW m \in emitted, m \notin Known(d)
          PROVE  InQueue(m, chan'[d], Len(chan'[d]))
      <3>1. InQueue(m, chan[d], Len(chan[d]))
        BY <1>8, <1>11, <2>5
      <3>2. InQueue(m, chan'[d], Len(chan[d]))
        BY <1>1, <1>2, <1>3, <2>3, <3>1, InQueueConcat
      <3>3. Len(chan'[d]) \in Nat /\ Len(chan[d]) <= Len(chan'[d])
        BY <1>6, <2>2
      <3>4. QED
        BY <2>2, <3>2, <3>3, InQueueLater
    <2>6. QED
      BY <1>2, <1>7, <2>4, <2>5 DEF AllAccounted
  <1>12. SubscriberAccounted(d)'
    BY <1>2, <1>11 DEF SubscriberAccounted, Subscribed, Up
  <1>13. QED
    BY <1>10, <1>12

AccountOf(d) == ClientAccounted(d) /\ SubscriberAccounted(d)

LEMMA AttachAccount ==
  ASSUME Inv, NEW c \in Clients, NEW seen \in {0, lastSeq[c]}, Attach(c, seen),
         NEW d \in Clients, AccountOf(d)
  PROVE  AccountOf(d)'
  <1>1. /\ seq + 1 <= MaxSeq /\ owner' = c /\ seq' = seq + Len(Notice(seen))
        /\ chan' = [chan EXCEPT ![c] = @ \o Replay(seen) \o Notice(seen)]
        /\ UNCHANGED <<watchers, emitted, conn, lastSeq, told, lostNotice>>
        /\ Up(c)
    BY DEF Attach
  <1>2. CASE d = c
    <2>1. ClientAccounted(c)' /\ AllAccounted(chan[c], Known(c), emitted)'
      BY <1>1, <1>2, CatchUpAccounts DEF AccountOf
    <2>2. conn'[c] # "down"
      BY <1>1 DEF Up
    <2>3. QED
      BY <1>2, <2>1, <2>2 DEF AccountOf, SubscriberAccounted
  <1>3. CASE d # c
    <2>1. seq' \in Nat /\ seq' >= seq
      <3>1. seq \in Nat /\ seen \in Nat
        BY BoundsAssumption DEF Inv, TypeOK
      <3>2. Len(Notice(seen)) \in {0, 1}
        BY <1>1, <3>1, NoticeAnnounces
      <3>3. QED
        BY <1>1, <3>1, <3>2
    <2>2. chan'[d] = chan[d]
      BY <1>1, <1>3 DEF Inv, TypeOK
    <2>3. ClientAccounted(d)' /\ (AllAccounted(chan[d], Known(d), emitted)
                                     => AllAccounted(chan[d], Known(d), emitted)')
      BY <1>1, <2>1, <2>2, SameAccounted DEF AccountOf
    <2>4. QED
      BY <1>1, <1>3, <2>3 DEF AccountOf, SubscriberAccounted, Subscribed, Up
  <1>4. QED
    BY <1>2, <1>3

LEMMA WatchAccount ==
  ASSUME Inv, NEW c \in Clients, NEW seen \in {0, lastSeq[c], LiveOnly}, Watch(c, seen),
         NEW d \in Clients, AccountOf(d)
  PROVE  AccountOf(d)'
  <1>1. /\ watchers' = watchers \cup {c} /\ Up(c)
        /\ UNCHANGED <<owner, emitted, conn, lastSeq, lostNotice>>
    BY DEF Watch
  <1>2. seq \in Nat /\ emitted \subseteq 1..seq
    BY BoundsAssumption DEF Inv, TypeOK, RecordInv
  <1>3. conn'[c] # "down"
    BY <1>1 DEF Up
  <1>4. CASE /\ seen = LiveOnly /\ UNCHANGED <<seq, chan>>
             /\ told' = [told EXCEPT ![c] = @ \cup 1..seq]
    <2>1. CASE d = c
      <3>1. told'[c] = told[c] \cup 1..seq
        BY <1>4 DEF Inv, TypeOK
      <3>2. emitted' \subseteq Known(c)'
        BY <1>1, <1>2, <3>1 DEF Known
      <3>3. ClientAccounted(c)'
        BY <1>1, <1>4, <2>1, <3>2
           DEF AccountOf, ClientAccounted, BookmarkAccounted, QueueAccounted
      <3>4. AllAccounted(chan[c], Known(c), emitted)'
        BY <3>2 DEF AllAccounted
      <3>5. QED
        BY <1>3, <2>1, <3>3, <3>4 DEF AccountOf, SubscriberAccounted
    <2>2. CASE d # c
      <3>1. told'[d] = told[d]
        BY <1>4, <2>2 DEF Inv, TypeOK
      <3>2. seq' \in Nat /\ seq' >= seq
        BY <1>2, <1>4
      <3>3. ClientAccounted(d)' /\ (AllAccounted(chan[d], Known(d), emitted)
                                       => AllAccounted(chan[d], Known(d), emitted)')
        BY <1>1, <1>4, <3>1, <3>2, SameAccounted DEF AccountOf
      <3>4. QED
        BY <1>1, <2>2, <3>3 DEF AccountOf, SubscriberAccounted, Subscribed, Up
    <2>3. QED
      BY <2>1, <2>2
  <1>5. CASE /\ seen # LiveOnly /\ seq + 1 <= MaxSeq
             /\ seq' = seq + Len(WatchNotice(seen))
             /\ chan' = [chan EXCEPT ![c] = @ \o Replay(seen) \o WatchNotice(seen)]
             /\ UNCHANGED told
    <2>1. CASE d = c
      <3>1. ClientAccounted(c)' /\ AllAccounted(chan[c], Known(c), emitted)'
        BY <1>1, <1>5, <2>1, CatchUpAccounts DEF AccountOf
      <3>2. QED
        BY <1>3, <2>1, <3>1 DEF AccountOf, SubscriberAccounted
    <2>2. CASE d # c
      <3>1. seq' \in Nat /\ seq' >= seq
        <4>1. seen \in Nat
          BY <1>5, BoundsAssumption DEF Inv, TypeOK
        <4>2. Len(WatchNotice(seen)) \in {0, 1}
          BY <1>5, <4>1, NoticeAnnounces
        <4>3. QED
          BY <1>2, <1>5, <4>2
      <3>2. chan'[d] = chan[d]
        BY <1>5, <2>2 DEF Inv, TypeOK
      <3>3. ClientAccounted(d)' /\ (AllAccounted(chan[d], Known(d), emitted)
                                       => AllAccounted(chan[d], Known(d), emitted)')
        BY <1>1, <1>5, <3>1, <3>2, SameAccounted DEF AccountOf
      <3>4. QED
        BY <1>1, <2>2, <3>3 DEF AccountOf, SubscriberAccounted, Subscribed, Up
    <2>3. QED
      BY <2>1, <2>2
  <1>6. QED
    BY <1>4, <1>5 DEF Watch

(* The client takes a frame: what the frame's number makes it believe it   *)
(* has seen was accounted for at the head of the queue.                    *)
LEMMA DeliverAccount ==
  ASSUME Inv, NEW c \in Clients, Deliver(c), NEW d \in Clients, AccountOf(d)
  PROVE  AccountOf(d)'
  <1> DEFINE q == chan[c]
             f == Head(q)
  <1>1. /\ q \in Seq(Frame) /\ q # <<>> /\ Len(q) \in Nat /\ Len(q) > 0
        /\ f = q[1] /\ Tail(q) \in Seq(Frame) /\ Len(Tail(q)) = Len(q) - 1
        /\ \A i \in 1..(Len(q) - 1) : Tail(q)[i] = q[i + 1]
        /\ DOMAIN q = 1..Len(q) /\ DOMAIN Tail(q) = 1..(Len(q) - 1)
    BY HeadTailProperties, LenProperties, EmptySeq DEF Inv, TypeOK, Deliver
  <1>2. /\ chan' = [chan EXCEPT ![c] = Tail(q)]
        /\ lastSeq' = [lastSeq EXCEPT ![c] = IF f.seq > @ THEN f.seq ELSE @]
        /\ told' = [told EXCEPT ![c] = @ \cup f.covers]
        /\ UNCHANGED <<seq, owner, watchers, emitted, recoveries, conn, lostNotice>>
    BY DEF Deliver, session
  <1>3. CASE d # c
    <2>1. chan'[d] = chan[d] /\ lastSeq'[d] = lastSeq[d] /\ told'[d] = told[d]
      BY <1>2, <1>3 DEF Inv, TypeOK
    <2>2. seq' \in Nat /\ seq' >= seq
      BY <1>2, BoundsAssumption DEF Inv, TypeOK
    <2>3. ClientAccounted(d)' /\ (AllAccounted(chan[d], Known(d), emitted)
                                     => AllAccounted(chan[d], Known(d), emitted)')
      BY <1>2, <2>1, <2>2, SameAccounted DEF AccountOf
    <2>4. QED
      BY <1>2, <2>3 DEF AccountOf, SubscriberAccounted, Subscribed, Up
  <1>4. CASE d = c
    <2>1. /\ chan'[c] = Tail(q) /\ told'[c] = told[c] \cup f.covers
          /\ lastSeq'[c] = IF f.seq > lastSeq[c] THEN f.seq ELSE lastSeq[c]
      BY <1>2 DEF Inv, TypeOK
    <2>2. Announced(q) \subseteq f.covers \cup Announced(Tail(q))
      <3>1. ASSUME NEW g \in Items(q) PROVE g = f \/ g \in Items(Tail(q))
        <4>1. PICK i \in 1..Len(q) : g = q[i]
          BY <1>1 DEF Items
        <4>2. CASE i = 1
          BY <1>1, <4>1, <4>2
        <4>3. CASE i # 1
          <5>1. i - 1 \in 1..(Len(q) - 1) /\ (i - 1) + 1 = i
            BY <1>1, <4>3
          <5>2. g = Tail(q)[i - 1]
            BY <1>1, <4>1, <5>1
          <5>3. QED
            BY <1>1, <5>1, <5>2 DEF Items
        <4>4. QED
          BY <4>2, <4>3
      <3> HIDE DEF f, q
      <3>2. QED
        BY <3>1 DEF Announced
    <2>3. Known(c) \subseteq Known(c)' /\ f.covers \subseteq Known(c)'
      BY <1>2, <2>1, <2>2 DEF Known
    <2> HIDE DEF f, q
    <2>4. ASSUME NEW n, NEW i \in 1..Len(q), InQueue(n, q, i)
          PROVE  n \in Known(c)' \/ (i > 1 /\ InQueue(n, Tail(q), i - 1))
      <3>1. PICK j \in 1..i : q[j] = Event(n)
        BY <2>4 DEF InQueue
      <3>2. CASE j = 1
        <4>1. f.covers = {n}
          BY <1>1, <3>1, <3>2 DEF Event
        <4>2. QED
          BY <2>3, <4>1
      <3>3. CASE j # 1
        <4>1. j - 1 \in 1..(Len(q) - 1) /\ (j - 1) + 1 = j /\ j - 1 \in 1..(i - 1) /\ i > 1
          BY <1>1, <3>3
        <4>2. Tail(q)[j - 1] = Event(n)
          BY <1>1, <3>1, <4>1
        <4>3. QED
          BY <4>1, <4>2 DEF InQueue
      <3>4. QED
        BY <3>2, <3>3
    <2>5. /\ lastSeq[c] <= seq /\ BookmarkAccounted(c)
          /\ \A i \in 1..Len(q) : q[i].seq <= seq
          /\ QueueAccounted(q, Known(c), emitted)
          /\ Subscribed(c) => AllAccounted(q, Known(c), emitted)
          /\ conn[c] = "down" => owner # c /\ c \notin watchers
      BY <1>4 DEF AccountOf, ClientAccounted, SubscriberAccounted, q
    <2>6. 1 \in 1..Len(q) /\ \A i \in 1..(Len(q) - 1) : i + 1 \in 1..Len(q) /\ (i + 1) - 1 = i
      BY <1>1
    <2>7. lastSeq'[c] <= seq' /\ \A i \in 1..Len(Tail(q)) : Tail(q)[i].seq <= seq'
      BY <1>1, <1>2, <2>1, <2>5, <2>6
    <2>8. BookmarkAccounted(c)'
      <3> SUFFICES ASSUME NEW n \in emitted, n <= lastSeq'[c] PROVE n \in Known(c)'
        BY <1>2 DEF BookmarkAccounted
      <3>1. CASE lastSeq'[c] = lastSeq[c]
        BY <2>3, <2>5, <3>1 DEF BookmarkAccounted
      <3>2. CASE lastSeq'[c] = f.seq
        <4>1. n \in Known(c) \/ InQueue(n, q, 1)
          BY <1>1, <2>5, <2>6, <3>2 DEF QueueAccounted
        <4>2. QED
          BY <2>3, <2>4, <2>6, <4>1
      <3>3. QED
        BY <2>1, <3>1, <3>2
    <2>9. QueueAccounted(Tail(q), Known(c)', emitted)
      <3> SUFFICES ASSUME NEW i \in 1..(Len(q) - 1), NEW n \in emitted,
                          n <= Tail(q)[i].seq, n \notin Known(c)'
                   PROVE  InQueue(n, Tail(q), i)
        BY <1>1 DEF QueueAccounted
      <3>1. Tail(q)[i] = q[i + 1]
        BY <1>1
      <3>2. InQueue(n, q, i + 1)
        BY <2>3, <2>5, <2>6, <3>1 DEF QueueAccounted
      <3>3. QED
        BY <2>4, <2>6, <3>2
    <2>10. Subscribed(c) => AllAccounted(Tail(q), Known(c)', emitted)
      <3> SUFFICES ASSUME Subscribed(c), NEW n \in emitted, n \notin Known(c)'
                   PROVE  InQueue(n, Tail(q), Len(Tail(q)))
        BY DEF AllAccounted
      <3>1. InQueue(n, q, Len(q)) /\ Len(q) \in 1..Len(q)
        BY <1>1, <2>3, <2>5 DEF AllAccounted
      <3>2. QED
        BY <1>1, <2>4, <3>1
    <2>11. QED
      BY <1>2, <1>4, <2>1, <2>5, <2>7, <2>8, <2>9, <2>10
         DEF AccountOf, ClientAccounted, SubscriberAccounted, Subscribed, Up
  <1>5. QED
    BY <1>3, <1>4

(* The connection breaks: the notices under way move to lostNotice, and    *)
(* the client is no subscriber any more.                                   *)
LEMMA BreakAccount ==
  ASSUME Inv, NEW c \in Clients, Break(c), NEW d \in Clients, AccountOf(d)
  PROVE  AccountOf(d)'
  <1>1. /\ chan' = [chan EXCEPT ![c] = <<>>] /\ conn' = [conn EXCEPT ![c] = "closing"]
        /\ lostNotice' = [lostNotice EXCEPT ![c] = @ \cup Announced(chan[c])]
        /\ UNCHANGED <<seq, owner, watchers, emitted, lastSeq, told>>
    BY DEF Break, session
  <1>2. CASE d = c
    <2>1. /\ chan'[c] = <<>> /\ Len(chan'[c]) = 0 /\ conn'[c] = "closing"
          /\ lostNotice'[c] = lostNotice[c] \cup Announced(chan[c])
      BY <1>1 DEF Inv, TypeOK
    <2>2. Known(c) \subseteq Known(c)'
      BY <1>1, <2>1 DEF Known
    <2>3. ClientAccounted(c)'
      BY <1>1, <1>2, <2>1, <2>2
         DEF AccountOf, ClientAccounted, BookmarkAccounted, QueueAccounted
    <2>4. SubscriberAccounted(c)'
      BY <2>1 DEF SubscriberAccounted, Subscribed, Up
    <2>5. QED
      BY <1>2, <2>3, <2>4 DEF AccountOf
  <1>3. CASE d # c
    <2>1. chan'[d] = chan[d] /\ lostNotice'[d] = lostNotice[d] /\ conn'[d] = conn[d]
      BY <1>1, <1>3 DEF Inv, TypeOK
    <2>2. seq' \in Nat /\ seq' >= seq
      BY <1>1, BoundsAssumption DEF Inv, TypeOK
    <2>3. ClientAccounted(d)' /\ (AllAccounted(chan[d], Known(d), emitted)
                                     => AllAccounted(chan[d], Known(d), emitted)')
      BY <1>1, <2>1, <2>2, SameAccounted DEF AccountOf
    <2>4. QED
      BY <1>1, <2>1, <2>3 DEF AccountOf, SubscriberAccounted, Subscribed, Up
  <1>4. QED
    BY <1>2, <1>3

(* Steps that only end subscriptions or open a connection that has none.   *)
LEMMA ConnectionAccount ==
  ASSUME Inv, NEW c \in Clients, Detach(c) \/ Connect(c) \/ Unserve(c),
         NEW d \in Clients, AccountOf(d)
  PROVE  AccountOf(d)'
  <1>1. UNCHANGED <<seq, emitted, chan, lastSeq, told, lostNotice>>
    BY DEF Detach, Connect, Unserve, session, client
  <1>2. seq' \in Nat /\ seq' >= seq
    BY <1>1, BoundsAssumption DEF Inv, TypeOK
  <1>3. ClientAccounted(d)' /\ (AllAccounted(chan[d], Known(d), emitted)
                                   => AllAccounted(chan[d], Known(d), emitted)')
    BY <1>1, <1>2, SameAccounted DEF AccountOf
  <1>4. conn \in [Clients -> {"up", "closing", "down"}] /\ NoOwner # d
    BY ClientsAssumption DEF Inv, TypeOK
  <1>5. CASE Detach(c)
    <2>1. conn' = conn /\ (owner' = d => owner = d) /\ watchers' \subseteq watchers
      BY <1>4, <1>5 DEF Detach, client
    <2>2. QED
      BY <1>3, <2>1 DEF AccountOf, SubscriberAccounted, Subscribed, Up
  <1>6. CASE Connect(c)
    <2>1. owner' = owner /\ watchers' = watchers /\ conn[c] = "down"
          /\ conn' = [conn EXCEPT ![c] = "up"]
      BY <1>6 DEF Connect, session
    <2>2. CASE d = c
      <3>1. owner # d /\ d \notin watchers
        BY <2>1, <2>2 DEF AccountOf, SubscriberAccounted
      <3>2. QED
        BY <1>3, <2>1, <3>1 DEF AccountOf, SubscriberAccounted, Subscribed
    <2>3. CASE d # c
      <3>1. conn'[d] = conn[d]
        BY <1>4, <2>1, <2>3
      <3>2. QED
        BY <1>3, <2>1, <3>1 DEF AccountOf, SubscriberAccounted, Subscribed, Up
    <2>4. QED
      BY <2>2, <2>3
  <1>7. CASE Unserve(c)
    <2>1. /\ conn' = [conn EXCEPT ![c] = "down"]
          /\ owner' = IF owner = c THEN NoOwner ELSE owner
          /\ watchers' = watchers \ {c}
      BY <1>7 DEF Unserve
    <2>2. CASE d = c
      <3>1. conn'[d] = "down" /\ owner' # d /\ d \notin watchers'
        BY <1>4, <2>1, <2>2
      <3>2. QED
        BY <1>3, <3>1 DEF AccountOf, SubscriberAccounted, Subscribed
    <2>3. CASE d # c
      <3>1. conn'[d] = conn[d] /\ (owner' = d <=> owner = d) /\ (d \in watchers' <=> d \in watchers)
        BY <1>4, <2>1, <2>3
      <3>2. QED
        BY <1>3, <3>1 DEF AccountOf, SubscriberAccounted, Subscribed, Up
    <2>4. QED
      BY <2>2, <2>3
  <1>8. QED
    BY <1>5, <1>6, <1>7

LEMMA AccountNext ==
  ASSUME Inv, AccountInv, [Next]_vars
  PROVE  AccountInv'
  <1> SUFFICES ASSUME recoveries' = 0, NEW d \in Clients
               PROVE  AccountOf(d)'
    BY DEF AccountInv, AccountOf
  <1>1. ASSUME NEW k, Rebuild(k) PROVE FALSE
    <2>1. recoveries \in Nat
      BY BoundsAssumption DEF Inv, TypeOK
    <2>2. QED
      BY <1>1, <2>1 DEF Rebuild
  <1>2. ASSUME recoveries = 0 PROVE AccountOf(d)
    BY <1>2 DEF AccountInv, AccountOf
  <1>3. CASE OnEvent
    <2>1. AccountOf(d)
      BY <1>2, <1>3 DEF OnEvent
    <2>2. QED
      BY <1>3, <2>1, OnEventAccount DEF AccountOf
  <1>4. ASSUME NEW c \in Clients, NEW seen \in {0, lastSeq[c]}, Attach(c, seen)
        PROVE  AccountOf(d)'
    <2>1. AccountOf(d)
      BY <1>2, <1>4 DEF Attach
    <2>2. QED
      BY <1>4, <2>1, AttachAccount
  <1>5. ASSUME NEW c \in Clients, NEW seen \in {0, lastSeq[c], LiveOnly}, Watch(c, seen)
        PROVE  AccountOf(d)'
    <2>1. AccountOf(d)
      BY <1>2, <1>5 DEF Watch
    <2>2. QED
      BY <1>5, <2>1, WatchAccount
  <1>6. ASSUME NEW c \in Clients, Deliver(c)
        PROVE  AccountOf(d)'
    <2>1. AccountOf(d)
      BY <1>2, <1>6 DEF Deliver, session
    <2>2. QED
      BY <1>6, <2>1, DeliverAccount
  <1>7. ASSUME NEW c \in Clients, Break(c)
        PROVE  AccountOf(d)'
    <2>1. AccountOf(d)
      BY <1>2, <1>7 DEF Break, session
    <2>2. QED
      BY <1>7, <2>1, BreakAccount
  <1>8. ASSUME NEW c \in Clients, Detach(c) \/ Connect(c) \/ Unserve(c)
        PROVE  AccountOf(d)'
    <2>1. AccountOf(d)
      BY <1>2, <1>8 DEF Detach, Connect, Unserve, session
    <2>2. QED
      BY <1>8, <2>1, ConnectionAccount
  <1>9. CASE UNCHANGED vars
    <2>1. AccountOf(d)
      BY <1>2, <1>9 DEF vars, session
    <2>2. QED
      BY <1>9, <2>1 DEF vars, session, client, AccountOf, ClientAccounted,
         SubscriberAccounted, BookmarkAccounted, QueueAccounted, AllAccounted,
         Known, Subscribed, Up, InQueue
  <1>10. QED
    BY <1>1, <1>3, <1>4, <1>5, <1>6, <1>7, <1>8, <1>9 DEF Next, Reopen, Restart

(* As long as it is the first object of the session, nothing was           *)
(* forgotten.                                                              *)
FirstObject == recoveries \in Nat /\ (recoveries = 0 => ~forgot /\ Inv /\ AccountInv)

LEMMA FirstObjectNext ==
  ASSUME FirstObject, [Next]_vars
  PROVE  FirstObject'
  <1>1. /\ recoveries' \in Nat
        /\ recoveries' = 0 => recoveries = 0 /\ forgot' = forgot
    BY ForgotStays DEF FirstObject
  <1>2. ASSUME recoveries' = 0 PROVE ~forgot' /\ Inv' /\ AccountInv'
    <2>1. ~forgot' /\ Inv /\ AccountInv
      BY <1>1, <1>2 DEF FirstObject
    <2> QED
      BY <2>1, NextInv, AccountNext
  <1> QED
    BY <1>1, <1>2 DEF FirstObject

(* As long as the session lives, every event at or below a client's        *)
(* bookmark was shown to it or announced as gone, or its notice is under   *)
(* way or died with a connection: replay from the ring (session.py:225-334)*)
(* skips nothing, whatever the ring's size, the number of clients and the  *)
(* order of attaches, takeovers, breaks and events.                        *)
THEOREM NoEventUnaccounted == Spec => []AccountedFor
  <1>1. Init => Inv /\ AccountInv
    <2> SUFFICES ASSUME Init, NEW d \in Clients
                 PROVE  Inv /\ ClientAccounted(d) /\ SubscriberAccounted(d)
      BY InitInv DEF AccountInv
    <2>1. /\ lastSeq[d] = 0 /\ seq = 0 /\ emitted = {} /\ chan[d] = <<>> /\ Len(chan[d]) = 0
          /\ owner = NoOwner /\ watchers = {} /\ conn[d] = "down"
      BY DEF Init
    <2>2. QED
      BY <2>1, InitInv, ClientsAssumption DEF ClientAccounted, SubscriberAccounted,
         BookmarkAccounted, QueueAccounted, Subscribed, Up
  <1>2. Init => FirstObject
    BY <1>1 DEF Init, FirstObject
  <1>3. FirstObject /\ [Next]_vars => FirstObject'
    BY FirstObjectNext
  <1>4. FirstObject => AccountedFor
    BY DEF FirstObject, AccountInv, AccountedFor, ClientAccounted, BookmarkAccounted, Known
  <1>5. QED
    BY <1>2, <1>3, <1>4, PTL DEF Spec

(***************************************************************************)
(* The stream implements EventDelivery.                                    *)
(*                                                                         *)
(* What the mapping of Delivery says, by name: the clients that follow the *)
(* session, and what the frames under way to a client cover.               *)
(***************************************************************************)
Covered(q) == UNION {f.covers : f \in Items(q)}

Owed == [c \in Clients |-> Covered(chan[c])]

Followers == {c \in Clients : Subscribed(c)}

(* A connection that is served no more neither owns nor watches: a new one *)
(* of the same client does not follow the session by itself.               *)
DownIsGone == \A c \in Clients : conn[c] = "down" => owner # c /\ c \notin watchers

LEMMA PublishMaps ==
  ASSUME NEW n \in 1..MaxSeq, \A m \in emitted : m < n, emitted' = emitted \cup {n},
         Owed' = [c \in Clients |-> IF c \in Followers THEN Owed[c] \cup {n} ELSE Owed[c]],
         Followers' = Followers, lastSeq' = lastSeq
  PROVE  Delivery!Next
  <1>1. Delivery!Publish(n)
    BY DEF Delivery!Publish, Owed, Followers, Covered, Subscribed
  <1> QED
    BY <1>1 DEF Delivery!Next

LEMMA SubscribeMaps ==
  ASSUME NEW c \in Clients, c \in Followers', Followers' \subseteq Followers \cup {c},
         Owed[c] \cup {n \in emitted : n > lastSeq[c]} \subseteq Owed'[c],
         \A d \in Clients \ {c} : Owed'[d] = Owed[d],
         emitted' = emitted, lastSeq' = lastSeq
  PROVE  Delivery!Next
  <1>0. Owed' = [Owed EXCEPT ![c] = Owed'[c]]
    BY DEF Owed
  <1>1. Delivery!Subscribe(c)
    BY <1>0 DEF Delivery!Subscribe, Owed, Followers, Covered, Subscribed
  <1> QED
    BY <1>1 DEF Delivery!Next

LEMMA SubscribeLiveMaps ==
  ASSUME NEW c \in Clients, Followers' = Followers \cup {c}, Owed' = Owed,
         emitted' = emitted, lastSeq' = lastSeq
  PROVE  Delivery!Next
  <1>1. Delivery!SubscribeLive(c)
    BY DEF Delivery!SubscribeLive, Owed, Followers, Covered, Subscribed
  <1> QED
    BY <1>1 DEF Delivery!Next

LEMMA UnsubscribeMaps ==
  ASSUME NEW c \in Clients, Followers' = Followers \ {c}, Owed' = Owed,
         emitted' = emitted, lastSeq' = lastSeq
  PROVE  Delivery!Next
  <1>1. Delivery!Unsubscribe(c)
    BY DEF Delivery!Unsubscribe, Owed, Followers, Covered, Subscribed
  <1> QED
    BY <1>1 DEF Delivery!Next

LEMMA TellMaps ==
  ASSUME NEW c \in Clients, Followers' = Followers,
         Owed'[c] \subseteq Owed[c], \A d \in Clients \ {c} : Owed'[d] = Owed[d],
         emitted' = emitted, lastSeq'[c] >= lastSeq[c],
         lastSeq' = [lastSeq EXCEPT ![c] = lastSeq'[c]]
  PROVE  Delivery!Next
  <1>0. Owed' = [Owed EXCEPT ![c] = Owed'[c]]
    BY DEF Owed
  <1>1. Delivery!Tell(c)
    BY <1>0 DEF Delivery!Tell, Owed, Followers, Covered, Subscribed
  <1> QED
    BY <1>1 DEF Delivery!Next

LEMMA LeaveMaps ==
  ASSUME NEW c \in Clients, Followers' = Followers \ {c},
         Owed' = [Owed EXCEPT ![c] = {}], emitted' = emitted, lastSeq' = lastSeq
  PROVE  Delivery!Next
  <1>1. Delivery!Leave(c)
    BY DEF Delivery!Leave, Owed, Followers, Covered, Subscribed
  <1> QED
    BY <1>1 DEF Delivery!Next

LEMMA RecoverMaps ==
  ASSUME Followers' = {}, Owed' = Owed \/ Owed' = [c \in Clients |-> {}],
         emitted' \subseteq emitted, lastSeq' = lastSeq
  PROVE  Delivery!Next
  <1>1. Delivery!Recover
    BY DEF Delivery!Recover, Owed, Followers, Covered, Subscribed
  <1> QED
    BY <1>1 DEF Delivery!Next

LEMMA StutterMaps ==
  ASSUME Followers' = Followers, Owed' = Owed, emitted' = emitted, lastSeq' = lastSeq
  PROVE  UNCHANGED Delivery!vars
  BY DEF Delivery!vars, Owed, Followers, Covered, Subscribed

(***************************************************************************)
(* What the frames of a queue cover                                        *)
(***************************************************************************)
LEMMA CoveredConcat ==
  ASSUME NEW a \in Seq(Frame), NEW b \in Seq(Frame)
  PROVE  Covered(a \o b) = Covered(a) \cup Covered(b)
  <1>1. Items(a \o b) = Items(a) \cup Items(b)
    BY ItemsConcat
  <1> QED
    BY <1>1 DEF Covered

LEMMA CoveredEmpty == Covered(<<>>) = {}
  BY DEF Covered, Items

(* The copies of an event cover it, for those that follow the session.     *)
LEMMA CoveredCopies ==
  ASSUME NEW c \in Clients, NEW n \in 1..MaxSeq
  PROVE  Covered(Copies(c, n)) = IF Subscribed(c) THEN {n} ELSE {}
  <1> DEFINE q == Copies(c, n)
  <1>1. /\ q \in Seq(Frame) /\ \A i \in 1..Len(q) : q[i] = Event(n)
        /\ q # <<>> <=> Subscribed(c)
    BY CopiesTyped, CopiesElements
  <1>2. Event(n).covers = {n}
    BY DEF Event
  <1> HIDE DEF q
  <1>3. CASE Subscribed(c)
    <2>1. 1 \in DOMAIN q /\ DOMAIN q = 1..Len(q)
      BY <1>1, <1>3, LenProperties, EmptySeq
    <2>2. Items(q) = {Event(n)}
      BY <1>1, <2>1 DEF Items
    <2> QED
      BY <1>2, <1>3, <2>2 DEF Covered, q
  <1>4. CASE ~Subscribed(c)
    BY <1>1, <1>4, CoveredEmpty DEF q
  <1> QED
    BY <1>3, <1>4

(* The replay covers what the ring still has after the bookmark.           *)
LEMMA CoveredReplay ==
  ASSUME Inv, NEW seen \in Nat, NEW n \in Items(ring), n > seen
  PROVE  n \in Covered(Replay(seen))
  <1> DEFINE p == Since(ring, seen)
  <1>1. /\ ring \in Seq(1..MaxSeq) /\ 1..MaxSeq \in SUBSET Nat /\ Increasing(ring)
    BY BoundsAssumption DEF Inv, TypeOK, RecordInv, NewestRing
  <1>2. p \in Seq(1..MaxSeq) /\ n \in Items(p)
    BY <1>1, SinceElements
  <1>3. /\ Replay(seen) \in Seq(Frame) /\ Len(Replay(seen)) = Len(p)
        /\ \A i \in 1..Len(p) : Replay(seen)[i] = Event(p[i])
    BY <1>1, ReplayTyped DEF Inv
  <1> HIDE DEF p
  <1>4. DOMAIN p = 1..Len(p) /\ DOMAIN Replay(seen) = 1..Len(p)
    BY <1>2, <1>3, LenProperties
  <1>5. PICK i \in 1..Len(p) : n = p[i]
    BY <1>2, <1>4 DEF Items
  <1>6. Event(n) \in Items(Replay(seen))
    BY <1>3, <1>4, <1>5 DEF Items
  <1>7. n \in Event(n).covers
    BY DEF Event
  <1> QED
    BY <1>6, <1>7 DEF Covered

(* Replay and notice cover every event after the bookmark.                 *)
LEMMA CoveredCatchUp ==
  ASSUME Inv, NEW seen \in Nat, NEW n \in emitted, n > seen, seq + 1 <= MaxSeq,
         NEW N, N = Notice(seen) \/ N = WatchNotice(seen)
  PROVE  n \in Covered(Replay(seen)) \cup Covered(N)
  <1>1. /\ ring \in Seq(1..MaxSeq) /\ n \in Nat
        /\ Items(ring) \subseteq Nat
        /\ \A m \in emitted \ Items(ring) : \A k \in Items(ring) : m < k
        /\ ring # <<>>
    <2>1. emitted \subseteq 1..seq /\ seq \in Nat /\ ring \in Seq(1..MaxSeq)
      BY BoundsAssumption DEF Inv, TypeOK, RecordInv
    <2>2. /\ Items(ring) \subseteq emitted
          /\ emitted # {} => ring # <<>>
          /\ \A m \in emitted \ Items(ring) : \A k \in Items(ring) : m < k
      BY DEF Inv, RecordInv, NewestRing
    <2>3. emitted \subseteq Nat
      BY <2>1
    <2> QED
      BY <2>1, <2>2, <2>3
  <1>2. CASE n \in Items(ring)
    BY <1>2, CoveredReplay
  <1>3. CASE n \notin Items(ring)
    <2>1. Len(ring) > 0 /\ Len(ring) \in Nat /\ Head(ring) \in Items(ring)
      <3>1. Len(ring) > 0 /\ Len(ring) \in Nat /\ 1 \in DOMAIN ring
        BY <1>1, LenProperties, EmptySeq
      <3>2. Head(ring) = ring[1]
        BY <3>1
      <3> QED
        BY <3>1, <3>2 DEF Items
    <2>2. n < Head(ring) /\ Head(ring) \in Nat
      BY <1>1, <1>3, <2>1
    <2>3. RolledPast(ring, seen) /\ n \in (seen + 1)..(Head(ring) - 1)
      BY <1>1, <2>1, <2>2 DEF RolledPast
    <2>4. N = <<Gap(seq + 1, seen, Head(ring))>>
      BY <2>3 DEF Notice, WatchNotice
    <2>5. Items(N) = {Gap(seq + 1, seen, Head(ring))}
      <3>1. DOMAIN N = 1..1 /\ N[1] = Gap(seq + 1, seen, Head(ring))
        BY <2>4
      <3> QED
        BY <3>1 DEF Items
    <2>6. Gap(seq + 1, seen, Head(ring)).covers = (seen + 1)..(Head(ring) - 1)
      BY DEF Gap
    <2> QED
      BY <2>3, <2>5, <2>6 DEF Covered
  <1> QED
    BY <1>2, <1>3

(***************************************************************************)
(* Each action is a step of EventDelivery, or a stutter                    *)
(***************************************************************************)
LEMMA OnEventMaps ==
  ASSUME Inv, OnEvent
  PROVE  Delivery!Next
  <1> DEFINE n == seq + 1
  <1>1. /\ n \in 1..MaxSeq /\ seq \in Nat /\ emitted \subseteq 1..seq
        /\ chan \in [Clients -> Seq(Frame)]
    BY BoundsAssumption DEF Inv, TypeOK, RecordInv, OnEvent
  <1>2. /\ chan' = [c \in Clients |-> chan[c] \o Copies(c, n)]
        /\ emitted' = emitted \cup {n}
        /\ UNCHANGED <<owner, watchers, conn, lastSeq>>
    BY DEF OnEvent
  <1>3. \A m \in emitted : m < n
    BY <1>1
  <1>4. Followers' = Followers
    BY <1>2 DEF Followers, Subscribed, Up
  <1>5. \A c \in Clients : Covered(chan'[c]) = Covered(chan[c])
                                               \cup (IF Subscribed(c) THEN {n} ELSE {})
    <2> TAKE c \in Clients
    <2>1. Copies(c, n) \in Seq(Frame)
      BY <1>1, CopiesTyped
    <2>2. chan'[c] = chan[c] \o Copies(c, n) /\ chan[c] \in Seq(Frame)
      BY <1>1, <1>2
    <2> QED
      BY <1>1, <2>1, <2>2, CoveredConcat, CoveredCopies
  <1>6. Owed' = [c \in Clients |-> IF c \in Followers THEN Owed[c] \cup {n} ELSE Owed[c]]
    BY <1>5 DEF Owed, Followers
  <1> QED
    BY <1>1, <1>2, <1>3, <1>4, <1>6, PublishMaps

(* What is sent to a client that catches up.                               *)
LEMMA CatchUpCovers ==
  ASSUME Inv, NEW c \in Clients, NEW seen \in {0, lastSeq[c]}, seq + 1 <= MaxSeq,
         NEW N, N = Notice(seen) \/ N = WatchNotice(seen),
         chan' = [chan EXCEPT ![c] = @ \o Replay(seen) \o N]
  PROVE  /\ Owed[c] \cup {n \in emitted : n > lastSeq[c]} \subseteq Owed'[c]
         /\ \A d \in Clients \ {c} : Owed'[d] = Owed[d]
  <1>1. /\ seen \in Nat /\ lastSeq[c] \in Nat /\ seen <= lastSeq[c]
        /\ chan \in [Clients -> Seq(Frame)] /\ Increasing(ring) /\ emitted \subseteq Nat
    <2>1. lastSeq[c] \in Nat /\ emitted \subseteq Nat
      BY BoundsAssumption DEF Inv, TypeOK
    <2> QED
      BY <2>1 DEF Inv, TypeOK, RecordInv, NewestRing
  <1>2. Replay(seen) \in Seq(Frame) /\ N \in Seq(Frame)
    BY <1>1, ReplayTyped, NoticeTyped DEF Inv
  <1>3. chan'[c] = (chan[c] \o Replay(seen)) \o N
    BY <1>1
  <1>4. Covered(chan'[c]) = (Covered(chan[c]) \cup Covered(Replay(seen))) \cup Covered(N)
    <2>1. chan[c] \in Seq(Frame) /\ chan[c] \o Replay(seen) \in Seq(Frame)
      BY <1>1, <1>2, ConcatProperties
    <2> QED
      BY <1>2, <1>3, <2>1, CoveredConcat
  <1>5. \A n \in emitted : n > lastSeq[c] => n \in Covered(Replay(seen)) \cup Covered(N)
    <2> TAKE n \in emitted
    <2> HAVE n > lastSeq[c]
    <2>1. n > seen
      BY <1>1
    <2> QED
      BY <1>1, <2>1, CoveredCatchUp
  <1>6. \A d \in Clients \ {c} : chan'[d] = chan[d]
    BY <1>1
  <1> QED
    BY <1>4, <1>5, <1>6 DEF Owed

LEMMA AttachMaps ==
  ASSUME Inv, NEW c \in Clients, NEW seen \in {0, lastSeq[c]}, Attach(c, seen)
  PROVE  Delivery!Next
  <1>1. /\ seq + 1 <= MaxSeq /\ owner' = c /\ Up(c)
        /\ chan' = [chan EXCEPT ![c] = @ \o Replay(seen) \o Notice(seen)]
        /\ UNCHANGED <<watchers, emitted, conn, lastSeq>>
    BY DEF Attach
  <1>2. c \in Followers' /\ Followers' \subseteq Followers \cup {c}
    BY <1>1 DEF Followers, Subscribed, Up
  <1>3. /\ Owed[c] \cup {n \in emitted : n > lastSeq[c]} \subseteq Owed'[c]
        /\ \A d \in Clients \ {c} : Owed'[d] = Owed[d]
    BY <1>1, CatchUpCovers
  <1> QED
    BY <1>1, <1>2, <1>3, SubscribeMaps

LEMMA WatchMaps ==
  ASSUME Inv, NEW c \in Clients, NEW seen \in {0, lastSeq[c], LiveOnly}, Watch(c, seen)
  PROVE  Delivery!Next
  <1>1. /\ watchers' = watchers \cup {c} /\ Up(c)
        /\ UNCHANGED <<owner, emitted, conn, lastSeq>>
    BY DEF Watch
  <1>2. c \in Followers' /\ Followers' = Followers \cup {c}
    BY <1>1 DEF Followers, Subscribed, Up
  <1>3. CASE chan' = chan
    <2>1. Owed' = Owed
      BY <1>3 DEF Owed
    <2> QED
      BY <1>1, <1>2, <2>1, SubscribeLiveMaps
  <1>4. CASE /\ seen # LiveOnly /\ seq + 1 <= MaxSeq
             /\ chan' = [chan EXCEPT ![c] = @ \o Replay(seen) \o WatchNotice(seen)]
    <2>1. /\ Owed[c] \cup {n \in emitted : n > lastSeq[c]} \subseteq Owed'[c]
          /\ \A d \in Clients \ {c} : Owed'[d] = Owed[d]
      BY <1>4, CatchUpCovers
    <2> QED
      BY <1>1, <1>2, <2>1, SubscribeMaps
  <1> QED
    BY <1>3, <1>4 DEF Watch

(* A connection that drives and watches the session follows it until both  *)
(* have ended.                                                             *)
LEMMA DetachMaps ==
  ASSUME Inv, NEW c \in Clients, Detach(c)
  PROVE  [Delivery!Next]_Delivery!vars
  <1>1. /\ Up(c) /\ UNCHANGED <<emitted, conn, chan, lastSeq>>
        /\ \/ owner = c /\ owner' = NoOwner /\ watchers' = watchers
           \/ owner # c /\ watchers' = watchers \ {c} /\ owner' = owner
    BY DEF Detach, client
  <1>2. Owed' = Owed
    BY <1>1 DEF Owed
  <1>3. Followers' = Followers \/ Followers' = Followers \ {c}
    BY <1>1, ClientsAssumption DEF Followers, Subscribed, Up
  <1> QED
    BY <1>1, <1>2, <1>3, UnsubscribeMaps, StutterMaps

LEMMA ConnectMaps ==
  ASSUME DownIsGone, NEW c \in Clients, Connect(c)
  PROVE  UNCHANGED Delivery!vars
  <1>1. /\ conn[c] = "down" /\ conn' = [conn EXCEPT ![c] = "up"]
        /\ UNCHANGED <<owner, watchers, emitted, chan, lastSeq>>
    BY DEF Connect, session
  <1>2. Owed' = Owed
    BY <1>1 DEF Owed
  <1>3. \A d \in Clients : Subscribed(d)' <=> Subscribed(d)
    BY <1>1 DEF DownIsGone, Subscribed, Up
  <1>4. Followers' = Followers
    BY <1>3 DEF Followers
  <1> QED
    BY <1>1, <1>2, <1>4, StutterMaps

LEMMA UnserveMaps ==
  ASSUME Inv, NEW c \in Clients, Unserve(c)
  PROVE  UNCHANGED Delivery!vars
  <1>1. /\ conn[c] = "closing" /\ conn' = [conn EXCEPT ![c] = "down"]
        /\ owner' = (IF owner = c THEN NoOwner ELSE owner) /\ watchers' = watchers \ {c}
        /\ UNCHANGED <<emitted, chan, lastSeq>>
    BY DEF Unserve
  <1>2. Owed' = Owed
    BY <1>1 DEF Owed
  <1>3. \A d \in Clients : Subscribed(d)' <=> Subscribed(d)
    BY <1>1, ClientsAssumption DEF Subscribed, Up, Inv, TypeOK
  <1>4. Followers' = Followers
    BY <1>3 DEF Followers
  <1> QED
    BY <1>1, <1>2, <1>4, StutterMaps

LEMMA DeliverMaps ==
  ASSUME Inv, NEW c \in Clients, Deliver(c)
  PROVE  Delivery!Next
  <1> DEFINE q == chan[c]
             f == Head(q)
  <1>1. /\ q \in Seq(Frame) /\ q # <<>> /\ chan \in [Clients -> Seq(Frame)]
        /\ lastSeq \in [Clients -> 0..MaxSeq]
    BY DEF Inv, TypeOK, Deliver
  <1>2. /\ lastSeq' = [lastSeq EXCEPT ![c] = IF f.seq > @ THEN f.seq ELSE @]
        /\ chan' = [chan EXCEPT ![c] = Tail(q)]
        /\ UNCHANGED <<owner, watchers, emitted, conn>>
    BY DEF Deliver, session
  <1>3. /\ DOMAIN q = 1..Len(q) /\ DOMAIN Tail(q) = 1..(Len(q) - 1)
        /\ Len(q) \in Nat /\ \A i \in 1..(Len(q) - 1) : Tail(q)[i] = q[i + 1]
        /\ f \in Frame
    <2>1. /\ Tail(q) \in Seq(Frame) /\ Len(Tail(q)) = Len(q) - 1 /\ Len(q) \in Nat
          /\ \A i \in 1..Len(Tail(q)) : Tail(q)[i] = q[i + 1]
          /\ f \in Frame
      BY <1>1, HeadTailProperties, LenProperties
    <2> QED
      BY <1>1, <2>1, LenProperties
  <1> HIDE DEF q, f
  <1>4. Items(Tail(q)) \subseteq Items(q)
    BY <1>3 DEF Items
  <1>5. /\ Owed'[c] \subseteq Owed[c] /\ \A d \in Clients \ {c} : Owed'[d] = Owed[d]
    BY <1>1, <1>2, <1>4 DEF Owed, Covered, q
  <1>6. Followers' = Followers
    BY <1>2 DEF Followers, Subscribed, Up
  <1>7. /\ lastSeq'[c] >= lastSeq[c] /\ lastSeq' = [lastSeq EXCEPT ![c] = lastSeq'[c]]
    <2>1. f.seq \in Nat /\ lastSeq[c] \in Nat
      BY <1>1, <1>3, BoundsAssumption DEF Frame
    <2>2. lastSeq'[c] = IF f.seq > lastSeq[c] THEN f.seq ELSE lastSeq[c]
      BY <1>1, <1>2
    <2> QED
      BY <1>1, <1>2, <2>1, <2>2
  <1> QED
    BY <1>2, <1>5, <1>6, <1>7, TellMaps

LEMMA BreakMaps ==
  ASSUME Inv, NEW c \in Clients, Break(c)
  PROVE  Delivery!Next
  <1>1. /\ conn' = [conn EXCEPT ![c] = "closing"] /\ chan' = [chan EXCEPT ![c] = <<>>]
        /\ UNCHANGED <<owner, watchers, emitted, lastSeq>>
        /\ chan \in [Clients -> Seq(Frame)]
        /\ conn \in [Clients -> {"up", "closing", "down"}]
    BY DEF Break, session, Inv, TypeOK
  <1>2. Owed' = [Owed EXCEPT ![c] = {}]
    <2>1. chan'[c] = <<>> /\ \A d \in Clients \ {c} : chan'[d] = chan[d]
      BY <1>1
    <2> QED
      BY <2>1, CoveredEmpty DEF Owed
  <1>3. /\ conn'[c] = "closing" /\ \A d \in Clients \ {c} : conn'[d] = conn[d]
    BY <1>1
  <1>4. Followers' = Followers \ {c}
    BY <1>1, <1>3 DEF Followers, Subscribed, Up
  <1> QED
    BY <1>1, <1>2, <1>4, LeaveMaps

LEMMA RecoveryMaps ==
  ASSUME Inv, NEW k, Reopen(k) \/ Restart(k)
  PROVE  Delivery!Next
  <1>1. /\ emitted' = Items(log) /\ owner' = NoOwner /\ watchers' = {} /\ lastSeq' = lastSeq
        /\ chan' = chan \/ chan' = [c \in Clients |-> <<>>]
    BY DEF Reopen, Restart, Rebuild, client
  <1>2. emitted' \subseteq emitted
    BY <1>1 DEF Inv, RecordInv
  <1>3. Followers' = {}
    BY <1>1, ClientsAssumption DEF Followers, Subscribed
  <1>4. Owed' = Owed \/ Owed' = [c \in Clients |-> {}]
    BY <1>1, CoveredEmpty DEF Owed
  <1> QED
    BY <1>1, <1>2, <1>3, <1>4, RecoverMaps

LEMMA DownNext ==
  ASSUME Inv, DownIsGone, [Next]_vars
  PROVE  DownIsGone'
  <1>1. /\ conn \in [Clients -> {"up", "closing", "down"}]
        /\ \A c \in Clients : conn[c] = "down" => owner # c /\ c \notin watchers
    BY DEF Inv, TypeOK, DownIsGone
  <1>2. CASE UNCHANGED <<conn, owner, watchers>>
    BY <1>1, <1>2 DEF DownIsGone
  <1>3. ASSUME NEW c \in Clients, NEW seen, Attach(c, seen) \/ Watch(c, seen)
        PROVE  DownIsGone'
    BY <1>1, <1>3 DEF Attach, Watch, Up, DownIsGone
  <1>4. ASSUME NEW c \in Clients, Detach(c) \/ Connect(c) \/ Break(c) \/ Unserve(c)
        PROVE  DownIsGone'
    BY <1>1, <1>4, ClientsAssumption
    DEF Detach, Connect, Break, Unserve, Up, DownIsGone, session, client
  <1>5. ASSUME NEW k, Reopen(k) \/ Restart(k)
        PROVE  DownIsGone'
    BY <1>5, ClientsAssumption DEF Reopen, Restart, Rebuild, DownIsGone
  <1> QED
    BY <1>2, <1>3, <1>4, <1>5 DEF Next, OnEvent, Deliver, vars, session, client

LEMMA NextMaps ==
  ASSUME Inv, DownIsGone, [Next]_vars
  PROVE  [Delivery!Next]_Delivery!vars
  <1>1. CASE OnEvent
    BY <1>1, OnEventMaps
  <1>2. ASSUME NEW c \in Clients, NEW seen \in {0, lastSeq[c]}, Attach(c, seen)
        PROVE  Delivery!Next
    BY <1>2, AttachMaps
  <1>3. ASSUME NEW c \in Clients, NEW seen \in {0, lastSeq[c], LiveOnly}, Watch(c, seen)
        PROVE  Delivery!Next
    BY <1>3, WatchMaps
  <1>4. ASSUME NEW c \in Clients, Detach(c)
        PROVE  [Delivery!Next]_Delivery!vars
    BY <1>4, DetachMaps
  <1>5. ASSUME NEW c \in Clients, Connect(c)
        PROVE  UNCHANGED Delivery!vars
    BY <1>5, ConnectMaps
  <1>6. ASSUME NEW c \in Clients, Deliver(c)
        PROVE  Delivery!Next
    BY <1>6, DeliverMaps
  <1>7. ASSUME NEW c \in Clients, Break(c)
        PROVE  Delivery!Next
    BY <1>7, BreakMaps
  <1>8. ASSUME NEW c \in Clients, Unserve(c)
        PROVE  UNCHANGED Delivery!vars
    BY <1>8, UnserveMaps
  <1>9. ASSUME NEW k, Reopen(k) \/ Restart(k)
        PROVE  Delivery!Next
    BY <1>9, RecoveryMaps
  <1>10. CASE UNCHANGED vars
    <2>1. /\ Followers' = Followers /\ Owed' = Owed
          /\ emitted' = emitted /\ lastSeq' = lastSeq
      BY <1>10 DEF vars, session, client, Followers, Subscribed, Up, Owed
    <2> QED
      BY <2>1, StutterMaps
  <1> QED
    BY <1>1, <1>2, <1>3, <1>4, <1>5, <1>6, <1>7, <1>8, <1>9, <1>10 DEF Next

LEMMA InitMaps ==
  ASSUME Init
  PROVE  DownIsGone /\ Delivery!Init
  <1>1. /\ emitted = {} /\ conn = [c \in Clients |-> "down"] /\ chan = [c \in Clients |-> <<>>]
        /\ owner = NoOwner /\ watchers = {} /\ lastSeq = [c \in Clients |-> 0]
    BY DEF Init
  <1>2. Followers = {} /\ Owed = [c \in Clients |-> {}]
    BY <1>1, CoveredEmpty DEF Followers, Subscribed, Up, Owed
  <1>3. Delivery!Init
    BY <1>1, <1>2 DEF Delivery!Init, Followers, Subscribed, Owed, Covered
  <1> QED
    BY <1>1, <1>3, ClientsAssumption DEF DownIsGone

(* The stream is an EventDelivery: whatever the ring rolls past and        *)
(* whichever connections attach, take over, watch, break and recover, a    *)
(* subscriber is owed each event after its bookmark until it is shown the  *)
(* event, told of its loss, or gone (session.py:163-334).  The exception   *)
(* is a stream whose rebuild read no whole frame of a log that has some.   *)
THEOREM StreamDelivers == Spec => ImplementsDelivery
  <1> DEFINE Mapped == ~forgot => Inv /\ DownIsGone
  <1>1. Init => Mapped /\ Delivery!Init
    BY InitInv, InitMaps
  <1>2. Mapped /\ [Next]_vars => Mapped'
    BY NextInv, DownNext, ForgotStays
  <1>3. Mapped /\ [Next]_vars => [forgot' \/ Delivery!Next]_Delivery!vars
    BY NextMaps, ForgotStays
  <1> HIDE DEF Mapped
  <1> QED
    BY <1>1, <1>2, <1>3, PTL DEF Spec, ImplementsDelivery
=============================================================================
