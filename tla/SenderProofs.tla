---------------------------- MODULE SenderProofs ----------------------------
(***************************************************************************)
(* What the push side promises for every buffer, every number of cycles and *)
(* either wiring of the stop.  One lemma says what any step of Push, of     *)
(* Shutdown or of the receiver does to the line of batches; the order of    *)
(* the line, the counts and the refinement of Delivery follow from it.      *)
(* Before that, what the methods of the ring do to the sequence it stands   *)
(* for, for every capacity.                                                 *)
(***************************************************************************)
EXTENDS Sender, TLAPS, SequenceTheorems, FiniteSetTheorems

-----------------------------------------------------------------------------
(* The ring: push appends, a full ring gives up its head first, removeOldest *)
(* takes the head, and no slot outside the entries keeps a batch alive.      *)


\* A ring of batches from B.
RingType(B) ==
    [buf : [Slots -> B \cup {nil}], head : Slots, size : 0..Capacity, evicted : Nat]

\* A slot holds a batch exactly when it is one of the size slots from head on.
OnlyEntriesLive(r) ==
    \A s \in Slots : r.buf[s] # nil <=> (s + Capacity - r.head) % Capacity < r.size

Whole(r, B) == r \in RingType(B) /\ OnlyEntriesLive(r)

-----------------------------------------------------------------------------
(* Slots.                                                                   *)

LEMMA SlotIs ==
  ASSUME NEW h \in Slots, NEW n \in 0..Capacity
  PROVE  /\ Slot(h, n) \in Slots
         /\ Slot(h, n) = IF h + n < Capacity THEN h + n ELSE h + n - Capacity
BY RingAssumption DEF Slot, Slots

LEMMA DistanceIs ==
  ASSUME NEW h \in Slots, NEW s \in Slots
  PROVE  (s + Capacity - h) % Capacity = IF s < h THEN s + Capacity - h ELSE s - h
<1>1. CASE s < h
  <2>1. s + Capacity - h \in 0..(Capacity - 1)
    BY <1>1, RingAssumption DEF Slots
  <2> QED BY <1>1, <2>1, RingAssumption
<1>2. CASE ~(s < h)
  <2>1. s - h \in 0..(Capacity - 1) /\ s + Capacity - h = (s - h) + Capacity
    BY <1>2, RingAssumption DEF Slots
  <2> QED BY <1>2, <2>1, RingAssumption
<1> QED BY <1>1, <1>2

LEMMA DistanceInRing ==
  ASSUME NEW h \in Slots, NEW s \in Slots
  PROVE  (s + Capacity - h) % Capacity < Capacity
<1>1. (s + Capacity - h) % Capacity = IF s < h THEN s + Capacity - h ELSE s - h
  BY DistanceIs
<1> QED BY <1>1, RingAssumption DEF Slots

\* Counting from the next slot is counting one less.
LEMMA SlotOfNext ==
  ASSUME NEW h \in Slots, NEW n \in 1..(Capacity - 1)
  PROVE  Slot(Slot(h, 1), n - 1) = Slot(h, n)
<1>1. 1 \in 0..Capacity /\ n \in 0..Capacity /\ n - 1 \in 0..Capacity
  BY RingAssumption
<1>2. /\ Slot(h, 1) \in Slots
      /\ Slot(h, 1) = IF h + 1 < Capacity THEN h + 1 ELSE h + 1 - Capacity
  BY <1>1, SlotIs
<1>3. Slot(h, n) = IF h + n < Capacity THEN h + n ELSE h + n - Capacity
  BY <1>1, SlotIs
<1>4. Slot(Slot(h, 1), n - 1) = IF Slot(h, 1) + (n - 1) < Capacity THEN Slot(h, 1) + (n - 1)
                                ELSE Slot(h, 1) + (n - 1) - Capacity
  BY <1>1, <1>2, SlotIs
<1> QED BY <1>2, <1>3, <1>4, RingAssumption DEF Slots

LEMMA SlotElsewhere ==
  ASSUME NEW h \in Slots, NEW n \in 1..(Capacity - 1)
  PROVE  Slot(h, n) \in Slots /\ Slot(h, n) # h
<1>1. n \in 0..Capacity
  BY RingAssumption
<1>2. /\ Slot(h, n) \in Slots
      /\ Slot(h, n) = IF h + n < Capacity THEN h + n ELSE h + n - Capacity
  BY <1>1, SlotIs
<1> QED BY <1>2, RingAssumption DEF Slots

\* The last slot of a full ring counted from the next head is the old head.
LEMMA SlotOfLast ==
  ASSUME NEW h \in Slots
  PROVE  Slot(h, 1) \in Slots /\ Slot(Slot(h, 1), Capacity - 1) = h
<1>1. 1 \in 0..Capacity /\ Capacity - 1 \in 0..Capacity
  BY RingAssumption
<1>2. /\ Slot(h, 1) \in Slots
      /\ Slot(h, 1) = IF h + 1 < Capacity THEN h + 1 ELSE h + 1 - Capacity
  BY <1>1, SlotIs
<1>3. Slot(Slot(h, 1), Capacity - 1) =
        IF Slot(h, 1) + (Capacity - 1) < Capacity THEN Slot(h, 1) + (Capacity - 1)
        ELSE Slot(h, 1) + (Capacity - 1) - Capacity
  BY <1>1, <1>2, SlotIs
<1> QED BY <1>2, <1>3, RingAssumption DEF Slots

LEMMA DistanceFromNext ==
  ASSUME NEW h \in Slots, NEW s \in Slots
  PROVE  (s + Capacity - Slot(h, 1)) % Capacity =
           IF s = h THEN Capacity - 1 ELSE ((s + Capacity - h) % Capacity) - 1
<1>1. 1 \in 0..Capacity
  BY RingAssumption
<1>2. /\ Slot(h, 1) \in Slots
      /\ Slot(h, 1) = IF h + 1 < Capacity THEN h + 1 ELSE h + 1 - Capacity
  BY <1>1, SlotIs
<1>3. (s + Capacity - Slot(h, 1)) % Capacity =
        IF s < Slot(h, 1) THEN s + Capacity - Slot(h, 1) ELSE s - Slot(h, 1)
  BY <1>2, DistanceIs
<1>4. (s + Capacity - h) % Capacity = IF s < h THEN s + Capacity - h ELSE s - h
  BY DistanceIs
<1> QED BY <1>2, <1>3, <1>4, RingAssumption DEF Slots

\* A slot is the one its distance from the head says.
LEMMA DistanceOfSlot ==
  ASSUME NEW h \in Slots, NEW n \in 0..(Capacity - 1)
  PROVE  (Slot(h, n) + Capacity - h) % Capacity = n
<1>1. n \in 0..Capacity
  BY RingAssumption
<1>2. /\ Slot(h, n) \in Slots
      /\ Slot(h, n) = IF h + n < Capacity THEN h + n ELSE h + n - Capacity
  BY <1>1, SlotIs
<1>3. (Slot(h, n) + Capacity - h) % Capacity =
        IF Slot(h, n) < h THEN Slot(h, n) + Capacity - h ELSE Slot(h, n) - h
  BY <1>2, DistanceIs
<1> QED BY <1>2, <1>3, RingAssumption DEF Slots

LEMMA SlotAtDistance ==
  ASSUME NEW h \in Slots, NEW n \in 0..(Capacity - 1), NEW s \in Slots,
         (s + Capacity - h) % Capacity = n
  PROVE  s = Slot(h, n)
<1>1. n \in 0..Capacity
  BY RingAssumption
<1>2. Slot(h, n) = IF h + n < Capacity THEN h + n ELSE h + n - Capacity
  BY <1>1, SlotIs
<1>3. (s + Capacity - h) % Capacity = IF s < h THEN s + Capacity - h ELSE s - h
  BY DistanceIs
<1> QED BY <1>2, <1>3, RingAssumption DEF Slots

-----------------------------------------------------------------------------
(* The sequence a ring stands for.                                          *)

LEMMA FieldsOfRing ==
  ASSUME NEW B, NEW r, Whole(r, B)
  PROVE  /\ r.buf \in [Slots -> B \cup {nil}] /\ r.head \in Slots
         /\ r.size \in 0..Capacity /\ r.evicted \in Nat /\ r.size \in Nat
         /\ r = [buf |-> r.buf, head |-> r.head, size |-> r.size, evicted |-> r.evicted]
BY RingAssumption DEF Whole, RingType

LEMMA ContentsAre ==
  ASSUME NEW B, NEW r, Whole(r, B)
  PROVE  /\ contents(r) \in Seq(B) /\ Len(contents(r)) = r.size
         /\ \A i \in 1..r.size : contents(r)[i] = r.buf[Slot(r.head, i - 1)]
<1>1. /\ r.buf \in [Slots -> B \cup {nil}] /\ r.head \in Slots
      /\ r.size \in 0..Capacity /\ r.size \in Nat
  BY FieldsOfRing
<1>2. ASSUME NEW i \in 1..r.size
      PROVE  r.buf[Slot(r.head, i - 1)] \in B
  <2>1. i - 1 \in 0..(Capacity - 1) /\ i - 1 < r.size
    BY <1>1, RingAssumption
  <2>2. Slot(r.head, i - 1) \in Slots
    BY <1>1, <2>1, SlotIs, RingAssumption
  <2>3. r.buf[Slot(r.head, i - 1)] # nil
    BY <1>1, <2>1, <2>2, DistanceOfSlot DEF Whole, OnlyEntriesLive
  <2> QED BY <1>1, <2>2, <2>3
<1>3. contents(r) \in [1..r.size -> B]
  BY <1>2 DEF contents
<1>4. contents(r) \in Seq(B)
  BY <1>1, <1>3, SeqDef
<1>5. Len(contents(r)) = r.size
  BY <1>1, <1>3, <1>4, LenProperties
<1> QED BY <1>4, <1>5 DEF contents

LEMMA OldestIsFirst ==
  ASSUME NEW B, NEW r, Whole(r, B), r.size > 0
  PROVE  oldest(r) = contents(r)[1] /\ oldest(r) \in B
<1>1. r.size \in 0..Capacity /\ r.size \in Nat /\ r.head \in Slots /\ 1 \in 1..r.size
  BY FieldsOfRing
<1>2. Slot(r.head, 0) = r.head
  <2>1. 0 \in 0..Capacity
    BY RingAssumption
  <2>2. Slot(r.head, 0) = IF r.head + 0 < Capacity THEN r.head + 0 ELSE r.head + 0 - Capacity
    BY <1>1, <2>1, SlotIs
  <2> QED BY <1>1, <2>2, RingAssumption DEF Slots
<1>3. contents(r)[1] = r.buf[r.head]
  BY <1>1, <1>2, ContentsAre
<1>4. contents(r)[1] \in B
  BY <1>1, ContentsAre, ElementOfSeq
<1> QED BY <1>3, <1>4 DEF oldest

LEMMA NewRingIsEmpty ==
  ASSUME NEW B
  PROVE  Whole(newRing, B) /\ contents(newRing) = <<>>
<1>1. Whole(newRing, B)
  <2>1. newRing \in RingType(B)
    BY RingAssumption DEF newRing, RingType, Slots
  <2>2. ASSUME NEW s \in Slots
        PROVE  newRing.buf[s] # nil <=> (s + Capacity - newRing.head) % Capacity < newRing.size
    BY DistanceIs, RingAssumption DEF newRing, Slots
  <2> QED BY <2>1, <2>2 DEF Whole, OnlyEntriesLive
<1>2. contents(newRing) \in Seq(B) /\ Len(contents(newRing)) = 0
  BY <1>1, ContentsAre DEF newRing
<1> QED BY <1>1, <1>2, EmptySeq

-----------------------------------------------------------------------------
(* The methods.                                                             *)

LEMMA RemoveOldestIs ==
  ASSUME NEW b, NEW h, NEW z, NEW e,
         NEW r, r = [buf |-> b, head |-> h, size |-> z, evicted |-> e], z # 0
  PROVE  removeOldest(r) =
           [buf |-> [b EXCEPT ![h] = nil], head |-> Slot(h, 1), size |-> z - 1, evicted |-> e]
BY DEF removeOldest

LEMMA RemoveOldestTakesTheHead ==
  ASSUME NEW B, NEW r, Whole(r, B), r.size > 0
  PROVE  /\ Whole(removeOldest(r), B)
         /\ contents(removeOldest(r)) = Tail(contents(r))
         /\ removeOldest(r).size = r.size - 1
         /\ removeOldest(r).evicted = r.evicted
<1> DEFINE n == removeOldest(r)
<1>1. /\ r.buf \in [Slots -> B \cup {nil}] /\ r.head \in Slots
      /\ r.size \in 0..Capacity /\ r.evicted \in Nat /\ r.size \in Nat
      /\ r = [buf |-> r.buf, head |-> r.head, size |-> r.size, evicted |-> r.evicted]
  BY FieldsOfRing
<1>2. n = [buf |-> [r.buf EXCEPT ![r.head] = nil], head |-> Slot(r.head, 1),
           size |-> r.size - 1, evicted |-> r.evicted]
  <2>1. r.size # 0
    OBVIOUS
  <2> QED BY ONLY <1>1, <2>1, RemoveOldestIs
<1>3. /\ 1 \in 0..Capacity /\ Slot(r.head, 1) \in Slots
      /\ Slot(r.head, 1) = IF r.head + 1 < Capacity THEN r.head + 1 ELSE r.head + 1 - Capacity
  BY <1>1, SlotIs, RingAssumption
<1>4. n \in RingType(B)
  BY <1>1, <1>2, <1>3, RingAssumption DEF RingType
<1>5. ASSUME NEW s \in Slots
      PROVE  n.buf[s] # nil <=> (s + Capacity - n.head) % Capacity < n.size
  <2>1. r.buf[s] # nil <=> (s + Capacity - r.head) % Capacity < r.size
    BY DEF Whole, OnlyEntriesLive
  <2>2. n.buf[s] = IF s = r.head THEN nil ELSE r.buf[s]
    BY <1>1, <1>2
  <2>3. (s + Capacity - n.head) % Capacity =
          IF s = r.head THEN Capacity - 1 ELSE ((s + Capacity - r.head) % Capacity) - 1
    BY <1>1, <1>2, DistanceFromNext
  <2>4. n.size = r.size - 1
    BY <1>2
  <2>5. (s + Capacity - r.head) % Capacity \in Nat
    BY <1>1, DistanceIs, RingAssumption DEF Slots
  <2> QED BY <1>1, <2>1, <2>2, <2>3, <2>4, <2>5, RingAssumption
<1>6. Whole(n, B)
  BY <1>4, <1>5 DEF Whole, OnlyEntriesLive
<1>7. contents(n) = Tail(contents(r))
  <2>1. /\ contents(r) \in Seq(B) /\ Len(contents(r)) = r.size
        /\ contents(n) \in Seq(B) /\ Len(contents(n)) = r.size - 1
    BY <1>2, <1>6, ContentsAre
  <2>2. contents(r) # <<>>
    BY <1>1, <2>1
  <2>3. /\ Tail(contents(r)) \in Seq(B) /\ Len(Tail(contents(r))) = r.size - 1
        /\ \A i \in 1..(r.size - 1) : Tail(contents(r))[i] = contents(r)[i + 1]
    BY <2>1, <2>2, HeadTailProperties
  <2>4. ASSUME NEW i \in 1..(r.size - 1)
        PROVE  contents(n)[i] = contents(r)[i + 1]
    <3>1. i + 1 \in 1..r.size /\ i \in 1..n.size /\ i \in 0..(Capacity - 1) /\ i # 0
      BY <1>1, <1>2, RingAssumption
    <3>2. contents(r)[i + 1] = r.buf[Slot(r.head, i)]
      BY <3>1, ContentsAre
    <3>3. contents(n)[i] = n.buf[Slot(Slot(r.head, 1), i - 1)]
      BY <1>2, <1>6, <3>1, ContentsAre
    <3>4. Slot(Slot(r.head, 1), i - 1) = Slot(r.head, i)
      BY <1>1, <3>1, SlotOfNext
    <3>5. Slot(r.head, i) \in Slots /\ Slot(r.head, i) # r.head
      BY <1>1, <3>1, SlotElsewhere
    <3> QED BY <1>1, <1>2, <3>2, <3>3, <3>4, <3>5
  <2> QED BY <2>1, <2>3, <2>4, SeqEqual
<1>8. n.size = r.size - 1 /\ n.evicted = r.evicted
  BY <1>2
<1> QED BY <1>6, <1>7, <1>8

\* The second half of push, once makeRoom has left m.
LEMMA PushPlaces ==
  ASSUME NEW b, NEW h, NEW z, NEW e, NEW x, NEW r, NEW m, makeRoom(r) = m,
         m = [buf |-> b, head |-> h, size |-> z, evicted |-> e]
  PROVE  push(r, x) = [buf |-> [b EXCEPT ![Slot(h, z)] = x], head |-> h, size |-> z + 1,
                       evicted |-> e]
<1>1. push(r, x) = [m EXCEPT !.buf[Slot(m.head, m.size)] = x, !.size = m.size + 1]
  BY DEF push
<1>2. m.head = h /\ m.size = z
  OBVIOUS
<1>3. PICK k, q, n : k = Slot(h, z) /\ q = z + 1 /\ n = push(r, x)
  OBVIOUS
<1>4. n = [m EXCEPT !.buf[k] = x, !.size = q]
  BY <1>1, <1>2, <1>3
<1>5. n = [buf |-> [b EXCEPT ![k] = x], head |-> h, size |-> q, evicted |-> e]
  <2>1. m = [buf |-> b, head |-> h, size |-> z, evicted |-> e]
    OBVIOUS
  <2> QED BY ONLY <1>4, <2>1
<1> QED BY <1>3, <1>5

LEMMA PushWithRoomIs ==
  ASSUME NEW b, NEW h, NEW z, NEW e, NEW x,
         NEW r, r = [buf |-> b, head |-> h, size |-> z, evicted |-> e], z # Capacity
  PROVE  push(r, x) = [buf |-> [b EXCEPT ![Slot(h, z)] = x], head |-> h, size |-> z + 1,
                       evicted |-> e]
<1>1. makeRoom(r) = r
  BY DEF makeRoom, full
<1> QED BY <1>1, PushPlaces

LEMMA PushWhenFullIs ==
  ASSUME NEW b, NEW h, NEW z, NEW e, NEW x,
         NEW r, r = [buf |-> b, head |-> h, size |-> z, evicted |-> e], z = Capacity
  PROVE  push(r, x) = [buf |-> [b EXCEPT ![Slot(Slot(h, 1), z - 1)] = x],
                       head |-> Slot(h, 1), size |-> z - 1 + 1, evicted |-> e + 1]
<1>1. full(r)
  BY DEF full
<1>2. makeRoom(r) = [buf |-> b, head |-> Slot(h, 1), size |-> z - 1, evicted |-> e + 1]
  BY <1>1 DEF makeRoom
<1> QED BY <1>2, PushPlaces

LEMMA PushWithRoomAppends ==
  ASSUME NEW B, nil \notin B, NEW r, Whole(r, B), NEW x \in B, ~full(r)
  PROVE  /\ Whole(push(r, x), B)
         /\ contents(push(r, x)) = Append(contents(r), x)
         /\ push(r, x).size = r.size + 1
         /\ push(r, x).evicted = r.evicted
<1> DEFINE n == push(r, x)
           new == Slot(r.head, r.size)
<1>1. /\ r.buf \in [Slots -> B \cup {nil}] /\ r.head \in Slots
      /\ r.size \in 0..Capacity /\ r.evicted \in Nat /\ r.size \in Nat
      /\ r = [buf |-> r.buf, head |-> r.head, size |-> r.size, evicted |-> r.evicted]
  BY FieldsOfRing
<1>2. r.size # Capacity
  BY DEF full
<1>3. n = [buf |-> [r.buf EXCEPT ![new] = x], head |-> r.head, size |-> r.size + 1,
           evicted |-> r.evicted]
  BY ONLY <1>1, <1>2, PushWithRoomIs
<1>4. /\ new \in Slots /\ r.size \in 0..(Capacity - 1)
      /\ (new + Capacity - r.head) % Capacity = r.size
  <2>1. r.size \in 0..(Capacity - 1)
    BY <1>1, <1>2, RingAssumption
  <2> QED BY <1>1, <2>1, SlotIs, DistanceOfSlot
<1>5. n \in RingType(B)
  <2>1. r.size + 1 \in 0..Capacity
    BY <1>4, RingAssumption
  <2> QED BY <1>1, <1>3, <1>4, <2>1 DEF RingType
<1>6. ASSUME NEW s \in Slots
      PROVE  n.buf[s] # nil <=> (s + Capacity - n.head) % Capacity < n.size
  <2>1. r.buf[s] # nil <=> (s + Capacity - r.head) % Capacity < r.size
    BY DEF Whole, OnlyEntriesLive
  <2>2. n.buf[s] = IF s = new THEN x ELSE r.buf[s]
    BY <1>1, <1>3, <1>4
  <2>3. s # new => (s + Capacity - r.head) % Capacity # r.size
    BY <1>1, <1>4, SlotAtDistance
  <2>4. (s + Capacity - r.head) % Capacity \in Nat
    BY <1>1, DistanceIs, RingAssumption DEF Slots
  <2>5. n.head = r.head /\ n.size = r.size + 1
    BY <1>3
  <2> QED BY <1>1, <1>4, <2>1, <2>2, <2>3, <2>4, <2>5
<1>7. Whole(n, B)
  BY <1>5, <1>6 DEF Whole, OnlyEntriesLive
<1>8. contents(n) = Append(contents(r), x)
  <2>1. /\ contents(r) \in Seq(B) /\ Len(contents(r)) = r.size
        /\ contents(n) \in Seq(B) /\ Len(contents(n)) = r.size + 1
    BY <1>3, <1>7, ContentsAre
  <2>2. /\ Append(contents(r), x) \in Seq(B) /\ Len(Append(contents(r), x)) = r.size + 1
        /\ \A i \in 1..r.size : Append(contents(r), x)[i] = contents(r)[i]
        /\ Append(contents(r), x)[r.size + 1] = x
    BY <2>1, AppendProperties
  <2>3. ASSUME NEW i \in 1..(r.size + 1)
        PROVE  contents(n)[i] = Append(contents(r), x)[i]
    <3>1. i \in 1..n.size /\ i - 1 \in 0..(Capacity - 1) /\ i - 1 \in 0..Capacity
      BY <1>3, <1>4, RingAssumption
    <3>2. contents(n)[i] = n.buf[Slot(r.head, i - 1)] /\ Slot(r.head, i - 1) \in Slots
      BY <1>1, <1>3, <1>7, <3>1, ContentsAre, SlotIs
    <3>3. CASE i = r.size + 1
      <4>1. i - 1 = r.size
        BY <1>1, <3>3
      <4> QED BY <1>1, <1>3, <2>2, <3>2, <3>3, <4>1
    <3>4. CASE i # r.size + 1
      <4>1. i \in 1..r.size
        BY <1>1, <3>4
      <4>2. Slot(r.head, i - 1) # new
        <5>1. (Slot(r.head, i - 1) + Capacity - r.head) % Capacity = i - 1
          BY <1>1, <3>1, DistanceOfSlot
        <5> QED BY <1>1, <1>4, <4>1, <5>1
      <4>3. contents(r)[i] = r.buf[Slot(r.head, i - 1)]
        BY <4>1, ContentsAre
      <4> QED BY <1>1, <1>3, <2>2, <3>2, <4>1, <4>2, <4>3
    <3> QED BY <3>3, <3>4
  <2> QED BY <2>1, <2>2, <2>3, SeqEqual
<1>9. n.size = r.size + 1 /\ n.evicted = r.evicted
  BY <1>3
<1> QED BY <1>7, <1>8, <1>9

LEMMA PushWhenFullEvicts ==
  ASSUME NEW B, nil \notin B, NEW r, Whole(r, B), NEW x \in B, full(r)
  PROVE  /\ Whole(push(r, x), B)
         /\ contents(push(r, x)) = Append(Tail(contents(r)), x)
         /\ push(r, x).size = r.size
         /\ push(r, x).evicted = r.evicted + 1
<1> DEFINE n == push(r, x)
           next == Slot(r.head, 1)
<1>1. /\ r.buf \in [Slots -> B \cup {nil}] /\ r.head \in Slots
      /\ r.size \in 0..Capacity /\ r.evicted \in Nat /\ r.size \in Nat
      /\ r = [buf |-> r.buf, head |-> r.head, size |-> r.size, evicted |-> r.evicted]
  BY FieldsOfRing
<1>2. r.size = Capacity
  BY DEF full
<1>3. next \in Slots /\ Slot(next, Capacity - 1) = r.head
  BY <1>1, SlotOfLast
<1>4. n = [buf |-> [r.buf EXCEPT ![r.head] = x], head |-> next, size |-> Capacity,
           evicted |-> r.evicted + 1]
  <2>1. n = [buf |-> [r.buf EXCEPT ![Slot(next, r.size - 1)] = x],
             head |-> next, size |-> r.size - 1 + 1, evicted |-> r.evicted + 1]
    BY ONLY <1>1, <1>2, PushWhenFullIs
  <2>2. r.size - 1 + 1 = Capacity
    BY <1>2, RingAssumption
  <2> QED BY <1>2, <1>3, <2>1, <2>2
<1>5. n \in RingType(B)
  BY <1>1, <1>3, <1>4, RingAssumption DEF RingType
<1>6. ASSUME NEW s \in Slots
      PROVE  n.buf[s] # nil <=> (s + Capacity - n.head) % Capacity < n.size
  <2>1. /\ (s + Capacity - r.head) % Capacity < Capacity
        /\ (s + Capacity - next) % Capacity < Capacity
    BY <1>1, <1>3, DistanceInRing
  <2>2. r.buf[s] # nil
    BY <1>2, <2>1 DEF Whole, OnlyEntriesLive
  <2>3. n.buf[s] = IF s = r.head THEN x ELSE r.buf[s]
    BY <1>1, <1>4
  <2>4. n.head = next /\ n.size = Capacity
    BY <1>4
  <2> QED BY <2>1, <2>2, <2>3, <2>4
<1>7. Whole(n, B)
  BY <1>5, <1>6 DEF Whole, OnlyEntriesLive
<1>8. contents(n) = Append(Tail(contents(r)), x)
  <2>1. /\ contents(r) \in Seq(B) /\ Len(contents(r)) = Capacity
        /\ contents(n) \in Seq(B) /\ Len(contents(n)) = Capacity
    BY <1>2, <1>4, <1>7, ContentsAre
  <2>2. contents(r) # <<>>
    BY <2>1, RingAssumption
  <2> DEFINE rest == Tail(contents(r))
  <2>3. /\ rest \in Seq(B) /\ Len(rest) = Capacity - 1
        /\ \A i \in 1..(Capacity - 1) : rest[i] = contents(r)[i + 1]
    BY <2>1, <2>2, HeadTailProperties
  <2>4. /\ Append(rest, x) \in Seq(B) /\ Len(Append(rest, x)) = Capacity - 1 + 1
        /\ \A i \in 1..(Capacity - 1) : Append(rest, x)[i] = rest[i]
        /\ Append(rest, x)[Capacity - 1 + 1] = x
    BY <2>3, AppendProperties
  <2>5. Capacity - 1 + 1 = Capacity
    BY RingAssumption
  <2>6. ASSUME NEW i \in 1..Capacity
        PROVE  contents(n)[i] = Append(rest, x)[i]
    <3>1. i \in 1..n.size /\ i - 1 \in 0..(Capacity - 1)
      BY <1>4, RingAssumption
    <3>2. contents(n)[i] = n.buf[Slot(next, i - 1)]
      BY <1>4, <1>7, <3>1, ContentsAre
    <3>3. CASE i = Capacity
      BY <1>1, <1>3, <1>4, <2>4, <2>5, <3>2, <3>3
    <3>4. CASE i # Capacity
      <4>1. i \in 1..(Capacity - 1) /\ i + 1 \in 1..r.size /\ (i + 1) - 1 = i
        BY <1>2, <3>4, RingAssumption
      <4>2. Slot(next, i - 1) = Slot(r.head, i)
        BY <1>1, <4>1, SlotOfNext
      <4>3. Slot(r.head, i) \in Slots /\ Slot(r.head, i) # r.head
        BY <1>1, <4>1, SlotElsewhere
      <4>4. contents(r)[i + 1] = r.buf[Slot(r.head, i)]
        BY <4>1, ContentsAre
      <4> QED BY <1>1, <1>4, <2>3, <2>4, <3>2, <4>1, <4>2, <4>3, <4>4
    <3> QED BY <3>3, <3>4
  <2> QED BY <2>1, <2>4, <2>5, <2>6, SeqEqual
<1>9. n.size = r.size /\ n.evicted = r.evicted + 1
  BY <1>2, <1>4
<1> QED BY <1>7, <1>8, <1>9

-----------------------------------------------------------------------------
(* The inductive invariant, in parts.                                       *)

\* The batches still to be dealt with, the oldest first.
Queue == contents(ring) \o InHand

PushPcs == {"idle", "waiting", "drain", "sending", "sendingFresh", "process",
            "sendingProcess", "sync", "stopped"}
StopPcs == {"off", "waiting", "drain", "sending", "close", "count", "stopped"}
Fates   == {"none", "empty", "pending", "delivered", "refused", "evicted"}

Types ==
    /\ pc \in [Procs -> PushPcs \cup StopPcs]
    /\ pc["push"] \in PushPcs /\ pc["stop"] \in StopPcs
    /\ spent \in [Procs -> BOOLEAN] /\ item \in [Procs -> Batches \cup {NoBatch}]
    /\ rt \in [Procs -> {"none", "pending", "skipped", "lost"} \cup Answers]
    /\ cycle \in 0..MaxCycles /\ fresh \in Batches \cup {NoBatch}
    /\ errs \subseteq {"refused", "drain", "send"} /\ failing \in BOOLEAN
    /\ Whole(ring, Batches) /\ refused \in Nat
    /\ token \in {"free"} \cup Procs /\ last \in {"none"} \cup Answers
    /\ closed \in BOOLEAN /\ drainErr \in BOOLEAN /\ joinFirst \in BOOLEAN /\ left \in Nat \cup {-1}
    /\ metrics \in [buffered : 0..Capacity, dropped : Nat, ok : Nat, failed : Nat]
    /\ fate \in [Batches -> Fates]
    /\ stored \in Batches \cup {NoBatch} /\ turnedDown \in Batches \cup {NoBatch}

\* drainToken is with whoever drains, or sends the fresh batch.
TokenHeld == \A p \in Procs : token = p <=> pc[p] \in {"drain", "sending", "sendingFresh"}

\* The batch on its way is the first of the line, what was answered ok is stored, and
\* the fresh batch goes out over an empty ring only.
InFlight ==
    /\ \A p \in Procs : /\ pc[p] = "sending" => len(ring) > 0 /\ item[p] = oldest(ring)
                        /\ pc[p] \notin {"sending", "sendingFresh"} => item[p] = NoBatch
                        /\ pc[p] \in {"sending", "sendingFresh"} /\ rt[p] = "ok" => stored = item[p]
    /\ pc["push"] = "sendingFresh" => len(ring) = 0 /\ fresh # NoBatch /\ item["push"] = fresh
    /\ pc["push"] \in {"idle", "process", "sendingProcess", "sync", "stopped"} => fresh = NoBatch

\* q is the line of batches after c cycles that ended as f says.
LineOf(q, c, f) ==
    /\ \A i, j \in 1..Len(q) : i < j => q[i] < q[j]
    /\ \A i \in 1..Len(q) : q[i] <= c
    /\ \A b \in Batches : f[b] = "pending" <=> \E i \in 1..Len(q) : q[i] = b
    /\ \A b \in Batches : b > c => f[b] = "none"

Line == LineOf(Queue, cycle, fate)

\* The batches that came to one of these ends.
Fated(f, kinds) == {b \in Batches : f[b] \in kinds}

Tally ==
    /\ Dropped = Cardinality(Fated(fate, {"refused", "evicted"}))
    /\ metrics.ok = Cardinality(Fated(fate, {"delivered"}))

\* syncBuffer has just run whenever no cycle is under way and the stop has not begun.
Books ==
    /\ metrics.dropped <= Dropped
    /\ pc["push"] \in {"idle", "stopped"} /\ pc["stop"] = "off"
         => metrics.dropped = Dropped /\ metrics.buffered = len(ring)

\* A Push that met no error but refusals has drained the ring.
Errors ==
    /\ pc["push"] \in {"idle", "stopped", "waiting", "drain", "sending", "sendingFresh"}
          => errs \subseteq {"refused"}
    /\ pc["push"] \in {"idle", "stopped"} => errs = {} /\ (~failing => len(ring) = 0)
    /\ pc["push"] \in {"process", "sendingProcess", "sync"} /\ errs \subseteq {"refused"}
          => len(ring) = 0

\* What Shutdown counted, once it has counted, is what is there.
Left ==
    /\ joinFirst /\ pc["stop"] # "off" => pc["push"] = "stopped"
    /\ pc["stop"] \in {"close", "count", "stopped"} =>
          /\ left # 0 => drainErr
          /\ joinFirst => left \in {-1, len(ring)}
    /\ pc["stop"] = "stopped" /\ joinFirst => left = len(ring)

\* A refusal on record is that of the batch on its way: send resets it first.
Answered ==
    \A p \in Procs : joinFirst /\ pc[p] \in {"sending", "sendingFresh"} /\ last = "refused"
                       => turnedDown = item[p]

IInv == Types /\ TokenHeld /\ InFlight /\ Line /\ Tally /\ Books /\ Errors /\ Left
        /\ Answered

USE DEF pushVars, stopVars, history, Procs, NoBatch

-----------------------------------------------------------------------------
(* Types.                                                                   *)

LEMMA NilIsNoBatch == nil \notin Batches
BY DEF nil, Batches

LEMMA TypesInit == Init => Types
<1> SUFFICES ASSUME Init PROVE Types
  OBVIOUS
<1>1. Whole(ring, Batches)
  BY NewRingIsEmpty DEF Init
<1>2. pc \in [Procs -> PushPcs \cup StopPcs] /\ pc["push"] \in PushPcs /\ pc["stop"] \in StopPcs
  BY DEF Init, PushPcs, StopPcs
<1>3. metrics \in [buffered : 0..Capacity, dropped : Nat, ok : Nat, failed : Nat]
  BY RingAssumption DEF Init
<1>4. fate \in [Batches -> Fates]
  BY DEF Init, Fates, Batches
<1>5. /\ spent \in [Procs -> BOOLEAN] /\ item \in [Procs -> Batches \cup {NoBatch}]
      /\ rt \in [Procs -> {"none", "pending", "skipped", "lost"} \cup Answers]
  BY DEF Init
<1>6. cycle \in 0..MaxCycles /\ joinFirst \in BOOLEAN
  BY SenderAssumption DEF Init
<1> QED BY <1>1, <1>2, <1>3, <1>4, <1>5, <1>6 DEF Init, Types

\* What the methods of the ring leave, when they are called.
LEMMA RingTypes ==
  ASSUME Types
  PROVE  /\ len(ring) \in Nat /\ len(ring) \in 0..Capacity /\ ring.evicted \in Nat
         /\ len(ring) > 0 => /\ oldest(ring) \in Batches
                             /\ Whole(removeOldest(ring), Batches)
         /\ \A b \in Batches : Whole(push(ring, b), Batches)
BY RingAssumption, NilIsNoBatch, FieldsOfRing, OldestIsFirst, RemoveOldestTakesTheHead,
   PushWithRoomAppends, PushWhenFullEvicts DEF Types, len

LEMMA TypesStep ==
  ASSUME Types, InFlight, [Next]_vars
  PROVE  Types'
<1> USE DEF Types, PushPcs, StopPcs, Fates, Answers
<1>0. CASE UNCHANGED vars
  BY <1>0 DEF vars
<1>1. CASE PushCollects
  <2>1. cycle + 1 \in Batches /\ cycle + 1 \in 0..MaxCycles
    BY <1>1, SenderAssumption DEF PushCollects, LastCycle, Batches
  <2> QED BY <1>1, <2>1 DEF PushCollects, Held
<1>2. CASE CollectFails
  <2>1. cycle + 1 \in Batches /\ cycle + 1 \in 0..MaxCycles
    BY <1>2, SenderAssumption DEF CollectFails, LastCycle, Batches
  <2> QED BY <1>2, <2>1 DEF CollectFails, Held
<1>3. CASE PollerDone
  BY <1>3 DEF PollerDone, Held
<1>4. CASE StopBegins
  BY <1>4 DEF StopBegins, Resting
<1>5. CASE PushTakesToken
  BY <1>5 DEF PushTakesToken, Held
<1>6. ASSUME NEW p \in Procs, DrainNext(p)
      PROVE  Types'
  BY <1>6, RingTypes DEF DrainNext, send, Export
<1>7. ASSUME NEW p \in Procs, DrainedOne(p)
      PROVE  Types'
  BY <1>7, RingTypes DEF DrainedOne, SendSucceeds, SendRefused, Counted, Met, EndExport, InFlight
<1>8. CASE PushDrainFails
  BY <1>8, RingTypes DEF PushDrainFails, SendFails, EndExport, Counted, Met, Keep, Free
<1>9. CASE PushSendsFresh \/ PushHasNothingFresh
  <2>1. CASE PushSendsFresh
    BY <2>1 DEF PushSendsFresh, send, Export, Held
  <2>2. CASE PushHasNothingFresh
    BY <2>2 DEF PushHasNothingFresh, Held, Free
  <2> QED BY <1>9, <2>1, <2>2
<1>10. CASE FreshDone
  BY <1>10 DEF FreshDone, SendSucceeds, SendRefused, Counted, Met, EndExport, Free
<1>11. CASE FreshKept
  <2>1. fresh \in Batches
    BY <1>11 DEF FreshKept, InFlight
  <2>2. Whole(ring', Batches)
    BY <1>11, <2>1, RingTypes DEF FreshKept, Keep
  <2>3. fate' \in [Batches -> Fates]
    BY <1>11 DEF FreshKept, Keep
  <2>4. metrics' \in [buffered : 0..Capacity, dropped : Nat, ok : Nat, failed : Nat]
    BY <1>11 DEF FreshKept, SendFails, Counted
  <2> QED BY <1>11, <2>2, <2>3, <2>4 DEF FreshKept, SendFails, EndExport, Met, Free
<1>12. CASE PushSendsProcess \/ PushSkipsProcess \/ ProcessDone
  <2>1. CASE PushSendsProcess
    BY <2>1 DEF PushSendsProcess, Export, Held
  <2>2. CASE PushSkipsProcess
    BY <2>2 DEF PushSkipsProcess, Held
  <2>3. CASE ProcessDone
    BY <2>3 DEF ProcessDone, EndExport, Held
  <2> QED BY <1>12, <2>1, <2>2, <2>3
<1>13. CASE PushReports
  <2>1. Dropped \in Nat
    BY RingTypes DEF Dropped
  <2>2. metrics' \in [buffered : 0..Capacity, dropped : Nat, ok : Nat, failed : Nat]
    BY <1>13, <2>1, RingTypes DEF PushReports
  <2>3. report \in BOOLEAN
    BY DEF report
  <2> QED BY <1>13, <2>2, <2>3 DEF PushReports, Held
<1>14. CASE StopTakesToken \/ StopGivesUp \/ StopDrained
  <2>1. CASE StopTakesToken
    BY <2>1 DEF StopTakesToken, Resting
  <2>2. CASE StopGivesUp
    BY <2>2 DEF StopGivesUp, Resting
  <2>3. CASE StopDrained
    BY <2>3 DEF StopDrained, Resting, Free
  <2> QED BY <1>14, <2>1, <2>2, <2>3
<1>15. CASE StopDrainFails
  BY <1>15, RingTypes DEF StopDrainFails, SendFails, EndExport, Counted, Met, Free
<1>16. CASE StopCloses \/ StopCounts
  <2>1. CASE StopCloses
    BY <2>1 DEF StopCloses, Resting
  <2>2. CASE StopCounts
    BY <2>2, RingTypes DEF StopCounts, Resting
  <2> QED BY <1>16, <2>1, <2>2
<1>17. ASSUME NEW p \in Procs, RoundTrip(p)
       PROVE  Types'
  BY <1>17 DEF RoundTrip
<1>18. ASSUME NEW p \in Procs, ContextEnds(p)
       PROVE  Types'
  BY <1>18 DEF ContextEnds, Resting
<1> QED BY <1>0, <1>1, <1>2, <1>3, <1>4, <1>5, <1>6, <1>7, <1>8, <1>9, <1>10, <1>11, <1>12,
           <1>13, <1>14, <1>15, <1>16, <1>17, <1>18 DEF Next, Push, Shutdown

-----------------------------------------------------------------------------
(* The drain token.                                                         *)

LEMMA TokenStep ==
  ASSUME Types, TokenHeld, [Next]_vars
  PROVE  TokenHeld'
<1> USE DEF Types, TokenHeld
<1>0. CASE UNCHANGED vars
  BY <1>0 DEF vars
<1>1. CASE PushCollects \/ CollectFails \/ PollerDone \/ StopBegins
  BY <1>1 DEF PushCollects, CollectFails, PollerDone, StopBegins
<1>2. CASE PushTakesToken \/ PushDrainFails \/ PushHasNothingFresh \/ FreshDone \/ FreshKept
  BY <1>2 DEF PushTakesToken, PushDrainFails, PushHasNothingFresh, FreshDone, FreshKept, Free
<1>3. CASE PushSendsFresh \/ PushSendsProcess \/ PushSkipsProcess \/ ProcessDone \/ PushReports
  BY <1>3 DEF PushSendsFresh, PushSendsProcess, PushSkipsProcess, ProcessDone, PushReports,
              send, Export
<1>4. CASE StopTakesToken \/ StopDrainFails \/ StopDrained
  BY <1>4 DEF StopTakesToken, StopDrainFails, StopDrained, Free
<1>5. CASE StopGivesUp \/ StopCloses \/ StopCounts
  BY <1>5 DEF StopGivesUp, StopCloses, StopCounts
<1>6. ASSUME NEW p \in Procs, DrainNext(p) \/ DrainedOne(p)
      PROVE  TokenHeld'
  BY <1>6 DEF DrainNext, DrainedOne, send, Export
<1>7. ASSUME NEW p \in Procs, RoundTrip(p) \/ ContextEnds(p)
      PROVE  TokenHeld'
  BY <1>7 DEF RoundTrip, ContextEnds
<1> QED BY <1>0, <1>1, <1>2, <1>3, <1>4, <1>5, <1>6, <1>7 DEF Next, Push, Shutdown

\* A holder of the token has it alone.
LEMMA OneHolder ==
  ASSUME TokenHeld, NEW p \in Procs, NEW q \in Procs,
         pc[p] \in {"drain", "sending", "sendingFresh"},
         pc[q] \in {"drain", "sending", "sendingFresh"}
  PROVE  p = q
BY DEF TokenHeld

-----------------------------------------------------------------------------
(* What is on its way.                                                      *)

LEMMA InFlightStep ==
  ASSUME Types, TokenHeld, InFlight, [Next]_vars
  PROVE  InFlight'
<1> USE DEF Types, InFlight
<1>0. CASE UNCHANGED vars
  BY <1>0 DEF vars
<1>1. CASE PushCollects \/ CollectFails \/ PollerDone \/ StopBegins
  BY <1>1 DEF PushCollects, CollectFails, PollerDone, StopBegins, Held, Resting
<1>2. CASE PushTakesToken \/ PushSendsFresh \/ PushHasNothingFresh
  BY <1>2 DEF PushTakesToken, PushSendsFresh, PushHasNothingFresh, send, Export, Held, Free
<1>3. ASSUME NEW p \in Procs, DrainNext(p)
      PROVE  InFlight'
  BY <1>3, OneHolder DEF DrainNext, send, Export
<1>4. ASSUME NEW p \in Procs, DrainedOne(p)
      PROVE  InFlight'
  BY <1>4, OneHolder DEF DrainedOne, EndExport
<1>5. CASE PushDrainFails
  BY <1>5, OneHolder DEF PushDrainFails, EndExport
<1>6. CASE FreshDone \/ FreshKept
  BY <1>6, OneHolder DEF FreshDone, FreshKept, EndExport
<1>7. CASE PushSendsProcess \/ PushSkipsProcess \/ ProcessDone \/ PushReports
  BY <1>7 DEF PushSendsProcess, PushSkipsProcess, ProcessDone, PushReports, Export, EndExport,
              Held
<1>8. CASE StopTakesToken \/ StopGivesUp \/ StopDrained
  BY <1>8 DEF StopTakesToken, StopGivesUp, StopDrained, Resting
<1>9. CASE StopDrainFails \/ StopCloses \/ StopCounts
  <2>1. CASE StopDrainFails
    BY <2>1, OneHolder DEF StopDrainFails, EndExport
  <2>2. CASE StopCloses
    BY <2>2 DEF StopCloses, Resting
  <2>3. CASE StopCounts
    BY <2>3 DEF StopCounts, Resting
  <2> QED BY <1>9, <2>1, <2>2, <2>3
<1>10. ASSUME NEW p \in Procs, RoundTrip(p)
       PROVE  InFlight'
  <2>1. UNCHANGED <<pc, item, ring, fresh>>
    BY <1>10 DEF RoundTrip
  <2>2. \A q \in Procs : q # p => rt'[q] = rt[q]
    BY <1>10 DEF RoundTrip
  <2>3. rt'[p] = "ok" => stored' = IF item[p] # NoBatch THEN item[p] ELSE stored
    BY <1>10 DEF RoundTrip
  <2>4. stored' \in {stored, item[p]} /\ (item[p] = NoBatch => stored' = stored)
    BY <1>10 DEF RoundTrip
  <2>5. pc[p] \in {"sending", "sendingFresh"} => item[p] # NoBatch
    BY RingTypes, NilIsNoBatch DEF StopPcs
  <2>6. ASSUME NEW q \in Procs, pc[q] \in {"sending", "sendingFresh"}, rt'[q] = "ok"
        PROVE  stored' = item[q]
    BY <2>2, <2>3, <2>4, <2>5, <2>6, OneHolder
  <2> QED BY <2>1, <2>6
<1>11. ASSUME NEW p \in Procs, ContextEnds(p)
       PROVE  InFlight'
  BY <1>11 DEF ContextEnds, Resting
<1> QED BY <1>0, <1>1, <1>2, <1>3, <1>4, <1>5, <1>6, <1>7, <1>8, <1>9, <1>10, <1>11
        DEF Next, Push, Shutdown

-----------------------------------------------------------------------------
(* What report is told, what Shutdown counts, whose answer last is.         *)

LEMMA ErrorsStep ==
  ASSUME Types, TokenHeld, InFlight, Errors, [Next]_vars
  PROVE  Errors'
<1> USE DEF Types, Errors
<1>0. CASE UNCHANGED vars
  BY <1>0 DEF vars
<1>1. CASE PushCollects \/ CollectFails \/ PollerDone \/ StopBegins
  BY <1>1 DEF PushCollects, CollectFails, PollerDone, StopBegins, Held, Resting
<1>2. CASE PushTakesToken \/ PushSendsFresh \/ PushHasNothingFresh
  BY <1>2 DEF PushTakesToken, PushSendsFresh, PushHasNothingFresh, send, Export, Held, Free
<1>3. ASSUME NEW p \in Procs, DrainNext(p)
      PROVE  Errors'
  BY <1>3 DEF DrainNext, send, Export
<1>4. ASSUME NEW p \in Procs, DrainedOne(p)
      PROVE  Errors'
  <2>1. len(ring) > 0 /\ pc[p] = "sending" /\ pc' = [pc EXCEPT ![p] = "drain"]
    BY <1>4 DEF InFlight, DrainedOne
  <2>2. errs' \in {errs, errs \cup {"refused"}} /\ (p # "push" => errs' = errs)
    BY <1>4 DEF DrainedOne, SendSucceeds, SendRefused, Met
  <2>3. failing' = failing
    BY <1>4 DEF DrainedOne
  <2>4. CASE p = "push"
    BY <2>1, <2>2, <2>3, <2>4
  <2>5. CASE p = "stop"
    BY <2>1, <2>2, <2>3, <2>5, RingTypes
  <2> QED BY <2>4, <2>5
<1>5. CASE PushDrainFails
  BY <1>5 DEF PushDrainFails, SendFails, Met
<1>6. CASE FreshDone
  BY <1>6 DEF FreshDone, InFlight, SendSucceeds, SendRefused, Met
<1>7. CASE FreshKept
  BY <1>7 DEF FreshKept, SendFails, Met
<1>8. CASE PushSendsProcess \/ PushSkipsProcess \/ ProcessDone
  BY <1>8 DEF PushSendsProcess, PushSkipsProcess, ProcessDone, Export, Held
<1>9. CASE PushReports
  BY <1>9 DEF PushReports, report
<1>10. CASE StopTakesToken \/ StopGivesUp \/ StopDrained
  BY <1>10 DEF StopTakesToken, StopGivesUp, StopDrained, Resting
<1>11. CASE StopDrainFails
  BY <1>11 DEF StopDrainFails, SendFails, Met
<1>12. CASE StopCloses \/ StopCounts
  BY <1>12 DEF StopCloses, StopCounts, Resting
<1>13. ASSUME NEW p \in Procs, RoundTrip(p) \/ ContextEnds(p)
       PROVE  Errors'
  BY <1>13 DEF RoundTrip, ContextEnds, Resting
<1> QED BY <1>0, <1>1, <1>2, <1>3, <1>4, <1>5, <1>6, <1>7, <1>8, <1>9, <1>10, <1>11, <1>12,
           <1>13 DEF Next, Push, Shutdown

LEMMA LeftStep ==
  ASSUME Types, TokenHeld, Left, [Next]_vars
  PROVE  Left'
<1> USE DEF Types, Left
<1>0. CASE UNCHANGED vars
  BY <1>0 DEF vars
<1>1. CASE PushCollects \/ CollectFails \/ PollerDone
  BY <1>1 DEF PushCollects, CollectFails, PollerDone, Held
<1>2. CASE StopBegins
  BY <1>2 DEF StopBegins, Resting
<1>3. CASE PushTakesToken \/ PushSendsFresh \/ PushHasNothingFresh
  BY <1>3 DEF PushTakesToken, PushSendsFresh, PushHasNothingFresh, send, Export, Held
<1>4. ASSUME NEW p \in Procs, DrainNext(p)
      PROVE  Left'
  BY <1>4 DEF DrainNext, send, Export
<1>5. ASSUME NEW p \in Procs, DrainedOne(p)
      PROVE  Left'
  BY <1>5 DEF DrainedOne
<1>6. CASE PushDrainFails \/ FreshDone \/ FreshKept
  BY <1>6 DEF PushDrainFails, FreshDone, FreshKept
<1>7. CASE PushSendsProcess \/ PushSkipsProcess \/ ProcessDone \/ PushReports
  BY <1>7 DEF PushSendsProcess, PushSkipsProcess, ProcessDone, PushReports, Export, Held
<1>8. CASE StopTakesToken
  BY <1>8 DEF StopTakesToken, Resting
<1>9. CASE StopGivesUp
  BY <1>9 DEF StopGivesUp, Resting
<1>10. CASE StopDrained
  BY <1>10 DEF StopDrained, Resting
<1>11. CASE StopDrainFails
  BY <1>11, RingTypes DEF StopDrainFails
<1>12. CASE StopCloses
  BY <1>12 DEF StopCloses, Resting
<1>13. CASE StopCounts
  BY <1>13, RingTypes DEF StopCounts, Resting
<1>14. ASSUME NEW p \in Procs, RoundTrip(p) \/ ContextEnds(p)
       PROVE  Left'
  BY <1>14 DEF RoundTrip, ContextEnds, Resting
<1> QED BY <1>0, <1>1, <1>2, <1>3, <1>4, <1>5, <1>6, <1>7, <1>8, <1>9, <1>10, <1>11, <1>12,
           <1>13, <1>14 DEF Next, Push, Shutdown

LEMMA AnsweredStep ==
  ASSUME Types, TokenHeld, InFlight, Left, Answered, [Next]_vars
  PROVE  Answered'
<1> USE DEF Types, Answered
<1>0. CASE UNCHANGED vars
  BY <1>0 DEF vars
<1>1. CASE PushCollects \/ CollectFails \/ PollerDone \/ StopBegins
  BY <1>1 DEF PushCollects, CollectFails, PollerDone, StopBegins, Held, Resting
<1>2. CASE PushTakesToken \/ PushHasNothingFresh
  BY <1>2 DEF PushTakesToken, PushHasNothingFresh, Held
<1>3. CASE PushSendsFresh
  BY <1>3 DEF PushSendsFresh, send, Export, Held
<1>4. ASSUME NEW p \in Procs, DrainNext(p)
      PROVE  Answered'
  BY <1>4 DEF DrainNext, send, Export
<1>5. ASSUME NEW p \in Procs, DrainedOne(p)
      PROVE  Answered'
  BY <1>5, OneHolder DEF DrainedOne, EndExport
<1>6. CASE PushDrainFails \/ FreshDone \/ FreshKept
  BY <1>6, OneHolder DEF PushDrainFails, FreshDone, FreshKept, EndExport
<1>7. CASE PushSendsProcess \/ PushSkipsProcess \/ ProcessDone \/ PushReports
  BY <1>7 DEF PushSendsProcess, PushSkipsProcess, ProcessDone, PushReports, Export, EndExport,
              Held
<1>8. CASE StopTakesToken \/ StopGivesUp \/ StopDrained
  BY <1>8 DEF StopTakesToken, StopGivesUp, StopDrained, Resting
<1>9. CASE StopDrainFails
  BY <1>9, OneHolder DEF StopDrainFails, EndExport
<1>10. CASE StopCloses \/ StopCounts
  BY <1>10 DEF StopCloses, StopCounts, Resting
<1>11. ASSUME NEW p \in Procs, RoundTrip(p)
       PROVE  Answered'
  <2>1. /\ UNCHANGED <<joinFirst, pc, item>> /\ Exporting(p)
        /\ last' = "refused" => turnedDown' = item[p]
    BY <1>11 DEF RoundTrip, Answers
  <2>2. ASSUME NEW q \in Procs, joinFirst, pc[q] \in {"sending", "sendingFresh"}
        PROVE  q = p
    BY <2>1, <2>2 DEF Left, Exporting, StopPcs
  <2> QED BY <2>1, <2>2
<1>12. ASSUME NEW p \in Procs, ContextEnds(p)
       PROVE  Answered'
  BY <1>12 DEF ContextEnds, Resting
<1> QED BY <1>0, <1>1, <1>2, <1>3, <1>4, <1>5, <1>6, <1>7, <1>8, <1>9, <1>10, <1>11, <1>12
        DEF Next, Push, Shutdown

-----------------------------------------------------------------------------
(* The line of batches: what any step does to it.                           *)

LEMMA FirstOfTwo ==
  ASSUME NEW S, NEW s \in Seq(S), NEW t \in Seq(S), s # <<>>
  PROVE  s \o t # <<>> /\ Head(s \o t) = s[1] /\ Tail(s \o t) = Tail(s) \o t
<1>1. Len(s) \in Nat \ {0} /\ Len(t) \in Nat
  BY EmptySeq, LenProperties
<1>2. /\ s \o t \in Seq(S) /\ Len(s \o t) = Len(s) + Len(t)
      /\ \A i \in 1..(Len(s) + Len(t)) : (s \o t)[i] = IF i <= Len(s) THEN s[i] ELSE t[i - Len(s)]
  BY ConcatProperties
<1>3. s \o t # <<>>
  BY <1>1, <1>2, EmptySeq
<1>4. Head(s \o t) = s[1]
  BY <1>1, <1>2, <1>3
<1>5. /\ Tail(s) \in Seq(S) /\ Len(Tail(s)) = Len(s) - 1
      /\ \A i \in 1..(Len(s) - 1) : Tail(s)[i] = s[i + 1]
  BY HeadTailProperties
<1>6. /\ Tail(s \o t) \in Seq(S) /\ Len(Tail(s \o t)) = Len(s) + Len(t) - 1
      /\ \A i \in 1..(Len(s) + Len(t) - 1) : Tail(s \o t)[i] = (s \o t)[i + 1]
  BY <1>2, <1>3, HeadTailProperties
<1>7. /\ Tail(s) \o t \in Seq(S) /\ Len(Tail(s) \o t) = Len(s) - 1 + Len(t)
      /\ \A i \in 1..(Len(s) - 1 + Len(t)) :
            (Tail(s) \o t)[i] = IF i <= Len(s) - 1 THEN Tail(s)[i] ELSE t[i - (Len(s) - 1)]
  BY <1>5, ConcatProperties
<1>8. ASSUME NEW i \in 1..(Len(s) + Len(t) - 1)
      PROVE  Tail(s \o t)[i] = (Tail(s) \o t)[i]
  <2>1. i + 1 \in 1..(Len(s) + Len(t)) /\ i \in 1..(Len(s) - 1 + Len(t))
    BY <1>1
  <2>2. CASE i <= Len(s) - 1
    BY <1>1, <1>2, <1>5, <1>6, <1>7, <2>1, <2>2
  <2>3. CASE ~(i <= Len(s) - 1)
    <3>1. ~(i + 1 <= Len(s)) /\ i + 1 - Len(s) = i - (Len(s) - 1)
      BY <1>1, <2>3
    <3> QED BY <1>2, <1>6, <1>7, <2>1, <2>3, <3>1
  <2> QED BY <2>2, <2>3
<1>9. Len(Tail(s \o t)) = Len(Tail(s) \o t)
  BY <1>1, <1>6, <1>7
<1> QED BY <1>1, <1>3, <1>4, <1>6, <1>7, <1>8, <1>9, SeqEqual

LEMMA QueueIs ==
  ASSUME Types
  PROVE  /\ contents(ring) \in Seq(Batches) /\ Len(contents(ring)) = len(ring)
         /\ InHand \in Seq(Batches) /\ Len(InHand) = IF fresh = NoBatch THEN 0 ELSE 1
         /\ Queue \in Seq(Batches) /\ Len(Queue) = len(ring) + Len(InHand)
<1>1. contents(ring) \in Seq(Batches) /\ Len(contents(ring)) = len(ring)
  BY ContentsAre DEF Types, len
<1>2. InHand \in Seq(Batches) /\ Len(InHand) = IF fresh = NoBatch THEN 0 ELSE 1
  BY DEF Types, InHand
<1> QED BY <1>1, <1>2, ConcatProperties DEF Queue

LEMMA HeadOfQueue ==
  ASSUME Types, len(ring) > 0
  PROVE  /\ Queue # <<>> /\ Head(Queue) = oldest(ring) /\ Head(Queue) \in Batches
         /\ Tail(Queue) = Tail(contents(ring)) \o InHand
<1>1. contents(ring) # <<>>
  BY QueueIs
<1>2. oldest(ring) = contents(ring)[1] /\ oldest(ring) \in Batches
  BY OldestIsFirst DEF Types, len
<1> QED BY <1>1, <1>2, QueueIs, FirstOfTwo DEF Queue

LEMMA QueueOfFresh ==
  ASSUME Types, len(ring) = 0, fresh # NoBatch
  PROVE  /\ Queue # <<>> /\ Head(Queue) = fresh /\ Head(Queue) \in Batches
         /\ Queue = <<fresh>> /\ Tail(Queue) = <<>> /\ contents(ring) = <<>>
<1>1. contents(ring) = <<>>
  BY QueueIs, EmptySeq
<1>2. Queue = <<fresh>>
  BY <1>1, QueueIs, ConcatEmptySeq DEF Queue, InHand
<1> QED BY <1>1, <1>2 DEF Types

\* A cycle is collected, with metrics or without.
Collected ==
    /\ cycle + 1 \in Batches /\ cycle' = cycle + 1 /\ Len(Queue) <= Capacity
    /\ \/ Queue' = Append(Queue, cycle + 1) /\ fate' = [fate EXCEPT ![cycle + 1] = "pending"]
       \/ Queue' = Queue /\ fate' = [fate EXCEPT ![cycle + 1] = "empty"]
    /\ ring' = ring /\ refused' = refused /\ stored' = stored /\ metrics' = metrics

\* Nothing is collected and nothing leaves; the receiver may store what is first.
Waits ==
    /\ Queue' = Queue /\ cycle' = cycle /\ fate' = fate
    /\ stored' = stored \/ (Queue # <<>> /\ stored' = Head(Queue))
    /\ ring'.evicted = ring.evicted /\ refused' = refused /\ metrics'.ok = metrics.ok

\* The first of the line comes to its end.
Leaves(how) ==
    /\ Queue # <<>> /\ Head(Queue) \in Batches
    /\ Queue' = Tail(Queue) /\ fate' = [fate EXCEPT ![Head(Queue)] = how]
    /\ cycle' = cycle /\ stored' = stored

IsDelivered ==
    /\ Leaves("delivered") /\ stored = Head(Queue)
    /\ ring'.evicted = ring.evicted /\ refused' = refused /\ metrics'.ok = metrics.ok + 1

IsRefused ==
    /\ Leaves("refused")
    /\ ring'.evicted = ring.evicted /\ refused' = refused + 1 /\ metrics'.ok = metrics.ok

IsEvicted ==
    /\ Leaves("evicted") /\ Len(Queue) > Capacity
    /\ ring'.evicted = ring.evicted + 1 /\ refused' = refused /\ metrics'.ok = metrics.ok

QueueSteps == Waits \/ Collected \/ IsDelivered \/ IsRefused \/ IsEvicted

\* The first batch is the one on its way, and stays first until it is dealt with.
LEMMA OnItsWay ==
  ASSUME Types, InFlight, NEW p \in Procs, pc[p] \in {"sending", "sendingFresh"}
  PROVE  Queue # <<>> /\ item[p] = Head(Queue) /\ Head(Queue) \in Batches
<1>1. CASE pc[p] = "sending"
  BY <1>1, HeadOfQueue DEF InFlight
<1>2. CASE pc[p] = "sendingFresh"
  BY <1>2, QueueOfFresh DEF InFlight, Types, StopPcs
<1> QED BY <1>1, <1>2

LEMMA Untouched ==
  ASSUME ring' = ring, fresh' = fresh, cycle' = cycle, fate' = fate, stored' = stored,
         refused' = refused, metrics'.ok = metrics.ok
  PROVE  Waits
BY DEF Waits, Queue, InHand

\* A full ring and a fresh batch: the head goes, the rest moves up.
LEMMA KeepSteps ==
  ASSUME Types, fresh # NoBatch, Keep(fresh), fresh' = NoBatch
  PROVE  /\ ~full(ring) => Queue' = Queue /\ fate' = fate /\ ring'.evicted = ring.evicted
         /\ full(ring) => /\ Queue # <<>> /\ Head(Queue) \in Batches /\ Len(Queue) > Capacity
                          /\ Queue' = Tail(Queue)
                          /\ fate' = [fate EXCEPT ![Head(Queue)] = "evicted"]
                          /\ ring'.evicted = ring.evicted + 1
<1>1. fresh \in Batches /\ Whole(ring, Batches) /\ ring' = push(ring, fresh)
  BY DEF Types, Keep
<1>2. InHand = <<fresh>> /\ InHand' = <<>>
  BY DEF InHand
<1>3. Queue' = contents(push(ring, fresh)) \o <<>>
  BY <1>1, <1>2 DEF Queue
<1>4. Whole(push(ring, fresh), Batches)
  BY RingTypes, <1>1
<1>5. Queue' = contents(push(ring, fresh))
  BY <1>3, <1>4, ContentsAre, ConcatEmptySeq
<1>6. CASE ~full(ring)
  <2>1. contents(push(ring, fresh)) = Append(contents(ring), fresh)
        /\ push(ring, fresh).evicted = ring.evicted
    BY <1>1, <1>6, NilIsNoBatch, PushWithRoomAppends
  <2>2. Append(contents(ring), fresh) = Queue
    BY <1>1, <1>2, QueueIs, AppendIsConcat DEF Queue
  <2>3. fate' = fate
    BY <1>6 DEF Keep
  <2> QED BY <1>1, <1>5, <1>6, <2>1, <2>2, <2>3
<1>7. CASE full(ring)
  <2>1. len(ring) = Capacity /\ len(ring) > 0
    BY <1>7, RingAssumption DEF full, len
  <2>2. contents(push(ring, fresh)) = Append(Tail(contents(ring)), fresh)
        /\ push(ring, fresh).evicted = ring.evicted + 1
    BY <1>1, <1>7, NilIsNoBatch, PushWhenFullEvicts
  <2>3. contents(ring) # <<>> /\ Tail(contents(ring)) \in Seq(Batches)
    BY <2>1, QueueIs, HeadTailProperties
  <2>4. Append(Tail(contents(ring)), fresh) = Tail(Queue)
    BY <1>1, <1>2, <2>1, <2>3, HeadOfQueue, AppendIsConcat
  <2>5. Queue # <<>> /\ Head(Queue) = oldest(ring) /\ Head(Queue) \in Batches
    BY <2>1, HeadOfQueue
  <2>6. Len(Queue) > Capacity
    BY <1>2, <2>1, QueueIs, RingAssumption
  <2>7. fate' = [fate EXCEPT ![Head(Queue)] = "evicted"]
    BY <1>7, <2>5 DEF Keep
  <2> QED BY <1>1, <1>5, <1>7, <2>2, <2>4, <2>5, <2>6, <2>7
<1> QED BY <1>6, <1>7

LEMMA CollectSteps ==
  ASSUME Types, InFlight, PushCollects \/ CollectFails
  PROVE  Collected
<1>1. cycle + 1 \in Batches
  BY SenderAssumption DEF Types, PushCollects, CollectFails, LastCycle, Batches
<1>2. fresh = NoBatch
  BY DEF InFlight, PushCollects, CollectFails
<1>3. InHand = <<>> /\ Queue = contents(ring) /\ Len(Queue) <= Capacity
  <2>1. InHand = <<>>
    BY <1>2 DEF InHand
  <2>2. Queue = contents(ring)
    BY <2>1, QueueIs, ConcatEmptySeq DEF Queue
  <2> QED BY <2>1, <2>2, QueueIs, RingTypes
<1>4. /\ ring' = ring /\ refused' = refused /\ stored' = stored /\ metrics' = metrics
      /\ cycle' = cycle + 1
  BY DEF PushCollects, CollectFails, Held
<1>5. CASE fresh' = NoBatch /\ fate' = [fate EXCEPT ![cycle + 1] = "empty"]
  <2>1. Queue' = Queue
    BY <1>2, <1>4, <1>5 DEF Queue, InHand
  <2> QED BY <1>1, <1>3, <1>4, <1>5, <2>1 DEF Collected
<1>6. CASE fresh' = cycle + 1 /\ fate' = [fate EXCEPT ![cycle + 1] = "pending"]
  <2>1. InHand' = <<cycle + 1>>
    BY <1>1, <1>6, NilIsNoBatch DEF InHand
  <2>2. Queue' = contents(ring) \o <<cycle + 1>>
    BY <1>4, <2>1 DEF Queue
  <2>3. Queue' = Append(Queue, cycle + 1)
    BY <1>1, <1>3, <2>2, QueueIs, AppendIsConcat
  <2> QED BY <1>1, <1>3, <1>4, <1>6, <2>3 DEF Collected
<1> QED BY <1>2, <1>5, <1>6 DEF PushCollects, CollectFails

LEMMA DrainedOneSteps ==
  ASSUME Types, InFlight, NEW p \in Procs, DrainedOne(p)
  PROVE  IsDelivered \/ IsRefused
<1>1. /\ len(ring) > 0 /\ Queue # <<>> /\ item[p] = Head(Queue) /\ Head(Queue) \in Batches
      /\ pc[p] = "sending"
  BY OnItsWay DEF DrainedOne, InFlight
<1>2. ring' = removeOldest(ring) /\ fresh' = fresh /\ cycle' = cycle /\ stored' = stored
  BY DEF DrainedOne
<1>3. contents(ring') = Tail(contents(ring)) /\ ring'.evicted = ring.evicted
  BY <1>1, <1>2, RemoveOldestTakesTheHead DEF Types, len
<1>4. Queue' = Tail(Queue)
  BY <1>1, <1>2, <1>3, HeadOfQueue DEF Queue, InHand
<1>5. CASE SendSucceeds(p)
  <2>1. stored = Head(Queue)
    BY <1>1, <1>5 DEF SendSucceeds, Sent, InFlight
  <2>2. fate' = [fate EXCEPT ![Head(Queue)] = "delivered"] /\ refused' = refused
    BY <1>1, <1>5 DEF SendSucceeds
  <2>3. metrics'.ok = metrics.ok + 1
    BY <1>5 DEF SendSucceeds, Counted, Types
  <2> QED BY <1>1, <1>2, <1>3, <1>4, <2>1, <2>2, <2>3 DEF IsDelivered, Leaves
<1>6. CASE SendRefused(p)
  <2>1. fate' = [fate EXCEPT ![Head(Queue)] = "refused"] /\ refused' = refused + 1
    BY <1>1, <1>6 DEF SendRefused
  <2>2. metrics'.ok = metrics.ok
    BY <1>6 DEF SendRefused, Counted, Types
  <2> QED BY <1>1, <1>2, <1>3, <1>4, <2>1, <2>2 DEF IsRefused, Leaves
<1> QED BY <1>5, <1>6 DEF DrainedOne

LEMMA FreshDoneSteps ==
  ASSUME Types, InFlight, FreshDone
  PROVE  IsDelivered \/ IsRefused
<1>1. /\ len(ring) = 0 /\ fresh # NoBatch /\ pc["push"] = "sendingFresh"
      /\ item["push"] = Head(Queue)
  BY OnItsWay DEF FreshDone, InFlight
<1>2. ring' = ring /\ fresh' = NoBatch /\ cycle' = cycle /\ stored' = stored
  BY DEF FreshDone
<1>3. /\ Queue # <<>> /\ Head(Queue) \in Batches /\ Tail(Queue) = <<>> /\ contents(ring) = <<>>
  BY <1>1, QueueOfFresh
<1>4. Queue' = Tail(Queue)
  <2>1. Queue' = contents(ring) \o <<>>
    BY <1>2 DEF Queue, InHand
  <2> QED BY <1>3, <2>1, QueueIs, ConcatEmptySeq
<1>5. CASE SendSucceeds("push")
  <2>1. stored = Head(Queue)
    BY <1>1, <1>5 DEF SendSucceeds, Sent, InFlight
  <2>2. fate' = [fate EXCEPT ![Head(Queue)] = "delivered"] /\ refused' = refused
    BY <1>1, <1>5 DEF SendSucceeds
  <2>3. metrics'.ok = metrics.ok + 1
    BY <1>5 DEF SendSucceeds, Counted, Types
  <2> QED BY <1>2, <1>3, <1>4, <2>1, <2>2, <2>3 DEF IsDelivered, Leaves
<1>6. CASE SendRefused("push")
  <2>1. fate' = [fate EXCEPT ![Head(Queue)] = "refused"] /\ refused' = refused + 1
    BY <1>1, <1>6 DEF SendRefused
  <2>2. metrics'.ok = metrics.ok
    BY <1>6 DEF SendRefused, Counted, Types
  <2> QED BY <1>2, <1>3, <1>4, <2>1, <2>2 DEF IsRefused, Leaves
<1> QED BY <1>5, <1>6 DEF FreshDone

LEMMA StepsOfTheQueue ==
  ASSUME Types, InFlight, [Next]_vars
  PROVE  QueueSteps
<1> USE DEF QueueSteps
<1>0. CASE UNCHANGED vars
  BY <1>0, Untouched DEF vars
<1>1. CASE PushCollects \/ CollectFails
  BY <1>1, CollectSteps
<1>2. CASE PollerDone \/ StopBegins
  BY <1>2, Untouched DEF PollerDone, StopBegins, Held, Resting
<1>3. CASE PushTakesToken \/ PushSendsFresh \/ PushHasNothingFresh
  BY <1>3, Untouched DEF PushTakesToken, PushSendsFresh, PushHasNothingFresh, Held
<1>4. ASSUME NEW p \in Procs, DrainNext(p)
      PROVE  QueueSteps
  BY <1>4, Untouched DEF DrainNext
<1>5. ASSUME NEW p \in Procs, DrainedOne(p)
      PROVE  QueueSteps
  BY <1>5, DrainedOneSteps
<1>6. CASE PushDrainFails \/ FreshKept
  <2>1. /\ refused' = refused /\ metrics'.ok = metrics.ok /\ cycle' = cycle
        /\ stored' = stored
    BY <1>6 DEF PushDrainFails, FreshKept, SendFails, Counted, Types
  <2>2. CASE fresh # NoBatch
    <3>1. Keep(fresh) /\ fresh' = NoBatch
      BY <1>6, <2>2 DEF PushDrainFails, FreshKept
    <3> QED BY <2>1, <2>2, <3>1, KeepSteps DEF Waits, IsEvicted, Leaves
  <2>3. CASE fresh = NoBatch
    BY <1>6, <2>1, <2>3, Untouched DEF PushDrainFails, FreshKept, InFlight
  <2> QED BY <2>2, <2>3
<1>7. CASE FreshDone
  BY <1>7, FreshDoneSteps
<1>8. CASE PushSendsProcess \/ PushSkipsProcess \/ ProcessDone
  BY <1>8, Untouched DEF PushSendsProcess, PushSkipsProcess, ProcessDone, Held
<1>9. CASE PushReports
  BY <1>9, Untouched DEF PushReports, Held, Types
<1>10. CASE StopTakesToken \/ StopGivesUp \/ StopDrained \/ StopCloses \/ StopCounts
  BY <1>10, Untouched DEF StopTakesToken, StopGivesUp, StopDrained, StopCloses, StopCounts,
                          Resting
<1>11. CASE StopDrainFails
  BY <1>11, Untouched DEF StopDrainFails, SendFails, Counted, Types
<1>12. ASSUME NEW p \in Procs, RoundTrip(p)
       PROVE  QueueSteps
  <2>1. stored' = stored \/ (item[p] # NoBatch /\ stored' = item[p])
    BY <1>12 DEF RoundTrip
  <2>2. item[p] # NoBatch => Queue # <<>> /\ item[p] = Head(Queue)
    BY OnItsWay DEF InFlight
  <2>3. UNCHANGED <<ring, fresh, cycle, fate, refused, metrics>>
    BY <1>12 DEF RoundTrip
  <2> QED BY <2>1, <2>2, <2>3 DEF Waits, Queue, InHand
<1>13. ASSUME NEW p \in Procs, ContextEnds(p)
       PROVE  QueueSteps
  BY <1>13, Untouched DEF ContextEnds, Resting
<1> QED BY <1>0, <1>1, <1>2, <1>3, <1>4, <1>5, <1>6, <1>7, <1>8, <1>9, <1>10, <1>11, <1>12,
           <1>13 DEF Next, Push, Shutdown

-----------------------------------------------------------------------------
(* The line stays in order, and agrees with what became of the batches.     *)

LEMMA LineGrows ==
  ASSUME NEW q \in Seq(Batches), NEW c \in Nat, NEW f \in [Batches -> Fates],
         LineOf(q, c, f), c + 1 \in Batches
  PROVE  /\ LineOf(Append(q, c + 1), c + 1, [f EXCEPT ![c + 1] = "pending"])
         /\ LineOf(q, c + 1, [f EXCEPT ![c + 1] = "empty"])
<1> USE DEF LineOf
<1>1. /\ Len(q) \in Nat /\ q \in [1..Len(q) -> Batches]
      /\ \A i \in 1..Len(q) : q[i] \in Nat /\ q[i] <= c
      /\ \A b \in Batches : b \in Nat
  BY LenProperties, SenderAssumption DEF Batches
<1> DEFINE r == Append(q, c + 1)
<1>2. /\ Len(r) = Len(q) + 1 /\ r[Len(q) + 1] = c + 1
      /\ \A i \in 1..Len(q) : r[i] = q[i]
  BY AppendProperties
<1>3. LineOf(r, c + 1, [f EXCEPT ![c + 1] = "pending"])
  <2> DEFINE g == [f EXCEPT ![c + 1] = "pending"]
  <2>1. ASSUME NEW i \in 1..Len(r)
        PROVE  i \in 1..Len(q) \/ i = Len(q) + 1
    BY <1>1, <1>2
  <2>2. ASSUME NEW i \in 1..Len(r), NEW j \in 1..Len(r), i < j
        PROVE  r[i] < r[j]
    BY <1>1, <1>2, <2>1, <2>2
  <2>3. ASSUME NEW i \in 1..Len(r)
        PROVE  r[i] <= c + 1
    BY <1>1, <1>2, <2>1
  <2>4. ASSUME NEW b \in Batches
        PROVE  g[b] = "pending" <=> \E i \in 1..Len(r) : r[i] = b
    <3>1. (\E i \in 1..Len(r) : r[i] = b) <=> b = c + 1 \/ \E i \in 1..Len(q) : q[i] = b
      BY <1>1, <1>2
    <3> QED BY <3>1
  <2>5. ASSUME NEW b \in Batches, b > c + 1
        PROVE  g[b] = "none"
    BY <1>1, <2>5
  <2> QED BY <2>2, <2>3, <2>4, <2>5
<1>4. LineOf(q, c + 1, [f EXCEPT ![c + 1] = "empty"])
  <2>1. ~\E i \in 1..Len(q) : q[i] = c + 1
    BY <1>1
  <2> QED BY <1>1, <2>1
<1> QED BY <1>3, <1>4

LEMMA LineShrinks ==
  ASSUME NEW q \in Seq(Batches), NEW c \in Nat, NEW f \in [Batches -> Fates],
         LineOf(q, c, f), q # <<>>, NEW how, how # "pending"
  PROVE  LineOf(Tail(q), c, [f EXCEPT ![Head(q)] = how])
<1> USE DEF LineOf
<1>1. /\ Len(q) \in Nat \ {0} /\ q \in [1..Len(q) -> Batches]
      /\ \A i \in 1..Len(q) : q[i] \in Nat /\ q[i] <= c
      /\ \A b \in Batches : b \in Nat
  BY LenProperties, EmptySeq, SenderAssumption DEF Batches
<1> DEFINE r == Tail(q)
           g == [f EXCEPT ![Head(q)] = how]
<1>2. /\ Len(r) = Len(q) - 1 /\ Head(q) = q[1] /\ Head(q) \in Batches
      /\ \A i \in 1..Len(r) : r[i] = q[i + 1] /\ i + 1 \in 1..Len(q)
  BY <1>1, HeadTailProperties
<1>3. ASSUME NEW i \in 1..Len(r), NEW j \in 1..Len(r), i < j
      PROVE  r[i] < r[j]
  BY <1>1, <1>2, <1>3
<1>4. ASSUME NEW i \in 1..Len(r)
      PROVE  r[i] <= c
  BY <1>1, <1>2
<1>5. ASSUME NEW b \in Batches
      PROVE  g[b] = "pending" <=> \E i \in 1..Len(r) : r[i] = b
  <2>1. CASE b = Head(q)
    <3>1. ASSUME NEW i \in 1..Len(r)
          PROVE  r[i] # b
      BY <1>1, <1>2, <2>1
    <3> QED BY <1>2, <2>1, <3>1
  <2>2. CASE b # Head(q)
    <3>1. (\E i \in 1..Len(r) : r[i] = b) <=> \E i \in 1..Len(q) : q[i] = b
      <4>1. ASSUME NEW i \in 1..Len(q), q[i] = b
            PROVE  \E j \in 1..Len(r) : r[j] = b
        <5>1. i - 1 \in 1..Len(r) /\ (i - 1) + 1 = i
          BY <1>1, <1>2, <2>2, <4>1
        <5> QED BY <1>2, <4>1, <5>1
      <4> QED BY <1>2, <4>1
    <3> QED BY <2>2, <3>1
  <2> QED BY <2>1, <2>2
<1>6. ASSUME NEW b \in Batches, b > c
      PROVE  g[b] = "none"
  BY <1>1, <1>2, <1>6
<1> QED BY <1>3, <1>4, <1>5, <1>6

LEMMA LineStep ==
  ASSUME Types, Line, QueueSteps
  PROVE  Line'
<1>1. Queue \in Seq(Batches) /\ cycle \in Nat /\ fate \in [Batches -> Fates]
  BY QueueIs, SenderAssumption DEF Types
<1>2. CASE Waits
  BY <1>2 DEF Waits, Line
<1>3. CASE Collected
  BY <1>1, <1>3, LineGrows DEF Collected, Line
<1>4. ASSUME NEW how, how # "pending", Leaves(how)
      PROVE  Line'
  BY <1>1, <1>4, LineShrinks DEF Leaves, Line
<1> QED BY <1>2, <1>3, <1>4 DEF QueueSteps, IsDelivered, IsRefused, IsEvicted

-----------------------------------------------------------------------------
(* The counts.                                                              *)

\* One more batch has come to one of the ends in kinds, or none has.
LEMMA OneMoreFated ==
  ASSUME Types, NEW b \in Batches, NEW k \in Fates,
         fate' = [fate EXCEPT ![b] = k], NEW kinds, fate[b] \notin kinds
  PROVE  /\ k \notin kinds => Fated(fate', kinds) = Fated(fate, kinds)
         /\ k \in kinds => Cardinality(Fated(fate', kinds)) = Cardinality(Fated(fate, kinds)) + 1
<1>1. IsFiniteSet(Batches)
  BY FS_Interval, SenderAssumption DEF Batches
<1>2. IsFiniteSet(Fated(fate, kinds))
  BY <1>1, FS_Subset DEF Fated
<1>3. ASSUME k \in kinds
      PROVE  Fated(fate', kinds) = Fated(fate, kinds) \cup {b}
  BY <1>3 DEF Fated, Types
<1>4. b \notin Fated(fate, kinds)
  BY DEF Fated
<1>5. k \notin kinds => Fated(fate', kinds) = Fated(fate, kinds)
  BY DEF Fated, Types
<1> QED BY <1>2, <1>3, <1>4, <1>5, FS_AddElement, FS_CardinalityType

LEMMA TallyStep ==
  ASSUME Types, Line, Tally, QueueSteps
  PROVE  Tally'
<1> USE DEF Tally, Dropped
<1> DEFINE lost == {"refused", "evicted"}
<1>1. fate \in [Batches -> Fates] /\ refused \in Nat /\ ring.evicted \in Nat /\ metrics.ok \in Nat
  BY RingTypes DEF Types
<1>2. CASE Waits
  BY <1>2 DEF Waits
<1>3. CASE Collected
  <2>1. cycle + 1 \in Batches /\ fate[cycle + 1] = "none"
    BY <1>3, SenderAssumption DEF Collected, Line, LineOf, Types
  <2>2. PICK k \in {"pending", "empty"} : fate' = [fate EXCEPT ![cycle + 1] = k]
    BY <1>3 DEF Collected
  <2>3. ASSUME NEW kinds, "none" \notin kinds, k \notin kinds
        PROVE  Fated(fate', kinds) = Fated(fate, kinds)
    <3>1. k \in Fates
      BY <2>2 DEF Fates
    <3> QED BY <2>1, <2>2, <2>3, <3>1, OneMoreFated
  <2>4. /\ Fated(fate', lost) = Fated(fate, lost)
        /\ Fated(fate', {"delivered"}) = Fated(fate, {"delivered"})
    BY <2>2, <2>3
  <2> QED BY <1>3, <2>4 DEF Collected
<1>4. ASSUME NEW how \in {"delivered", "refused", "evicted"}, Leaves(how)
      PROVE  /\ how = "delivered" =>
                  /\ Fated(fate', lost) = Fated(fate, lost)
                  /\ Cardinality(Fated(fate', {"delivered"})) = metrics.ok + 1
             /\ how # "delivered" =>
                  /\ Cardinality(Fated(fate', lost)) = Dropped + 1
                  /\ Fated(fate', {"delivered"}) = Fated(fate, {"delivered"})
  <2>1. Queue \in Seq(Batches) /\ Queue # <<>> /\ Head(Queue) \in Batches
    BY <1>4, QueueIs DEF Leaves
  <2>2. fate[Head(Queue)] = "pending"
    BY <2>1, EmptySeq, LenProperties DEF Line, LineOf
  <2>3. fate' = [fate EXCEPT ![Head(Queue)] = how] /\ how \in Fates
    BY <1>4 DEF Leaves, Fates
  <2>4. ASSUME NEW kinds, "pending" \notin kinds
        PROVE  /\ how \notin kinds => Fated(fate', kinds) = Fated(fate, kinds)
               /\ how \in kinds =>
                    Cardinality(Fated(fate', kinds)) = Cardinality(Fated(fate, kinds)) + 1
    BY <2>1, <2>2, <2>3, <2>4, OneMoreFated
  <2>5. "pending" \notin lost /\ "pending" \notin {"delivered"}
    OBVIOUS
  <2> QED BY <2>4, <2>5
<1>5. CASE IsDelivered
  BY <1>1, <1>4, <1>5 DEF IsDelivered
<1>6. CASE IsRefused
  BY <1>1, <1>4, <1>6 DEF IsRefused
<1>7. CASE IsEvicted
  BY <1>1, <1>4, <1>7 DEF IsEvicted
<1> QED BY <1>2, <1>3, <1>5, <1>6, <1>7 DEF QueueSteps

\* Dropped never falls; metrics.dropped moves when syncBuffer runs, and only then.
LEMMA StepsOfTheBooks ==
  ASSUME Types, [Next]_vars
  PROVE  \/ PushReports
         \/ /\ metrics'.dropped = metrics.dropped /\ metrics'.buffered = metrics.buffered
            /\ pc'["push"] \in {"idle", "stopped"} /\ pc'["stop"] = "off" =>
                 /\ pc["push"] \in {"idle", "stopped"} /\ pc["stop"] = "off"
                 /\ ring' = ring /\ refused' = refused
<1> USE DEF Types
<1>0. CASE UNCHANGED vars
  BY <1>0 DEF vars
<1>1. CASE PushCollects \/ CollectFails \/ PollerDone
  BY <1>1 DEF PushCollects, CollectFails, PollerDone, Held
<1>2. CASE StopBegins
  BY <1>2 DEF StopBegins, Resting
<1>3. CASE PushTakesToken \/ PushSendsFresh \/ PushHasNothingFresh
  BY <1>3 DEF PushTakesToken, PushSendsFresh, PushHasNothingFresh, send, Export, Held
<1>4. ASSUME NEW p \in Procs, DrainNext(p)
      PROVE  metrics' = metrics /\ pc'[p] = "sending"
  BY <1>4 DEF DrainNext, send, Export
<1>5. ASSUME NEW p \in Procs, DrainedOne(p)
      PROVE  /\ metrics'.dropped = metrics.dropped /\ metrics'.buffered = metrics.buffered
             /\ pc'[p] = "drain"
  BY <1>5 DEF DrainedOne, SendSucceeds, SendRefused, Counted
<1>6. CASE PushDrainFails \/ FreshKept
  BY <1>6 DEF PushDrainFails, FreshKept, SendFails, Counted
<1>7. CASE FreshDone
  BY <1>7 DEF FreshDone, SendSucceeds, SendRefused, Counted
<1>8. CASE PushSendsProcess \/ PushSkipsProcess \/ ProcessDone
  BY <1>8 DEF PushSendsProcess, PushSkipsProcess, ProcessDone, Export, Held
<1>9. CASE StopTakesToken \/ StopGivesUp \/ StopDrained \/ StopCloses \/ StopCounts
  BY <1>9 DEF StopTakesToken, StopGivesUp, StopDrained, StopCloses, StopCounts, Resting
<1>10. CASE StopDrainFails
  BY <1>10 DEF StopDrainFails, SendFails, Counted
<1>11. ASSUME NEW p \in Procs, RoundTrip(p) \/ ContextEnds(p)
       PROVE  UNCHANGED <<pc, ring, refused, metrics>>
  BY <1>11 DEF RoundTrip, ContextEnds, Resting
<1> QED BY <1>0, <1>1, <1>2, <1>3, <1>4, <1>5, <1>6, <1>7, <1>8, <1>9, <1>10, <1>11
        DEF Next, Push, Shutdown

LEMMA BooksStep ==
  ASSUME Types, InFlight, Books, [Next]_vars
  PROVE  Books'
<1> USE DEF Books, Dropped
<1>1. ring.evicted \in Nat /\ refused \in Nat /\ metrics.dropped \in Nat /\ len(ring) \in Nat
  BY RingTypes DEF Types
<1>2. /\ ring'.evicted \in Nat /\ refused' \in Nat
      /\ Dropped' >= Dropped
  <2>1. QueueSteps
    BY StepsOfTheQueue
  <2>2. /\ ring'.evicted \in {ring.evicted, ring.evicted + 1}
        /\ refused' \in {refused, refused + 1}
    BY <2>1 DEF QueueSteps, Waits, Collected, IsDelivered, IsRefused, IsEvicted
  <2> QED BY <1>1, <2>2
<1>3. CASE PushReports
  <2>1. UNCHANGED <<ring, refused>>
    BY <1>3 DEF PushReports, Held
  <2>2. metrics' = [metrics EXCEPT !.buffered = len(ring),
                                   !.dropped = IF Dropped > metrics.dropped THEN Dropped
                                               ELSE metrics.dropped]
    BY <1>3 DEF PushReports
  <2>3. metrics'.buffered = len(ring) /\ metrics'.dropped = Dropped
    BY <1>1, <2>2 DEF Types
  <2> QED BY <1>1, <2>1, <2>3
<1>4. CASE ~PushReports
  BY <1>1, <1>2, <1>4, StepsOfTheBooks
<1> QED BY <1>3, <1>4

-----------------------------------------------------------------------------
(* The inductive invariant.                                                 *)

LEMMA Initially ==
  ASSUME Init
  PROVE  IInv
<1>1. Types
  BY TypesInit
<1>2. contents(ring) = <<>> /\ len(ring) = 0 /\ ring.evicted = 0
  BY NewRingIsEmpty DEF Init, newRing, len
<1>3. Queue = <<>> /\ Len(Queue) = 0
  <2>1. Len(Queue) = 0 /\ Queue \in Seq(Batches)
    <3>1. fresh = NoBatch
      BY DEF Init
    <3>2. Len(InHand) = IF fresh = NoBatch THEN 0 ELSE 1
      BY <1>1, QueueIs
    <3>3. Queue \in Seq(Batches) /\ Len(Queue) = len(ring) + Len(InHand)
      BY <1>1, QueueIs
    <3> QED BY <1>2, <3>1, <3>2, <3>3
  <2> QED BY <2>1, EmptySeq
<1>4. Line
  <2>1. \A b \in Batches : fate[b] = "none"
    BY DEF Init, Batches
  <2> QED BY <1>3, <2>1 DEF Line, LineOf
<1>5. Tally /\ Books
  <2>1. Dropped = 0
    BY <1>2 DEF Init, Dropped
  <2>2. Fated(fate, {"refused", "evicted"}) = {} /\ Fated(fate, {"delivered"}) = {}
    BY DEF Fated, Init, Batches
  <2>3. metrics.buffered = 0 /\ metrics.dropped = 0 /\ metrics.ok = 0
    BY DEF Init
  <2>4. Tally
    BY <2>1, <2>2, <2>3, FS_EmptySet DEF Tally
  <2>5. Books
    BY <1>2, <2>1, <2>3 DEF Books
  <2> QED BY <2>4, <2>5
<1>6. TokenHeld /\ InFlight /\ Left /\ Answered
  BY DEF Init, TokenHeld, InFlight, Left, Answered
<1>7. Errors
  BY <1>2 DEF Init, Errors
<1> QED BY <1>1, <1>4, <1>5, <1>6, <1>7 DEF IInv

LEMMA Inductive ==
  ASSUME IInv, [Next]_vars
  PROVE  IInv'
<1>1. Types' /\ TokenHeld' /\ InFlight'
  BY TypesStep, TokenStep, InFlightStep DEF IInv
<1>2. Errors' /\ Left' /\ Answered'
  BY ErrorsStep, LeftStep, AnsweredStep DEF IInv
<1>3. Line' /\ Tally'
  <2>1. QueueSteps
    BY StepsOfTheQueue DEF IInv
  <2> QED BY <2>1, LineStep, TallyStep DEF IInv
<1>4. Books'
  BY BooksStep DEF IInv
<1> QED BY <1>1, <1>2, <1>3, <1>4 DEF IInv

LEMMA Invariance == Spec => []IInv
<1>1. Init => IInv
  BY Initially
<1>2. IInv /\ [Next]_vars => IInv'
  BY Inductive
<1> QED BY <1>1, <1>2, PTL DEF Spec

-----------------------------------------------------------------------------
(* The invariants the runs check.                                           *)

\* A sequence in strict order has as many elements as it is long.
LEMMA RangeOfLine ==
  ASSUME Types, Line
  PROVE  /\ Cardinality(Range(Queue)) = Len(Queue)
         /\ {b \in Batches : fate[b] = "pending"} = Range(Queue)
<1>1. Queue \in Seq(Batches) /\ Len(Queue) \in Nat /\ Queue \in [1..Len(Queue) -> Batches]
  BY QueueIs, LenProperties
<1>2. Range(Queue) = {Queue[i] : i \in 1..Len(Queue)}
  BY <1>1, RangeEquality
<1>3. Range(Queue) \subseteq Batches
  BY <1>1, <1>2
<1>4. ASSUME NEW i \in 1..Len(Queue), NEW j \in 1..Len(Queue), Queue[i] = Queue[j]
      PROVE  i = j
  <2>1. Queue[i] \in Nat /\ Queue[j] \in Nat
    BY <1>1, SenderAssumption DEF Batches
  <2>2. ~(i < j) /\ ~(j < i)
    BY <1>4, <2>1 DEF Line, LineOf
  <2> QED BY <1>1, <2>2
<1>5. Queue \in Bijection(1..Len(Queue), Range(Queue))
  BY <1>1, <1>2, <1>4 DEF Bijection, Injection, Surjection, IsInjective
<1>6. Cardinality(Range(Queue)) = Len(Queue)
  BY <1>1, <1>5, FS_CountingElements DEF ExistsBijection
<1>7. {b \in Batches : fate[b] = "pending"} = Range(Queue)
  BY <1>2, <1>3 DEF Line, LineOf
<1> QED BY <1>6, <1>7

\* Every field keeps its type, and no slot outside the entries keeps a batch alive.
THEOREM SenderTypeCorrect == Spec => []TypeOK
<1>1. IInv => TypeOK
  BY DEF IInv, Types, TypeOK, Whole, RingType, OnlyEntriesLive, PushPcs, StopPcs, Fates, Answers
<1> QED BY <1>1, Invariance, PTL

\* Whoever drains and whatever fails, a batch neither delivered nor dropped is in the
\* ring or in Push's hands, once, and Dropped counts the dropped.
THEOREM EveryBatchHolds == Spec => []EveryBatchIsSomewhere
<1>1. IInv => EveryBatchIsSomewhere
  <2> SUFFICES ASSUME IInv
               PROVE  EveryBatchIsSomewhere
    OBVIOUS
  <2>1. Dropped = Cardinality(DroppedBatches)
    BY DEF IInv, Tally, DroppedBatches, Fated
  <2> QED BY <2>1, RangeOfLine DEF IInv, EveryBatchIsSomewhere, Queue
<1> QED BY <1>1, Invariance, PTL

\* Between cycles the delivery metrics are the counts of batches waiting, dropped
\* and delivered.
THEOREM MetricsHold == Spec => []MetricsAreExact
<1>1. IInv => MetricsAreExact
  <2> SUFFICES ASSUME IInv, pc["push"] \in {"idle", "stopped"}, pc["stop"] = "off"
               PROVE  /\ metrics.buffered = Cardinality({b \in Batches : fate[b] = "pending"})
                      /\ metrics.dropped = Cardinality(DroppedBatches)
                      /\ metrics.ok = Cardinality({b \in Batches : fate[b] = "delivered"})
    BY DEF MetricsAreExact
  <2>1. metrics.dropped = Dropped /\ metrics.buffered = len(ring)
    BY DEF IInv, Books
  <2>2. Dropped = Cardinality(DroppedBatches)
    BY DEF IInv, Tally, DroppedBatches, Fated
  <2>3. metrics.ok = Cardinality({b \in Batches : fate[b] = "delivered"})
    <3>1. {b \in Batches : fate[b] = "delivered"} = Fated(fate, {"delivered"})
      BY DEF Fated
    <3> QED BY <3>1 DEF IInv, Tally
  <2>4. Cardinality({b \in Batches : fate[b] = "pending"}) = Len(Queue)
    BY RangeOfLine DEF IInv
  <2>5. fresh = NoBatch /\ len(ring) \in Nat
    BY RingTypes DEF IInv, InFlight
  <2>6. Len(Queue) = len(ring)
    BY <2>5, QueueIs DEF IInv
  <2> QED BY <2>1, <2>2, <2>3, <2>4, <2>6
<1> QED BY <1>1, Invariance, PTL

\* A log that does not say "push failed" between cycles has nothing left to send.
THEOREM SilenceHolds == Spec => []SilenceMeansNothingWaits
<1>1. IInv => SilenceMeansNothingWaits
  BY DEF IInv, Errors, SilenceMeansNothingWaits
<1> QED BY <1>1, Invariance, PTL

\* What Shutdown leaves behind it reports as an error, and exactly once the poller
\* is joined.
THEOREM StopReportHolds == Spec => []StopReportsWhatIsLost
<1>1. IInv => StopReportsWhatIsLost
  BY DEF IInv, Left, Types, StopReportsWhatIsLost
<1> QED BY <1>1, Invariance, PTL

-----------------------------------------------------------------------------
(* Actions.                                                                 *)

\* Every batch that a step drops as refused was on its way.
LEMMA RefusingSteps ==
  ASSUME Types, [Next]_vars, NEW b \in Batches, fate'[b] # fate[b], fate'[b] = "refused"
  PROVE  \E p \in Procs : /\ pc[p] \in {"sending", "sendingFresh"}
                          /\ last = "refused" /\ b = item[p]
<1> USE DEF Types
<1>0. CASE UNCHANGED vars
  BY <1>0 DEF vars
<1>1. CASE PushCollects \/ CollectFails
  BY <1>1 DEF PushCollects, CollectFails
<1>2. CASE PollerDone \/ StopBegins
  BY <1>2 DEF PollerDone, StopBegins, Resting
<1>3. CASE PushTakesToken \/ PushSendsFresh \/ PushHasNothingFresh
  BY <1>3 DEF PushTakesToken, PushSendsFresh, PushHasNothingFresh
<1>4. ASSUME NEW p \in Procs, DrainNext(p) \/ RoundTrip(p) \/ ContextEnds(p)
      PROVE  FALSE
  BY <1>4 DEF DrainNext, RoundTrip, ContextEnds, Resting
<1>5. ASSUME NEW p \in Procs, SendSucceeds(p) \/ SendRefused(p)
      PROVE  last = "refused" /\ b = item[p]
  BY <1>5 DEF SendSucceeds, SendRefused, permanent
<1>6. ASSUME NEW p \in Procs, DrainedOne(p)
      PROVE  pc[p] = "sending" /\ last = "refused" /\ b = item[p]
  BY <1>5, <1>6 DEF DrainedOne
<1>7. CASE FreshDone
  BY <1>5, <1>7 DEF FreshDone
<1>8. CASE PushDrainFails \/ FreshKept
  BY <1>8 DEF PushDrainFails, FreshKept, Keep
<1>9. CASE PushSendsProcess \/ PushSkipsProcess \/ ProcessDone \/ PushReports
  BY <1>9 DEF PushSendsProcess, PushSkipsProcess, ProcessDone, PushReports
<1>10. CASE StopTakesToken \/ StopGivesUp \/ StopDrained \/ StopCloses \/ StopCounts
  BY <1>10 DEF StopTakesToken, StopGivesUp, StopDrained, StopCloses, StopCounts, Resting
<1>11. CASE StopDrainFails
  BY <1>11 DEF StopDrainFails
<1> QED BY <1>0, <1>1, <1>2, <1>3, <1>4, <1>6, <1>7, <1>8, <1>9, <1>10, <1>11
        DEF Next, Push, Shutdown

\* A batch is dropped as refused only when the receiver's last refusal was of that
\* very batch, as long as main joins the poller before it shuts the sender down.
THEOREM RefusedByTheReceiverHolds == Spec => RefusedByTheReceiver
<1>1. IInv /\ [Next]_vars =>
        [joinFirst => \A b \in Batches : fate'[b] # fate[b] /\ fate'[b] = "refused"
                                           => turnedDown = b]_vars
  <2> SUFFICES ASSUME IInv, [Next]_vars, joinFirst,
                      NEW b \in Batches, fate'[b] # fate[b], fate'[b] = "refused"
               PROVE  turnedDown = b
    OBVIOUS
  <2> QED BY RefusingSteps DEF IInv, Answered
<1> QED BY <1>1, Invariance, PTL DEF Spec, RefusedByTheReceiver

-----------------------------------------------------------------------------
(* The refinement of Delivery.                                              *)

LEMMA QueueStepsDeliver ==
  ASSUME Types, QueueSteps
  PROVE  [Promise!Next]_(Promise!vars)
<1> USE DEF Queue
<1>1. CASE Waits
  BY <1>1 DEF Waits, Promise!Next, Promise!Store, Promise!vars
<1>2. CASE Collected
  <2>1. Promise!Begin
    BY <1>2 DEF Collected, Promise!Begin
  <2> QED BY <2>1 DEF Promise!Next
<1>3. CASE IsDelivered
  BY <1>3 DEF IsDelivered, Leaves, Promise!Next, Promise!Deliver
<1>4. CASE IsRefused
  BY <1>4 DEF IsRefused, Leaves, Promise!Next, Promise!Refuse
<1>5. CASE IsEvicted
  BY <1>5 DEF IsEvicted, Leaves, Promise!Next, Promise!Evict
<1> QED BY <1>1, <1>2, <1>3, <1>4, <1>5 DEF QueueSteps

\* Each step of Push, of Shutdown and of the receiver is a step of Delivery, or none
\* of its business: at least once, the oldest first, dropped only when refused or full.
THEOREM SenderImplementsDelivery == Spec => ImplementsDelivery
<1>1. Init => Promise!Init
  <2> SUFFICES ASSUME Init
               PROVE  Promise!Init
    OBVIOUS
  <2>1. contents(ring) = <<>> /\ ring.evicted = 0
    BY NewRingIsEmpty DEF Init, newRing
  <2>2. InHand = <<>>
    BY DEF Init, InHand
  <2>3. contents(ring) \o InHand = <<>>
    BY <2>1, <2>2, ConcatEmptySeq, EmptySeq
  <2> QED BY <2>1, <2>3 DEF Init, Promise!Init, nil
<1>2. IInv /\ [Next]_vars => [Promise!Next]_(Promise!vars)
  BY StepsOfTheQueue, QueueStepsDeliver DEF IInv
<1> QED BY <1>1, <1>2, Invariance, PTL DEF Spec, ImplementsDelivery, Promise!Spec
=============================================================================
