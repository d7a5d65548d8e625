-------------------------------- MODULE Ring --------------------------------
(***************************************************************************)
(* internal/push/ring.go down to its array: a ring is a record of its       *)
(* fields, and each method, one critical section of the mutex, an operator  *)
(* on it.  A batch is a positive number, nil is 0.                          *)
(***************************************************************************)
EXTENDS Naturals, Sequences

CONSTANT Capacity    \* newRing's capacity

\* New resolves a zero Config.Buffer before newRing sees it, and validate
\* refuses a negative one.
ASSUME RingAssumption == Capacity \in Nat \ {0}

Slots == 0..(Capacity - 1)
nil   == 0

\* The slot n places past h.
Slot(h, n) == (h + n) % Capacity

newRing == [buf |-> [s \in Slots |-> nil], head |-> 0, size |-> 0, evicted |-> 0]

len(r) == r.size
full(r) == r.size = Capacity
oldest(r) == r.buf[r.head]

\* removeOldest clears the slot, so that the batch can be collected.
RemoveWithoutClearing(r) ==
    IF r.size = 0 THEN r
    ELSE [r EXCEPT !.head = Slot(@, 1), !.size = @ - 1]
removeOldest(r) ==
    IF r.size = 0 THEN r
    ELSE [r EXCEPT !.buf[r.head] = nil, !.head = Slot(@, 1), !.size = @ - 1]

\* The first half of push: a full ring drops its head, and counts it.
EvictUncounted(r) ==
    IF ~full(r) THEN r ELSE [r EXCEPT !.head = Slot(@, 1), !.size = @ - 1]
makeRoom(r) ==
    IF ~full(r) THEN r
    ELSE [r EXCEPT !.head = Slot(@, 1), !.size = @ - 1, !.evicted = @ + 1]

push(r, b) ==
    LET s == makeRoom(r)
    IN [s EXCEPT !.buf[Slot(s.head, s.size)] = b, !.size = @ + 1]

\* The entries, oldest first.
contents(r) == [i \in 1..r.size |-> r.buf[Slot(r.head, i - 1)]]
=============================================================================
