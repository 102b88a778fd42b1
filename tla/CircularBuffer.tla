--------------------------- MODULE CircularBuffer ---------------------------
(***************************************************************************)
(* The hot ring of internal/buffer/circular_buffer.go, as operators on its *)
(* value. Every method runs under the ring's own mutex. The time index is  *)
(* left out: only FindByTimestamp, which nothing calls, reads it.          *)
(***************************************************************************)
EXTENDS Integers, Sequences, FiniteSetsExt

CONSTANTS
  Capacity,   \* cb.capacity, 600000
  NoTrade     \* the zero value of a trade: what a cleared slot holds

ASSUME CapacityAssumption == Capacity \in Nat \ {0, 1}

EmptyRing == [data |-> [p \in 0..Capacity - 1 |-> NoTrade],
              write |-> 0, read |-> 0, full |-> FALSE, size |-> 0]

At(ring, i) == (ring.read + i) % Capacity

\* The write position meets the read position when the ring becomes full, and
\* then once a lap; only the second meeting moves the read position. The size
\* stands still as long as the ring is full.
Store(ring, trade) ==
  LET next == (ring.write + 1) % Capacity
      met  == next = ring.read
  IN [ring EXCEPT !.data[ring.write] = trade, !.write = next,
                  !.read = IF met /\ ring.full THEN (@ + 1) % Capacity ELSE @,
                  !.full = @ \/ met,
                  !.size = IF ring.full \/ met THEN @ ELSE @ + 1]

\* GetRange: size slots from the read position on.
HotRange(ring, start, end) ==
  {t \in {ring.data[At(ring, i)] : i \in 0..ring.size - 1} : start <= t.time /\ t.time <= end}

\* Mutant: a trade made at the cutoff itself is taken for an old one.
OldTrades_Inclusive(ring, cutoff) ==
  Max({n \in 0..ring.size : \A i \in 0..n - 1 :
         i >= Capacity \/ ring.data[At(ring, i)].time <= cutoff})

\* How many trades at the front of the ring are older than cutoff. A slot that
\* is met a second time has been cleared, and a cleared slot is old.
OldTrades(ring, cutoff) ==
  Max({n \in 0..ring.size : \A i \in 0..n - 1 :
         i >= Capacity \/ ring.data[At(ring, i)].time < cutoff})

\* What ExtractOldTrades returns.
Extracted(ring, cutoff) ==
  {IF i < Capacity THEN ring.data[At(ring, i)] ELSE NoTrade : i \in 0..OldTrades(ring, cutoff) - 1}

\* What ExtractOldTrades leaves. The ring stops being full even when nothing
\* was taken, for a full ring counts one slot too few.
Remaining(ring, cutoff) ==
  LET old == OldTrades(ring, cutoff)
  IN IF ring.size = 0 THEN ring
     ELSE [ring EXCEPT !.data = [p \in DOMAIN @ |->
                         IF \E i \in 0..old - 1 : At(ring, i) = p THEN NoTrade ELSE @[p]],
                       !.read = At(ring, old),
                       !.size = @ - old,
                       !.full = @ /\ ring.size - old >= Capacity]
=============================================================================
