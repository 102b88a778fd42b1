--------------------------- MODULE CompressedRing ---------------------------
(***************************************************************************)
(* The cold store of internal/buffer/compressed_ring.go: blocks found by   *)
(* time, each compressed as a whole. The 30 seconds of a block are in      *)
(* nanoseconds and the times in milliseconds, so a block spans 347 days.   *)
(*                                                                         *)
(* A block is kept as the trades its data decompress to; a block that was  *)
(* set up but never filled is as good as empty.                            *)
(***************************************************************************)
EXTENDS DeltaCompressor, SequencesExt

CONSTANTS
  Blocks,     \* cr.capacity, 16
  BlockSpan   \* blockDuration, 30000000000

ASSUME BlockAssumption == {Blocks, BlockSpan} \subseteq Nat \ {0}

getBlockIndex(time) == (time \div BlockSpan) % Blocks

EmptyBlocks == [b \in 0..Blocks - 1 |-> {}]

\* sort.Slice by time, which leaves trades of one time in any order.
InTimeOrder(trades) ==
  {s \in SetToSeqs(trades) : \A i \in 1..Len(s) - 1 : s[i].time <= s[i + 1].time}

Symbols(trades) == {t.symbol : t \in trades}

\* Mutant: what the block holds is not decompressed first.
compressAndStoreInBlock_Replaces(block, trades) ==
  {IF s[1].price = Invalid THEN [ok |-> FALSE, block |-> block]
   ELSE [ok |-> TRUE, block |-> Decompress(Compress(s, SetToSeq(Symbols(trades)), {}))] :
     s \in InTimeOrder(trades)}

\* What may come of it: the trades are merged with those of the block, sorted,
\* and compressed again. It fails when the first price does not parse.
compressAndStoreInBlock(block, trades) ==
  UNION {IF s[1].price = Invalid THEN {[ok |-> FALSE, block |-> block]}
         ELSE {[ok |-> TRUE, block |-> Decompress(Compress(s, symbols, short))] :
                 symbols \in SetToSeqs(Symbols(block \cup trades)), short \in SUBSET WholeProducts(s)} :
          s \in InTimeOrder(block \cup trades)}

\* Store: one trade.
ColdStore(blocks, trade) ==
  LET b == getBlockIndex(trade.time)
  IN {[ok |-> r.ok, blocks |-> [blocks EXCEPT ![b] = r.block]] :
        r \in compressAndStoreInBlock(blocks[b], {trade})}

\* CompressAndStore: the groups in the order of a map; the first that fails
\* ends it, and the rest of the trades are gone.
CompressAndStore(blocks, trades) ==
  LET Group(b) == {t \in trades : getBlockIndex(t.time) = b}
      groups   == {b \in DOMAIN blocks : Group(b) # {}}
      results  == UNION {compressAndStoreInBlock(blocks[b], Group(b)) : b \in groups}
      Outcomes == {o \in [groups -> results] :
                     \A b \in groups : o[b] \in compressAndStoreInBlock(blocks[b], Group(b))}
      Stored(o) == {b \in groups : o[b].ok}
  IN UNION {{[b \in DOMAIN blocks |-> IF b \in stored THEN o[b].block ELSE blocks[b]] :
               stored \in IF Stored(o) = groups THEN {groups} ELSE SUBSET Stored(o)} :
             o \in Outcomes}

\* GetRange: the times compared are those that come out of the codec.
ColdRange(blocks, start, end) ==
  UNION {{t \in blocks[b] : start <= t.time /\ t.time <= end} : b \in DOMAIN blocks}
=============================================================================
