----------------------- MODULE MCCircularTradeBuffer -----------------------
(***************************************************************************)
(* Three buckets of one second, two milliseconds to the second, a hot cache *)
(* of one second, and a clock that goes just past one turn of the ring.    *)
(* t1, t2 and t3 come from a cached exchange - t1 and t3 share a bucket,   *)
(* one turn of the ring apart - and t4 from one that is never cached.      *)
(***************************************************************************)
EXTENDS CircularTradeBuffer, TLC

CONSTANTS t1, t2, t3, t4, cached, uncached

MCTrades == {t1, t2, t3, t4}
MCTs     == t1 :> 1 @@ t2 :> 2 @@ t3 :> 6 @@ t4 :> 3
MCKey    == t1 :> cached @@ t2 :> cached @@ t3 :> cached @@ t4 :> uncached
MCKeys   == {cached, uncached}
MCActive == {cached}
=============================================================================
