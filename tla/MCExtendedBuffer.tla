-------------------------- MODULE MCExtendedBuffer --------------------------
(***************************************************************************)
(* A ring of three slots and up to four trades, which may be late by more  *)
(* than the ring's duration: prices that are within a delta of each other  *)
(* and not, that are whole millionths apart and not, a quantity beyond the *)
(* modulus, a price that does not parse, a trade of a market the buffer    *)
(* does not know, one symbol too many.                                     *)
(***************************************************************************)
EXTENDS ExtendedBuffer

CONSTANTS x, y, z, none

MCNoTrade == [id |-> 0, time |-> 0, price |-> Invalid, quantity |-> Invalid, symbol |-> none]

MCKind(key, price, quantity, symbol, lag) ==
  [key |-> key, price |-> price, quantity |-> quantity, symbol |-> symbol, lag |-> lag]

MCKinds ==
  {MCKind("known", 100, 1, x, 0), MCKind("known", 103, 5, y, 0), MCKind("known", 105, 9, z, 2),
   MCKind("known", Invalid, 1, x, 0), MCKind("known", Invalid, 1, x, 2),
   MCKind("unknown", 100, 1, x, 0)}
=============================================================================
