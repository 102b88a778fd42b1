------------------------- MODULE MCSafeTaskManager -------------------------
(***************************************************************************)
(* Two pools, with two workers between them: one in each, or both in the   *)
(* pool that has three symbols. One exchange has no built-in list, as      *)
(* Phemex. One of the workers has connections, and messages from them. A   *)
(* third exchange has no connector.                                        *)
(***************************************************************************)
EXTENDS SafeTaskManager

CONSTANTS binance, phemex, other

MCPools   == {binance, phemex, other}
MCRegistered == {binance, phemex}
MCWorkers == {<<binance, 1>>, <<binance, 2>>, <<phemex, 1>>, <<other, 1>>}
MCDirect  == MCWorkers
MCLists   == {[binance |-> 3, phemex |-> 0, other |-> 0], [binance |-> 0, phemex |-> 1, other |-> 0],
              [binance |-> 0, phemex |-> 0, other |-> 1]}
MCListsOf == {[p \in MCPools |-> CASE p = binance -> l.binance [] p = phemex -> l.phemex
                                 [] OTHER -> l.other] : l \in MCLists}
MCReachable == {<<phemex, 1>>}
MCMessages == [w \in MCWorkers |-> IF w = <<phemex, 1>> THEN 2 ELSE 0]
MCFallback == [p \in MCPools |-> IF p = binance THEN 1 ELSE 0]
=============================================================================
