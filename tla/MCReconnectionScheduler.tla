------------------------ MODULE MCReconnectionScheduler ------------------------
(***************************************************************************)
(* Two exchanges: "pool" is owned by EnhancedTaskManager, "conn" by the    *)
(* single-connection TaskManager, which also reports successful connects.  *)
(***************************************************************************)
EXTENDS ReconnectionScheduler

CONSTANTS pool, conn

MCExchanges == {pool, conn}
MCConn      == {conn}
=============================================================================
