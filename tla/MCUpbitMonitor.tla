--------------------------- MODULE MCUpbitMonitor ---------------------------
(***************************************************************************)
(* Two notices, one of them announced when the other leaves the window and *)
(* past its retention one tick later; two background saves and Stop's own  *)
(* at the temporary file.                                                  *)
(***************************************************************************)
EXTENDS UpbitMonitor, TLC

CONSTANTS n1, n2, s1, s2

MCNotices     == {n1, n2}
MCAnnouncedAt == n1 :> 0 @@ n2 :> 1
MCSavers      == {s1, s2}
=============================================================================
