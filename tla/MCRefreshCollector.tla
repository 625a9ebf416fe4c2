------------------------- MODULE MCRefreshCollector -------------------------
(***************************************************************************)
(* RefreshCollector for TLC: the fields of the smallest payload in which a *)
(* torn copy shows, the metrics and one count stored beside them.          *)
(***************************************************************************)
EXTENDS RefreshCollector

MCPayload == {"metrics", "skipped"}

=============================================================================
