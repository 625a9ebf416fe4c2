---------------------------- MODULE MCFdbScrape ----------------------------
(***************************************************************************)
(* FdbScrape for TLC: a port and a LAG, two bridge ports, and three keys,  *)
(* of which one is malformed, one carries its VLAN and one its bridge VLAN *)
(* id.  The exporter starts over complete tables, over the same tables     *)
(* with the LAG and the port on one object id, or over nearly empty ones.  *)
(***************************************************************************)
EXTENDS FdbScrape, TLC

CONSTANTS o1, o2, dynamic

MCOwnVlan == (0 :> Nil) @@ (1 :> 20) @@ (2 :> Nil)
MCBvid    == [k \in Keys |-> 1]

MCConfigs ==
  {[maxEntries |-> 2, maxPorts |-> 2, maxVlans |-> 2],
   [maxEntries |-> 3, maxPorts |-> 1, maxVlans |-> 1]}

Complete ==
  [ports |-> [n \in PortNames |-> o1], lags |-> [n \in LagNames |-> o2],
   vlans |-> [v \in Bvids |-> 10], bridge |-> (1 :> o1) @@ (2 :> o2),
   fdb |-> [k \in Keys |-> [port |-> IF k = 1 THEN 1 ELSE 2, type |-> dynamic]]]

MCDatabases ==
  {Complete,
   [Complete EXCEPT !.lags = [n \in LagNames |-> o1], !.fdb[0] = Absent],
   [Complete EXCEPT !.vlans = [v \in Bvids |-> Blank], !.bridge[1] = Absent,
                    !.fdb[1] = Absent]}

=============================================================================
