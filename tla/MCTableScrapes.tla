-------------------------- MODULE MCTableScrapes --------------------------
(***************************************************************************)
(* TableScrapes for TLC: three keys and the bare prefix, three of the nine *)
(* hashes read for a transceiver: values, a counter joined to them, and    *)
(* thresholds.  Limits that are met and limits that are not.               *)
(***************************************************************************)
EXTENDS TableScrapes

CONSTANTS value

MCDetails == <<"flag", "count", "threshold">>

MCJoinedTo == [t \in AllDetails |-> IF t = "count" THEN "flag" ELSE t]

\* A fan, a chassis or an ACL group may have any name.
MCMalformed == [t \in Walked |-> IF t \in Listed \ {"psu"} THEN {} ELSE {0}]

\* LastUpdateTime sorts after the process ids, FSSTATS_SYNC before the devices;
\* one temperature and one CRM field have no series.
MCPassed ==
  [t \in Tables |->
     CASE t = "process" -> {3} [] t \in {"storage", "asic", "crm"} -> {1} [] OTHER -> {}]

MCLimits ==
  {[t \in Scanned |-> IF t \in {"route", "storage"} THEN 1 ELSE 2],
   [t \in Scanned |-> 3]}

\* Every row is there but the bare prefix; one has an empty field.
MCDatabases ==
  {[t \in Tables |-> [k \in Keys |->
      IF k = 0 THEN Absent
      ELSE IF k = 2 /\ t \in {"neighbor", "process", "asic", "psu", "fan"} THEN Blank ELSE value]],
   [t \in Tables |-> [k \in Keys |->
      IF t = "status" THEN (IF k = 1 THEN value ELSE Absent)
      ELSE IF t = "queue" /\ k = 2 THEN Absent
      ELSE IF k = 3 THEN Absent ELSE value]]}

=============================================================================
