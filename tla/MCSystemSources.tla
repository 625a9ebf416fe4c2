-------------------------- MODULE MCSystemSources --------------------------
(***************************************************************************)
(* SystemSources for TLC: four fields, most of several sources.  The two   *)
(* limits of the output fall inside a value and inside what show version   *)
(* prints last.                                                            *)
(***************************************************************************)
EXTENDS SystemSources

MCConfigs == [commands : {TRUE}, maxBytes : {5, 9}] \cup [commands : {FALSE}, maxBytes : {5}]

\* Every source answers; the chassis has no model, and the version file no
\* number of ASICs that is a number.
MCWorlds ==
  {[s \in Sources |-> [f \in Fields |->
      IF s = "versionFile" /\ f = "asicCount" THEN bad
      ELSE IF s = "chassisInfo" /\ f = "model" THEN Blank ELSE Good]] : bad \in {Bad, Blank}}

=============================================================================
