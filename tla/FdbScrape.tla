----------------------------- MODULE FdbScrape -----------------------------
(***************************************************************************)
(* scrapeMetrics of the FDB collector.  An entry of the forwarding table   *)
(* names a bridge port, the bridge port an object id, and the id a port or *)
(* a LAG; its VLAN is in the key or behind a bridge VLAN id.  The maps are *)
(* read first, one command at a time, the entries last, while orchagent    *)
(* changes any of them.                                                    *)
(*                                                                         *)
(* Labels are numbers in the order of the strings; Unknown comes last.     *)
(***************************************************************************)
EXTENDS Naturals, Sequences, FiniteSets

CONSTANTS Keys,         \* keys of ASIC_STATE:SAI_OBJECT_TYPE_FDB_ENTRY:*
          Malformed,    \* those that parseFDBKey refuses
          OwnVlan,      \* OwnVlan[k]: the VLAN written in the key k, or Nil
          Bvid,         \* Bvid[k]: the bridge VLAN id written in the key k
          Bvids, BridgePorts, Oids,
          PortNames, LagNames, Vlans, Types,
          Unknown,      \* the label "unknown"
          Nil,          \* the empty string
          Absent,       \* no row
          Blank,        \* a row without the attribute that is looked for
          Configs,      \* values of FDB_MAX_ENTRIES, _PORTS and _VLANS
          Databases,    \* contents of the tables when the exporter starts
          Repeats,      \* bound: keys SCAN may return again
          MaxChanges    \* bound: how often a row changes

PortLabels == PortNames \cup LagNames \cup {Unknown}
VlanLabels == Vlans \cup {Unknown}
TypeLabels == Types \cup {Unknown}

ASSUME LabelsAssumption ==
  /\ PortNames \cup LagNames \cup Vlans \cup {Unknown} \subseteq Nat
  /\ Keys \subseteq Nat /\ Bvids \subseteq Nat /\ BridgePorts \subseteq Nat
  /\ Nil \notin PortLabels \cup VlanLabels \cup TypeLabels
  /\ Unknown \notin PortNames \cup LagNames \cup Vlans \cup Types
  /\ Absent \notin Vlans \cup Oids
  /\ IsFiniteSet(PortLabels) /\ IsFiniteSet(VlanLabels)
  /\ OwnVlan \in [Keys -> Vlans \cup {Nil}] /\ Bvid \in [Keys -> Bvids]

ASSUME BoundsAssumption == Repeats \in Nat /\ MaxChanges \in Nat

\* parseIntEnv refuses a limit below 1.
ASSUME ConfigsAssumption ==
  Configs \subseteq [maxEntries : Nat \ {0}, maxPorts : Nat \ {0}, maxVlans : Nat \ {0}]

\* The rows of the five tables.  An FDB entry without a type has type Unknown.
Contents ==
  [ports |-> Oids \cup {Nil}, lags |-> Oids \cup {Nil},
   vlans |-> Vlans \cup {Absent, Blank}, bridge |-> Oids \cup {Absent, Blank},
   fdb |-> [port : BridgePorts, type : TypeLabels] \cup {Absent}]

RowsOf ==
  [ports |-> PortNames, lags |-> LagNames, vlans |-> Bvids,
   bridge |-> BridgePorts, fdb |-> Keys]

Tables == DOMAIN RowsOf

ASSUME DatabasesAssumption ==
  \A d \in Databases :
    /\ d = [t \in Tables |-> d[t]]
    /\ \A t \in Tables : d[t] \in [RowsOf[t] -> Contents[t]]

VARIABLES db,        \* db[t][r]: what reading row r of table t gives now
          config,
          pc,        \* the command that is next, or done or failed
          window,    \* the SCAN in progress
          keys,      \* the slice being walked over
          index,     \* the position in it
          oidToName, bvidToVlan, bridgePortToPort,
          counts,    \* entries, unknownVlan, byVlan, byPort, byType
          skipped, truncated,
          changes,   \* how often a row has changed
          changed,   \* history: rows that changed during this scrape
          mapSkips,  \* history: skipped when the maps were complete
          repeated   \* history: a SCAN returned a key again

maps    == <<oidToName, bvidToVlan, bridgePortToPort>>
walk    == <<window, keys, index>>
result  == <<counts, skipped, truncated>>
history == <<changed, mapSkips, repeated>>
outside == <<db, changes, config>>
vars    == <<outside, pc, walk, maps, result, history>>

BvidScan   == INSTANCE RedisKeys WITH Keys <- Bvids
BridgeScan == INSTANCE RedisKeys WITH Keys <- BridgePorts
FdbScan    == INSTANCE RedisKeys

Present(t) == {r \in RowsOf[t] : db[t][r] # Absent}
NoWindow   == FdbScan!Opened({})

NoCounts ==
  [entries |-> 0, unknownVlan |-> 0, byVlan |-> [v \in VlanLabels |-> 0],
   byPort |-> [p \in PortLabels |-> 0], byType |-> [t \in TypeLabels |-> 0]]

TypeOK ==
  /\ \A t \in Tables : db[t] \in [RowsOf[t] -> Contents[t]]
  /\ changes \in 0 .. MaxChanges
  /\ config \in Configs
  /\ pc \in {"ports", "lags", "vlans", "vlan", "bridge", "bridgePort", "fdb", "entry",
             "emit", "done", "failed"}
  /\ window \in FdbScan!Windows \cup BvidScan!Windows \cup BridgeScan!Windows
  /\ keys \in Seq(Keys \cup Bvids \cup BridgePorts)
  /\ index \in 1 .. Len(keys) + 1
  /\ oidToName \in [Oids -> PortNames \cup LagNames \cup {Nil}]
  /\ bvidToVlan \in [Bvids -> Vlans \cup {Nil}]
  /\ bridgePortToPort \in [BridgePorts -> PortNames \cup LagNames \cup {Nil}]
  /\ counts \in [entries : 0 .. config.maxEntries, unknownVlan : Nat, byVlan : [VlanLabels -> Nat],
                 byPort : [PortLabels -> Nat], byType : [TypeLabels -> Nat]]
  /\ skipped \in Nat /\ truncated \in {0, 1}
  /\ changed \subseteq UNION {{t} \X RowsOf[t] : t \in Tables}
  /\ mapSkips \in Nat
  /\ repeated \in BOOLEAN

Fresh ==
  /\ pc = "ports"
  /\ window = NoWindow /\ keys = <<>> /\ index = 1
  /\ oidToName = [o \in Oids |-> Nil]
  /\ bvidToVlan = [v \in Bvids |-> Nil]
  /\ bridgePortToPort = [b \in BridgePorts |-> Nil]
  /\ counts = NoCounts /\ skipped = 0 /\ truncated = 0
  /\ changed = {} /\ mapSkips = 0 /\ repeated = FALSE

Init ==
  /\ db \in Databases
  /\ changes = 0
  /\ config \in Configs
  /\ Fresh

-----------------------------------------------------------------------------
(* The maps.                                                               *)

\* A name map read in the random order of Go's maps: of two names with the same
\* id the last one stays.
Inverses(m) ==
  {f \in [Oids -> DOMAIN m \cup {Nil}] :
     \A o \in Oids : IF \E n \in DOMAIN m : m[n] = o
                     THEN f[o] # Nil /\ m[f[o]] = o ELSE f[o] = Nil}

ReadPortNames ==
  /\ pc = "ports"
  /\ pc' = "lags"
  /\ oidToName' \in Inverses(db.ports)
  /\ UNCHANGED <<outside, walk, bvidToVlan, bridgePortToPort, result, history>>

\* A LAG takes the place of a port with the same id.
ReadLagNames ==
  /\ pc = "lags"
  /\ pc' = "vlans"
  /\ \E f \in Inverses(db.lags) :
       oidToName' = [o \in Oids |-> IF f[o] # Nil THEN f[o] ELSE oidToName[o]]
  /\ window' = FdbScan!Opened(Present("vlans"))
  /\ UNCHANGED <<outside, keys, index, bvidToVlan, bridgePortToPort, result, history>>

\* The SCAN that pc stands for returns the slice s.
Scanned(s, next) ==
  /\ keys' = s /\ index' = 1
  /\ pc' = next
  /\ window' = NoWindow
  /\ repeated' = (repeated \/ FdbScan!IsRepeated(s))
  /\ UNCHANGED <<outside, maps, result, changed>>

ScanVlans ==
  /\ pc = "vlans"
  /\ \E s \in BvidScan!Lists(window) : Scanned(s, "vlan")
  /\ UNCHANGED mapSkips

\* An object without a VLAN id is skipped, as is a key that is the bare prefix.
ReadVlan ==
  /\ pc = "vlan"
  /\ index <= Len(keys)
  /\ index' = index + 1
  /\ LET v == keys[index]
     IN  IF db.vlans[v] \in Vlans
         THEN /\ bvidToVlan' = [bvidToVlan EXCEPT ![v] = db.vlans[v]]
              /\ UNCHANGED skipped
         ELSE /\ skipped' = skipped + 1
              /\ UNCHANGED bvidToVlan
  /\ UNCHANGED <<outside, pc, window, keys, oidToName, bridgePortToPort, counts, truncated,
                 history>>

VlansRead ==
  /\ pc = "vlan"
  /\ index > Len(keys)
  /\ pc' = "bridge"
  /\ window' = FdbScan!Opened(Present("bridge"))
  /\ UNCHANGED <<outside, keys, index, maps, result, history>>

\* MUTANT: the first page of the SCAN is taken for the whole answer.
ScanBridgeFirstPage ==
  /\ pc = "bridge"
  /\ \E s \in BridgeScan!Lists([window EXCEPT !.throughout = {}]) : Scanned(s, "bridgePort")
  /\ UNCHANGED mapSkips

ScanBridge ==
  /\ pc = "bridge"
  /\ \E s \in BridgeScan!Lists(window) : Scanned(s, "bridgePort")
  /\ UNCHANGED mapSkips

\* A bridge port without a port id (a tunnel, the router port) is passed over; one
\* whose id has no name is counted as skipped, as is a key that is the bare prefix.
ReadBridgePort ==
  /\ pc = "bridgePort"
  /\ index <= Len(keys)
  /\ index' = index + 1
  /\ LET b == keys[index]
         n == IF db.bridge[b] \in Oids THEN oidToName[db.bridge[b]] ELSE Nil
     IN  /\ IF n = Nil THEN UNCHANGED bridgePortToPort
                       ELSE bridgePortToPort' = [bridgePortToPort EXCEPT ![b] = n]
         /\ skipped' = IF db.bridge[b] \in Oids /\ n = Nil THEN skipped + 1 ELSE skipped
  /\ UNCHANGED <<outside, pc, window, keys, oidToName, bvidToVlan, counts, truncated, history>>

BridgeRead ==
  /\ pc = "bridgePort"
  /\ index > Len(keys)
  /\ pc' = "fdb"
  /\ window' = FdbScan!Opened(Present("fdb"))
  /\ UNCHANGED <<outside, keys, index, maps, result, history>>

-----------------------------------------------------------------------------
(* The entries.                                                            *)

\* MUTANT: the keys are walked over in the order of the SCAN.
ScanEntriesUnsorted ==
  /\ pc = "fdb"
  /\ \E s \in FdbScan!Lists(window) : Scanned(s, "entry")
  /\ mapSkips' = skipped

ScanEntries ==
  /\ pc = "fdb"
  /\ \E s \in FdbScan!SortedLists(window) : Scanned(s, "entry")
  /\ mapSkips' = skipped

Visit ==
  /\ pc = "entry"
  /\ index <= Len(keys)

AtLimit == index > config.maxEntries

\* The rest of the slice is given up.
Truncate ==
  /\ Visit
  /\ AtLimit
  /\ truncated' = 1
  /\ skipped' = skipped + (Len(keys) - index) + 1
  /\ pc' = "emit"
  /\ UNCHANGED <<outside, walk, maps, counts, history>>

\* MUTANT: an entry that has aged out is passed over without being counted.
SkipEntryUncounted ==
  /\ Visit
  /\ ~AtLimit
  /\ keys[index] \in Malformed \/ db.fdb[keys[index]] = Absent
  /\ skipped' = IF keys[index] \in Malformed THEN skipped + 1 ELSE skipped
  /\ index' = index + 1
  /\ UNCHANGED <<outside, pc, window, keys, maps, counts, truncated, history>>

\* A malformed key, which is not read, or one whose entry has aged out.
SkipEntry ==
  /\ Visit
  /\ ~AtLimit
  /\ keys[index] \in Malformed \/ db.fdb[keys[index]] = Absent
  /\ skipped' = skipped + 1
  /\ index' = index + 1
  /\ UNCHANGED <<outside, pc, window, keys, maps, counts, truncated, history>>

VlanLabel(k) ==
  CASE OwnVlan[k] # Nil -> OwnVlan[k]
    [] OwnVlan[k] = Nil /\ bvidToVlan[Bvid[k]] # Nil -> bvidToVlan[Bvid[k]]
    [] OTHER -> Unknown

PortLabel(b) == IF bridgePortToPort[b] # Nil THEN bridgePortToPort[b] ELSE Unknown

Counted(c, v, p, t) ==
  [c EXCEPT !.entries = @ + 1, !.unknownVlan = IF v = Unknown THEN @ + 1 ELSE @,
            !.byVlan[v] = @ + 1, !.byPort[p] = @ + 1, !.byType[t] = @ + 1]

CountEntry ==
  /\ Visit
  /\ ~AtLimit
  /\ LET k == keys[index]
         e == db.fdb[k]
     IN  /\ k \notin Malformed
         /\ e # Absent
         /\ counts' = Counted(counts, VlanLabel(k), PortLabel(e.port), e.type)
  /\ index' = index + 1
  /\ UNCHANGED <<outside, pc, window, keys, maps, skipped, truncated, history>>

EntriesRead ==
  /\ pc = "entry"
  /\ index > Len(keys)
  /\ pc' = "emit"
  /\ UNCHANGED <<outside, walk, maps, result, history>>

-----------------------------------------------------------------------------
(* The series.                                                             *)

Labels(by) == {l \in DOMAIN by : by[l] > 0}

\* The labels that get a series: the first max of them.
Emitted(by, max) ==
  {l \in Labels(by) : Cardinality({m \in Labels(by) : m < l}) < max}

LeftOut(by, max) == Cardinality(Labels(by) \ Emitted(by, max))

Emit ==
  /\ pc = "emit"
  /\ pc' = "done"
  /\ skipped' = skipped + LeftOut(counts.byVlan, config.maxVlans)
                        + LeftOut(counts.byPort, config.maxPorts)
  /\ UNCHANGED <<outside, walk, maps, counts, truncated, history>>

Clear ==
  /\ window' = NoWindow /\ keys' = <<>> /\ index' = 1
  /\ oidToName' = [o \in Oids |-> Nil]
  /\ bvidToVlan' = [v \in Bvids |-> Nil]
  /\ bridgePortToPort' = [b \in BridgePorts |-> Nil]
  /\ counts' = NoCounts /\ skipped' = 0 /\ truncated' = 0
  /\ changed' = {} /\ mapSkips' = 0 /\ repeated' = FALSE

\* A command fails: nil, 0, 0 and the error are returned.
Fail ==
  /\ pc \notin {"emit", "done", "failed"}
  /\ pc \in {"vlan", "bridgePort", "entry"} => index <= Len(keys)
  /\ pc' = "failed"
  /\ Clear
  /\ UNCHANGED outside

\* refreshMetrics takes the result; the next refresh starts afresh.
Return ==
  /\ pc \in {"done", "failed"}
  /\ pc' = "ports"
  /\ Clear
  /\ UNCHANGED outside

-----------------------------------------------------------------------------
\* The tables that are scanned; pc has the name of the one whose SCAN is going on.
ScannedTables == {"vlans", "bridge", "fdb"}

\* orchagent writes, rewrites or deletes the row r of the table t.
Change(t, r) ==
  /\ changes < MaxChanges
  /\ changes' = changes + 1
  /\ \E x \in Contents[t] \ {db[t][r]} :
       /\ db' = [db EXCEPT ![t][r] = x]
       /\ window' = IF t = pc /\ t \in ScannedTables
                    THEN FdbScan!Noted(window, r, x # Absent) ELSE window
  /\ changed' = changed \cup {<<t, r>>}
  /\ UNCHANGED <<config, pc, keys, index, maps, result, mapSkips, repeated>>

Next ==
  \/ ReadPortNames \/ ReadLagNames
  \/ ScanVlans \/ ReadVlan \/ VlansRead
  \/ ScanBridge \/ ReadBridgePort \/ BridgeRead
  \/ ScanEntries \/ Truncate \/ SkipEntry \/ CountEntry \/ EntriesRead
  \/ Emit \/ Fail \/ Return
  \/ \E t \in Tables : \E r \in RowsOf[t] : Change(t, r)

Spec == Init /\ [][Next]_vars

-----------------------------------------------------------------------------
(* Properties.                                                             *)

\* Every key that SCAN returned is an entry or was skipped; the one counter of
\* skipped rows is that, the rows of the maps that were of no use, and the
\* labels beyond the limits, each once.
Accounted ==
  pc = "done" =>
    skipped = mapSkips + (Len(keys) - counts.entries)
              + LeftOut(counts.byVlan, config.maxVlans)
              + LeftOut(counts.byPort, config.maxPorts)

\* The port of an entry whose rows have not changed since the scrape began, in
\* the tables as they are now; Nil when there is none or it is not unique.
Named(o) == {n \in PortNames : db.ports[n] = o} \cup {n \in LagNames : db.lags[n] = o}

StableOn(k, p) ==
  LET e == db.fdb[k]
  IN  /\ e # Absent
      /\ db.bridge[e.port] \in Oids
      /\ Named(db.bridge[e.port]) = {p}
      /\ {<<"fdb", k>>, <<"bridge", e.port>>} \cap changed = {}

StableIn(k, v) ==
  /\ db.fdb[k] # Absent
  /\ <<"fdb", k>> \notin changed
  /\ \/ OwnVlan[k] = v
     \/ OwnVlan[k] = Nil /\ db.vlans[Bvid[k]] = v /\ <<"vlans", Bvid[k]>> \notin changed

NamesStable == \A c \in changed : c[1] \notin {"ports", "lags"}

\* An entry that stayed where it was during the scrape is counted on its port
\* and in its VLAN, and not as unknown, whatever the other rows did.
StableEntryPlaced ==
  pc = "done" /\ truncated = 0 =>
    /\ NamesStable =>
         \A p \in PortNames \cup LagNames :
           counts.byPort[p] >= Cardinality({k \in Keys \ Malformed : StableOn(k, p)})
    /\ \A v \in Vlans :
         counts.byVlan[v] >= Cardinality({k \in Keys \ Malformed : StableIn(k, v)})

\* What a scrape of the tables at rest counts: the first maxEntries keys by
\* name, without the malformed ones.
FirstKeys ==
  {k \in Present("fdb") :
     Cardinality({j \in Present("fdb") : j < k}) < config.maxEntries} \ Malformed

\* Tables that do not change give the same counts at every refresh, however
\* SCAN orders the keys; truncated says that there are more keys than the limit.
QuietScrapeIsExact ==
  pc = "done" /\ changed = {} /\ ~repeated =>
    /\ counts.entries = Cardinality(FirstKeys)
    /\ truncated = IF Cardinality(Present("fdb")) > config.maxEntries THEN 1 ELSE 0
    /\ \A t \in TypeLabels :
         counts.byType[t] = Cardinality({k \in FirstKeys : db.fdb[k].type = t})
    /\ \A v \in Vlans :
         counts.byVlan[v] = Cardinality({k \in FirstKeys : StableIn(k, v)})

=============================================================================
