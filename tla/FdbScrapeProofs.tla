--------------------------- MODULE FdbScrapeProofs ---------------------------
(***************************************************************************)
(* Proofs about FdbScrape, for any tables, limits and changes of the rows: *)
(* type correctness, that the one counter of skipped rows accounts for     *)
(* every key, row and label that gives no series, that an entry that stays *)
(* where it is is counted there, and that tables at rest are counted       *)
(* exactly, up to the limit.                                               *)
(***************************************************************************)
EXTENDS FdbScrape, FiniteSetTheorems, SequenceTheorems, TLAPS

Early == {"ports", "lags", "vlans", "vlan", "bridge", "bridgePort", "fdb"}

\* The database is a function of the tables.
DbInv == db = [t \in Tables |-> db[t]]

\* The window is one of the SCAN that is going on.
WindowInv ==
  /\ pc = "vlans" => window \in BvidScan!Windows
  /\ pc = "bridge" => window \in BridgeScan!Windows
  /\ pc \notin {"vlans", "bridge"} => window \in FdbScan!Windows

\* Each key before the position was counted as an entry or as skipped.
SumInv ==
  /\ pc \in Early => counts.entries = 0
  /\ pc = "entry" => /\ skipped >= mapSkips
                     /\ skipped = mapSkips + ((index - 1) - counts.entries)
  /\ pc = "emit" => skipped = mapSkips + (Len(keys) - counts.entries)

IInv == TypeOK /\ DbInv /\ WindowInv /\ SumInv /\ Accounted

-----------------------------------------------------------------------------
(* The SCANs.                                                              *)

AllKeys == Keys \cup Bvids \cup BridgePorts

\* A slice of keys is a sequence of what was in the database.
LEMMA SliceFacts ==
  ASSUME NEW S, NEW T, S \subseteq T, NEW n \in Nat, NEW s \in [1 .. n -> S]
  PROVE  s \in Seq(T)
<1>1. s \in [1 .. n -> T]
  OBVIOUS
<1> QED
  BY <1>1, SeqDef

LEMMA ListsAreSlices ==
  ASSUME TypeOK, NEW s,
         s \in FdbScan!Lists(window) \cup BvidScan!Lists(window) \cup BridgeScan!Lists(window)
  PROVE  s \in Seq(AllKeys)
<1>1. window.ever \subseteq AllKeys
  <2>1. CASE window \in FdbScan!Windows
    BY <2>1 DEF FdbScan!Windows, AllKeys
  <2>2. CASE window \in BvidScan!Windows
    BY <2>2 DEF BvidScan!Windows, AllKeys
  <2>3. CASE window \in BridgeScan!Windows
    BY <2>3 DEF BridgeScan!Windows, AllKeys
  <2> QED
    BY <2>1, <2>2, <2>3 DEF TypeOK
<1>2. \E n \in Nat : s \in [1 .. n -> window.ever]
  <2>1. CASE s \in FdbScan!Lists(window)
    BY <2>1, SMT DEF FdbScan!Lists
  <2>2. CASE s \in BvidScan!Lists(window)
    BY <2>2, SMT DEF BvidScan!Lists
  <2>3. CASE s \in BridgeScan!Lists(window)
    BY <2>3, SMT DEF BridgeScan!Lists
  <2> QED
    BY <2>1, <2>2, <2>3
<1>3. PICK n \in Nat : s \in [1 .. n -> window.ever]
  BY <1>2
<1> QED
  BY <1>1, <1>3, SliceFacts

LEMMA OpenedTypes ==
  /\ NoWindow \in FdbScan!Windows /\ NoWindow \in BvidScan!Windows
  /\ NoWindow \in BridgeScan!Windows
  /\ FdbScan!Opened(Present("vlans")) \in BvidScan!Windows
  /\ FdbScan!Opened(Present("bridge")) \in BridgeScan!Windows
  /\ FdbScan!Opened(Present("fdb")) \in FdbScan!Windows
<1>1. /\ Present("vlans") \subseteq Bvids /\ Present("bridge") \subseteq BridgePorts
      /\ Present("fdb") \subseteq Keys
  BY DEF Present, RowsOf
<1> QED
  BY <1>1 DEF NoWindow, FdbScan!Opened, FdbScan!Windows, BvidScan!Windows, BridgeScan!Windows

LEMMA NoCountsType ==
  /\ NoCounts.entries = 0
  /\ \A n \in Nat :
       NoCounts \in [entries : 0 .. n, unknownVlan : Nat, byVlan : [VlanLabels -> Nat],
                     byPort : [PortLabels -> Nat], byType : [TypeLabels -> Nat]]
BY DEF NoCounts

LEMMA ConfigTypes ==
  ASSUME config \in Configs PROVE config.maxEntries \in Nat \ {0}
BY ConfigsAssumption

-----------------------------------------------------------------------------
(* The beginning of a scrape.                                              *)

\* What Init, Fail and Return leave of the scrape.
LEMMA FreshTypes ==
  ASSUME config \in Configs
  PROVE  /\ NoWindow \in FdbScan!Windows
         /\ <<>> \in Seq(AllKeys) /\ 1 \in 1 .. Len(<<>>) + 1
         /\ [o \in Oids |-> Nil] \in [Oids -> PortNames \cup LagNames \cup {Nil}]
         /\ [v \in Bvids |-> Nil] \in [Bvids -> Vlans \cup {Nil}]
         /\ [b \in BridgePorts |-> Nil] \in [BridgePorts -> PortNames \cup LagNames \cup {Nil}]
         /\ NoCounts.entries = 0
         /\ NoCounts \in [entries : 0 .. config.maxEntries, unknownVlan : Nat,
                          byVlan : [VlanLabels -> Nat], byPort : [PortLabels -> Nat],
                          byType : [TypeLabels -> Nat]]
<1>1. config.maxEntries \in Nat
  BY ConfigTypes
<1>2. <<>> \in Seq(AllKeys) /\ 1 \in 1 .. Len(<<>>) + 1
  OBVIOUS
<1> QED
  BY <1>1, <1>2, OpenedTypes, NoCountsType

LEMMA InitIInv == Init => IInv
<1> SUFFICES ASSUME Init PROVE IInv
  OBVIOUS
<1>1. /\ db \in Databases /\ changes = 0 /\ config \in Configs
      /\ pc = "ports" /\ window = NoWindow /\ keys = <<>> /\ index = 1
      /\ oidToName = [o \in Oids |-> Nil] /\ bvidToVlan = [v \in Bvids |-> Nil]
      /\ bridgePortToPort = [b \in BridgePorts |-> Nil]
      /\ counts = NoCounts /\ skipped = 0 /\ truncated = 0
      /\ changed = {} /\ mapSkips = 0 /\ repeated = FALSE
  BY DEF Init, Fresh
<1>2. DbInv /\ \A t \in Tables : db[t] \in [RowsOf[t] -> Contents[t]]
  BY <1>1, DatabasesAssumption DEF DbInv
<1>3. changes \in 0 .. MaxChanges
  BY <1>1, BoundsAssumption
<1>4. repeated \in BOOLEAN
  BY <1>1, Zenon
<1>5. TypeOK
  BY <1>1, <1>2, <1>3, <1>4, FreshTypes DEF TypeOK, AllKeys
<1>6. WindowInv /\ SumInv /\ Accounted
  BY <1>1, OpenedTypes, NoCountsType DEF WindowInv, SumInv, Accounted
<1> QED
  BY <1>2, <1>5, <1>6 DEF IInv

-----------------------------------------------------------------------------
(* Reading the maps.                                                       *)

LEMMA InversesType ==
  ASSUME NEW D, NEW m \in [D -> Oids \cup {Nil}], NEW f \in Inverses(m)
  PROVE  f \in [Oids -> D \cup {Nil}]
BY DEF Inverses

\* The counter of a label, and no other, goes up.
LEMMA BumpType ==
  ASSUME NEW D, NEW f \in [D -> Nat], NEW x
  PROVE  [f EXCEPT ![x] = @ + 1] \in [D -> Nat]
<1>1. CASE x \in D
  BY <1>1
<1>2. CASE x \notin D
  BY <1>2
<1> QED
  BY <1>1, <1>2

LEMMA UpdateType ==
  ASSUME NEW D, NEW R, NEW f \in [D -> R], NEW x, NEW y \in R
  PROVE  [f EXCEPT ![x] = y] \in [D -> R]
OBVIOUS

LEMMA NameTables ==
  ASSUME TypeOK
  PROVE  /\ db.ports \in [PortNames -> Oids \cup {Nil}]
         /\ db.lags \in [LagNames -> Oids \cup {Nil}]
BY DEF TypeOK, Tables, RowsOf, Contents

LEMMA ReadPortNamesStep == IInv /\ ReadPortNames => IInv'
<1> SUFFICES ASSUME IInv, ReadPortNames PROVE IInv'
  OBVIOUS
<1> USE DEF IInv
<1>1. /\ pc = "ports" /\ pc' = "lags"
      /\ oidToName' \in Inverses(db.ports)
      /\ UNCHANGED <<db, changes, config, window, keys, index, bvidToVlan, bridgePortToPort,
                     counts, skipped, truncated, changed, mapSkips, repeated>>
  BY DEF ReadPortNames, outside, walk, result, history
<1>2. oidToName' \in [Oids -> PortNames \cup LagNames \cup {Nil}]
  <2>1. oidToName' \in [Oids -> PortNames \cup {Nil}]
    BY <1>1, NameTables, InversesType
  <2> QED
    BY <2>1
<1>3. TypeOK'
  BY <1>1, <1>2 DEF TypeOK
<1>4. DbInv' /\ WindowInv' /\ SumInv' /\ Accounted'
  BY <1>1 DEF DbInv, WindowInv, SumInv, Accounted, Early
<1> QED
  BY <1>3, <1>4

LEMMA ReadLagNamesStep == IInv /\ ReadLagNames => IInv'
<1> SUFFICES ASSUME IInv, ReadLagNames PROVE IInv'
  OBVIOUS
<1> USE DEF IInv
<1>1. /\ pc = "lags" /\ pc' = "vlans"
      /\ window' = FdbScan!Opened(Present("vlans"))
      /\ UNCHANGED <<db, changes, config, keys, index, bvidToVlan, bridgePortToPort,
                     counts, skipped, truncated, changed, mapSkips, repeated>>
  BY DEF ReadLagNames, outside, result, history
<1>2. PICK f \in Inverses(db.lags) :
        oidToName' = [o \in Oids |-> IF f[o] # Nil THEN f[o] ELSE oidToName[o]]
  BY DEF ReadLagNames
<1>3. oidToName' \in [Oids -> PortNames \cup LagNames \cup {Nil}]
  <2>1. f \in [Oids -> LagNames \cup {Nil}]
    BY NameTables, InversesType
  <2>2. oidToName \in [Oids -> PortNames \cup LagNames \cup {Nil}]
    BY DEF TypeOK
  <2> QED
    BY <1>2, <2>1, <2>2
<1>4. window' \in BvidScan!Windows
  BY <1>1, OpenedTypes
<1>5. TypeOK'
  BY <1>1, <1>3, <1>4 DEF TypeOK
<1>6. DbInv' /\ WindowInv' /\ SumInv' /\ Accounted'
  BY <1>1, <1>4 DEF DbInv, WindowInv, SumInv, Accounted, Early
<1> QED
  BY <1>5, <1>6

\* A SCAN that returns a slice, with the position at its first key.
LEMMA ScannedStep ==
  ASSUME IInv, NEW s \in Seq(AllKeys), NEW next \in {"vlan", "bridgePort", "entry"},
         pc \in Early, Scanned(s, next), mapSkips' \in Nat,
         next = "entry" => mapSkips' = skipped
  PROVE  IInv'
<1> USE DEF IInv
<1>1. /\ keys' = s /\ index' = 1 /\ pc' = next /\ window' = NoWindow
      /\ repeated' = (repeated \/ FdbScan!IsRepeated(s))
      /\ UNCHANGED <<db, changes, config, oidToName, bvidToVlan, bridgePortToPort,
                     counts, skipped, truncated, changed>>
  BY DEF Scanned, outside, maps, result
<1>2. repeated' \in BOOLEAN
  BY <1>1, Zenon
<1>3. Len(s) \in Nat /\ 1 \in 1 .. Len(s) + 1
  OBVIOUS
<1>4. window' \in FdbScan!Windows
  BY <1>1, OpenedTypes
<1>5. TypeOK'
  BY <1>1, <1>2, <1>3, <1>4 DEF TypeOK, AllKeys
<1>6. counts.entries = 0 /\ skipped \in Nat
  BY DEF SumInv, TypeOK
<1>7. DbInv' /\ WindowInv' /\ SumInv' /\ Accounted'
  BY <1>1, <1>4, <1>6 DEF DbInv, WindowInv, SumInv, Accounted, Early
<1> QED
  BY <1>5, <1>7

LEMMA ScanVlansStep == IInv /\ ScanVlans => IInv'
<1> SUFFICES ASSUME IInv, ScanVlans PROVE IInv'
  OBVIOUS
<1>1. PICK s \in BvidScan!Lists(window) : Scanned(s, "vlan")
  BY DEF ScanVlans
<1>2. s \in Seq(AllKeys)
  BY ListsAreSlices DEF IInv
<1>3. pc \in Early /\ mapSkips' \in Nat
  BY DEF ScanVlans, Early, IInv, TypeOK
<1> QED
  BY <1>1, <1>2, <1>3, ScannedStep

LEMMA ScanBridgeStep == IInv /\ ScanBridge => IInv'
<1> SUFFICES ASSUME IInv, ScanBridge PROVE IInv'
  OBVIOUS
<1>1. PICK s \in BridgeScan!Lists(window) : Scanned(s, "bridgePort")
  BY DEF ScanBridge
<1>2. s \in Seq(AllKeys)
  BY ListsAreSlices DEF IInv
<1>3. pc \in Early /\ mapSkips' \in Nat
  BY DEF ScanBridge, Early, IInv, TypeOK
<1> QED
  BY <1>1, <1>2, <1>3, ScannedStep

LEMMA ScanEntriesStep == IInv /\ ScanEntries => IInv'
<1> SUFFICES ASSUME IInv, ScanEntries PROVE IInv'
  OBVIOUS
<1>1. PICK s \in FdbScan!SortedLists(window) : Scanned(s, "entry")
  BY DEF ScanEntries
<1>2. s \in FdbScan!Lists(window)
  BY DEF FdbScan!SortedLists
<1>3. s \in Seq(AllKeys)
  BY <1>2, ListsAreSlices DEF IInv
<1>4. pc \in Early /\ mapSkips' \in Nat /\ mapSkips' = skipped
  BY DEF ScanEntries, Early, IInv, TypeOK
<1> QED
  BY <1>1, <1>3, <1>4, ScannedStep

LEMMA ReadVlanStep == IInv /\ ReadVlan => IInv'
<1> SUFFICES ASSUME IInv, ReadVlan PROVE IInv'
  OBVIOUS
<1> USE DEF IInv
<1>1. /\ pc = "vlan" /\ index <= Len(keys) /\ index' = index + 1
      /\ UNCHANGED <<db, changes, config, pc, window, keys, oidToName, bridgePortToPort,
                     counts, truncated, changed, mapSkips, repeated>>
  BY DEF ReadVlan, outside, history
<1>2. bvidToVlan' \in [Bvids -> Vlans \cup {Nil}] /\ skipped' \in Nat
  <2>1. bvidToVlan \in [Bvids -> Vlans \cup {Nil}] /\ skipped \in Nat
    BY DEF TypeOK
  <2>2. CASE db.vlans[keys[index]] \in Vlans
    BY <2>1, <2>2, UpdateType DEF ReadVlan
  <2>3. CASE db.vlans[keys[index]] \notin Vlans
    BY <2>1, <2>3 DEF ReadVlan
  <2> QED
    BY <2>2, <2>3
<1>3. index' \in 1 .. Len(keys) + 1
  BY <1>1 DEF TypeOK
<1>4. TypeOK'
  BY <1>1, <1>2, <1>3 DEF TypeOK
<1>5. DbInv' /\ WindowInv' /\ SumInv' /\ Accounted'
  BY <1>1 DEF DbInv, WindowInv, SumInv, Accounted, Early
<1> QED
  BY <1>4, <1>5

LEMMA ReadBridgePortStep == IInv /\ ReadBridgePort => IInv'
<1> SUFFICES ASSUME IInv, ReadBridgePort PROVE IInv'
  OBVIOUS
<1> USE DEF IInv
<1> DEFINE b == keys[index]
           n == IF db.bridge[b] \in Oids THEN oidToName[db.bridge[b]] ELSE Nil
<1>1. /\ pc = "bridgePort" /\ index <= Len(keys) /\ index' = index + 1
      /\ bridgePortToPort' = IF n = Nil THEN bridgePortToPort
                             ELSE [bridgePortToPort EXCEPT ![b] = n]
      /\ skipped' = IF db.bridge[b] \in Oids /\ n = Nil THEN skipped + 1 ELSE skipped
      /\ UNCHANGED <<db, changes, config, pc, window, keys, oidToName, bvidToVlan,
                     counts, truncated, changed, mapSkips, repeated>>
  BY DEF ReadBridgePort, outside, history
<1>2. bridgePortToPort' \in [BridgePorts -> PortNames \cup LagNames \cup {Nil}]
  <2>1. bridgePortToPort \in [BridgePorts -> PortNames \cup LagNames \cup {Nil}]
    BY DEF TypeOK
  <2>2. n \in PortNames \cup LagNames \cup {Nil}
    BY DEF TypeOK
  <2> HIDE DEF b, n
  <2> QED
    BY <1>1, <2>1, <2>2, UpdateType
<1>3. skipped' \in Nat
  BY <1>1 DEF TypeOK
<1>4. index' \in 1 .. Len(keys) + 1
  BY <1>1 DEF TypeOK
<1> HIDE DEF b, n
<1>5. TypeOK'
  BY <1>1, <1>2, <1>3, <1>4 DEF TypeOK
<1>6. DbInv' /\ WindowInv' /\ SumInv' /\ Accounted'
  BY <1>1 DEF DbInv, WindowInv, SumInv, Accounted, Early
<1> QED
  BY <1>5, <1>6

LEMMA VlansReadStep == IInv /\ VlansRead => IInv'
<1> SUFFICES ASSUME IInv, VlansRead PROVE IInv'
  OBVIOUS
<1> USE DEF IInv
<1>1. /\ pc = "vlan" /\ pc' = "bridge" /\ window' = FdbScan!Opened(Present("bridge"))
      /\ UNCHANGED <<db, changes, config, keys, index, oidToName, bvidToVlan,
                     bridgePortToPort, counts, skipped, truncated, changed, mapSkips, repeated>>
  BY DEF VlansRead, outside, maps, result, history
<1>2. window' \in BridgeScan!Windows
  BY <1>1, OpenedTypes
<1>3. TypeOK'
  BY <1>1, <1>2 DEF TypeOK
<1>4. DbInv' /\ WindowInv' /\ SumInv' /\ Accounted'
  BY <1>1, <1>2 DEF DbInv, WindowInv, SumInv, Accounted, Early
<1> QED
  BY <1>3, <1>4

LEMMA BridgeReadStep == IInv /\ BridgeRead => IInv'
<1> SUFFICES ASSUME IInv, BridgeRead PROVE IInv'
  OBVIOUS
<1> USE DEF IInv
<1>1. /\ pc = "bridgePort" /\ pc' = "fdb" /\ window' = FdbScan!Opened(Present("fdb"))
      /\ UNCHANGED <<db, changes, config, keys, index, oidToName, bvidToVlan,
                     bridgePortToPort, counts, skipped, truncated, changed, mapSkips, repeated>>
  BY DEF BridgeRead, outside, maps, result, history
<1>2. window' \in FdbScan!Windows
  BY <1>1, OpenedTypes
<1>3. TypeOK'
  BY <1>1, <1>2 DEF TypeOK
<1>4. DbInv' /\ WindowInv' /\ SumInv' /\ Accounted'
  BY <1>1, <1>2 DEF DbInv, WindowInv, SumInv, Accounted, Early
<1> QED
  BY <1>3, <1>4

-----------------------------------------------------------------------------
(* The entries.                                                            *)

LEMMA TruncateStep == IInv /\ Truncate => IInv'
<1> SUFFICES ASSUME IInv, Truncate PROVE IInv'
  OBVIOUS
<1> USE DEF IInv
<1>1. /\ pc = "entry" /\ index <= Len(keys) /\ pc' = "emit" /\ truncated' = 1
      /\ skipped' = skipped + (Len(keys) - index) + 1
      /\ UNCHANGED <<db, changes, config, window, keys, index, oidToName, bvidToVlan,
                     bridgePortToPort, counts, changed, mapSkips, repeated>>
  BY DEF Truncate, Visit, outside, walk, maps, history
<1>2. /\ index \in 1 .. Len(keys) + 1 /\ Len(keys) \in Nat /\ skipped \in Nat
      /\ mapSkips \in Nat /\ counts.entries \in Nat
      /\ skipped = mapSkips + ((index - 1) - counts.entries)
  <2>1. config.maxEntries \in Nat
    BY ConfigTypes DEF TypeOK
  <2> QED
    BY <1>1, <2>1 DEF TypeOK, SumInv
<1>3. skipped' \in Nat /\ skipped' = mapSkips + (Len(keys) - counts.entries)
  BY <1>1, <1>2
<1>4. TypeOK'
  BY <1>1, <1>3 DEF TypeOK
<1>5. DbInv' /\ WindowInv' /\ SumInv' /\ Accounted'
  BY <1>1, <1>3 DEF DbInv, WindowInv, SumInv, Accounted, Early
<1> QED
  BY <1>4, <1>5

LEMMA SkipEntryStep == IInv /\ SkipEntry => IInv'
<1> SUFFICES ASSUME IInv, SkipEntry PROVE IInv'
  OBVIOUS
<1> USE DEF IInv
<1>1. /\ pc = "entry" /\ index <= Len(keys)
      /\ skipped' = skipped + 1 /\ index' = index + 1
      /\ UNCHANGED <<db, changes, config, pc, window, keys, oidToName, bvidToVlan,
                     bridgePortToPort, counts, truncated, changed, mapSkips, repeated>>
  BY DEF SkipEntry, Visit, outside, maps, history
<1>2. /\ index \in 1 .. Len(keys) + 1 /\ Len(keys) \in Nat /\ skipped \in Nat
      /\ mapSkips \in Nat /\ counts.entries \in Nat /\ skipped >= mapSkips
      /\ skipped = mapSkips + ((index - 1) - counts.entries)
  <2>1. config.maxEntries \in Nat
    BY ConfigTypes DEF TypeOK
  <2> QED
    BY <1>1, <2>1 DEF TypeOK, SumInv
<1>3. /\ skipped' \in Nat /\ index' \in 1 .. Len(keys) + 1 /\ skipped' >= mapSkips
      /\ skipped' = mapSkips + ((index' - 1) - counts.entries)
  BY <1>1, <1>2
<1>4. TypeOK'
  BY <1>1, <1>3 DEF TypeOK
<1>5. DbInv' /\ WindowInv' /\ SumInv' /\ Accounted'
  BY <1>1, <1>3 DEF DbInv, WindowInv, SumInv, Accounted, Early
<1> QED
  BY <1>4, <1>5

\* The limit is tested on the position, which the entries counted so far do not pass.
LEMMA CountedType ==
  ASSUME NEW max \in Nat, NEW v, NEW p, NEW t,
         NEW c \in [entries : 0 .. max, unknownVlan : Nat, byVlan : [VlanLabels -> Nat],
                    byPort : [PortLabels -> Nat], byType : [TypeLabels -> Nat]],
         c.entries < max
  PROVE  /\ Counted(c, v, p, t) \in
              [entries : 0 .. max, unknownVlan : Nat, byVlan : [VlanLabels -> Nat],
               byPort : [PortLabels -> Nat], byType : [TypeLabels -> Nat]]
         /\ Counted(c, v, p, t).entries = c.entries + 1
<1> DEFINE bv == [c.byVlan EXCEPT ![v] = @ + 1]
           bp == [c.byPort EXCEPT ![p] = @ + 1]
           bt == [c.byType EXCEPT ![t] = @ + 1]
           uv == IF v = Unknown THEN c.unknownVlan + 1 ELSE c.unknownVlan
<1>1. bv \in [VlanLabels -> Nat] /\ bp \in [PortLabels -> Nat] /\ bt \in [TypeLabels -> Nat]
  BY BumpType
<1>2. uv \in Nat /\ c.entries + 1 \in 0 .. max
  OBVIOUS
<1>3. Counted(c, v, p, t) = [entries |-> c.entries + 1, unknownVlan |-> uv,
                             byVlan |-> bv, byPort |-> bp, byType |-> bt]
  <2>1. c = [entries |-> c.entries, unknownVlan |-> c.unknownVlan, byVlan |-> c.byVlan,
             byPort |-> c.byPort, byType |-> c.byType]
    OBVIOUS
  <2>2. Counted(c, v, p, t) =
          [c EXCEPT !.entries = c.entries + 1, !.unknownVlan = uv, !.byVlan = bv,
                    !.byPort = bp, !.byType = bt]
    BY <2>1 DEF Counted
  <2> HIDE DEF bv, bp, bt, uv
  <2> QED
    BY <2>1, <2>2
<1> HIDE DEF bv, bp, bt, uv
<1> QED
  BY <1>1, <1>2, <1>3

LEMMA CountEntryStep == IInv /\ CountEntry => IInv'
<1> SUFFICES ASSUME IInv, CountEntry PROVE IInv'
  OBVIOUS
<1> USE DEF IInv
<1>1. PICK v, p, t :
        /\ pc = "entry" /\ index <= Len(keys) /\ index' = index + 1
        /\ ~ (index > config.maxEntries)
        /\ counts' = Counted(counts, v, p, t)
        /\ UNCHANGED <<db, changes, config, pc, window, keys, oidToName, bvidToVlan,
                       bridgePortToPort, skipped, truncated, changed, mapSkips, repeated>>
  BY DEF CountEntry, Visit, AtLimit, outside, maps, history
<1>2. config.maxEntries \in Nat
  BY ConfigTypes DEF TypeOK
<1>3. /\ index \in 1 .. Len(keys) + 1 /\ Len(keys) \in Nat /\ skipped \in Nat
      /\ mapSkips \in Nat /\ counts.entries \in Nat /\ skipped >= mapSkips
      /\ skipped = mapSkips + ((index - 1) - counts.entries)
  BY <1>1, <1>2 DEF TypeOK, SumInv
<1>4. counts.entries < config.maxEntries
  BY <1>1, <1>2, <1>3
<1>5. /\ counts' \in [entries : 0 .. config.maxEntries, unknownVlan : Nat,
                      byVlan : [VlanLabels -> Nat], byPort : [PortLabels -> Nat],
                      byType : [TypeLabels -> Nat]]
      /\ counts'.entries = counts.entries + 1
  <2>1. counts \in [entries : 0 .. config.maxEntries, unknownVlan : Nat,
                    byVlan : [VlanLabels -> Nat], byPort : [PortLabels -> Nat],
                    byType : [TypeLabels -> Nat]]
    BY DEF TypeOK
  <2> QED
    BY <1>1, <1>2, <1>4, <2>1, CountedType
<1>6. /\ index' \in 1 .. Len(keys) + 1
      /\ skipped = mapSkips + ((index' - 1) - counts'.entries)
  BY <1>1, <1>3, <1>5
<1>7. TypeOK'
  BY <1>1, <1>5, <1>6 DEF TypeOK
<1>8. DbInv' /\ WindowInv' /\ SumInv' /\ Accounted'
  BY <1>1, <1>3, <1>6 DEF DbInv, WindowInv, SumInv, Accounted, Early
<1> QED
  BY <1>7, <1>8

LEMMA EntriesReadStep == IInv /\ EntriesRead => IInv'
<1> SUFFICES ASSUME IInv, EntriesRead PROVE IInv'
  OBVIOUS
<1> USE DEF IInv
<1>1. /\ pc = "entry" /\ index > Len(keys) /\ pc' = "emit"
      /\ UNCHANGED <<db, changes, config, window, keys, index, oidToName, bvidToVlan,
                     bridgePortToPort, counts, skipped, truncated, changed, mapSkips, repeated>>
  BY DEF EntriesRead, outside, walk, maps, result, history
<1>2. index = Len(keys) + 1 /\ Len(keys) \in Nat
  <2>1. keys \in Seq(AllKeys) /\ index \in 1 .. Len(keys) + 1
    BY DEF TypeOK, AllKeys
  <2>2. Len(keys) \in Nat
    BY <2>1
  <2> QED
    BY <1>1, <2>1, <2>2
<1>3. skipped = mapSkips + (Len(keys) - counts.entries)
  BY <1>1, <1>2 DEF SumInv
<1>4. TypeOK'
  BY <1>1 DEF TypeOK
<1>5. DbInv' /\ WindowInv' /\ SumInv' /\ Accounted'
  BY <1>1, <1>3 DEF DbInv, WindowInv, SumInv, Accounted, Early
<1> QED
  BY <1>4, <1>5

-----------------------------------------------------------------------------
(* The end of a scrape, and the tables.                                    *)

\* However many labels there are, the ones left out can be counted.
LEMMA LeftOutType ==
  ASSUME NEW D, IsFiniteSet(D), NEW by \in [D -> Nat], NEW max
  PROVE  LeftOut(by, max) \in Nat
<1>1. Labels(by) \ Emitted(by, max) \subseteq D
  BY DEF Labels
<1> QED
  BY <1>1, FS_Subset, FS_CardinalityType DEF LeftOut

LEMMA EmitStep == IInv /\ Emit => IInv'
<1> SUFFICES ASSUME IInv, Emit PROVE IInv'
  OBVIOUS
<1> USE DEF IInv
<1> DEFINE a == LeftOut(counts.byVlan, config.maxVlans)
           b == LeftOut(counts.byPort, config.maxPorts)
<1>1. /\ pc = "emit" /\ pc' = "done" /\ skipped' = skipped + a + b
      /\ UNCHANGED <<db, changes, config, window, keys, index, oidToName, bvidToVlan,
                     bridgePortToPort, counts, truncated, changed, mapSkips, repeated>>
  BY DEF Emit, outside, walk, maps, history
<1>2. a \in Nat /\ b \in Nat
  <2>1. counts.byVlan \in [VlanLabels -> Nat] /\ counts.byPort \in [PortLabels -> Nat]
    BY DEF TypeOK
  <2> QED
    BY <2>1, LabelsAssumption, LeftOutType
<1>3. skipped = mapSkips + (Len(keys) - counts.entries)
  BY <1>1 DEF SumInv
<1>4. Accounted'
  BY <1>1, <1>3, Zenon DEF Accounted
<1> HIDE DEF a, b
<1>5. skipped' \in Nat
  BY <1>1, <1>2 DEF TypeOK
<1>6. TypeOK'
  BY <1>1, <1>5 DEF TypeOK
<1>7. DbInv' /\ WindowInv' /\ SumInv'
  BY <1>1 DEF DbInv, WindowInv, SumInv, Early
<1> QED
  BY <1>4, <1>6, <1>7

\* Fail and Return leave nothing of the scrape.
LEMMA ClearStep ==
  ASSUME IInv, Clear, UNCHANGED outside, pc' \in {"failed", "ports"}
  PROVE  IInv'
<1> USE DEF IInv
<1>1. /\ window' = NoWindow /\ keys' = <<>> /\ index' = 1
      /\ oidToName' = [o \in Oids |-> Nil] /\ bvidToVlan' = [v \in Bvids |-> Nil]
      /\ bridgePortToPort' = [b \in BridgePorts |-> Nil]
      /\ counts' = NoCounts /\ skipped' = 0 /\ truncated' = 0
      /\ changed' = {} /\ mapSkips' = 0 /\ repeated' = FALSE
      /\ UNCHANGED <<db, changes, config>>
  BY DEF Clear, outside
<1>2. repeated' \in BOOLEAN
  BY <1>1, Zenon
<1>3. config \in Configs
  BY DEF TypeOK
<1>4. TypeOK'
  BY <1>1, <1>2, <1>3, FreshTypes DEF TypeOK, AllKeys
<1>5. DbInv' /\ WindowInv' /\ SumInv' /\ Accounted'
  BY <1>1, OpenedTypes, NoCountsType DEF DbInv, WindowInv, SumInv, Accounted, Early
<1> QED
  BY <1>4, <1>5

LEMMA ChangeStep ==
  ASSUME IInv, NEW t \in Tables, NEW r \in RowsOf[t], Change(t, r)
  PROVE  IInv'
<1> USE DEF IInv
<1>1. PICK x \in Contents[t] :
        /\ db' = [db EXCEPT ![t][r] = x]
        /\ window' = IF t = pc /\ t \in ScannedTables
                     THEN FdbScan!Noted(window, r, x # Absent) ELSE window
  BY DEF Change
<1>2. /\ changes < MaxChanges /\ changes' = changes + 1 /\ changed' = changed \cup {<<t, r>>}
      /\ UNCHANGED <<config, pc, keys, index, oidToName, bvidToVlan, bridgePortToPort,
                     counts, skipped, truncated, mapSkips, repeated>>
  BY DEF Change, maps, result
<1>3. DbInv' /\ \A u \in Tables : db'[u] \in [RowsOf[u] -> Contents[u]]
  <2>1. db = [u \in Tables |-> db[u]] /\ \A u \in Tables : db[u] \in [RowsOf[u] -> Contents[u]]
    BY DEF DbInv, TypeOK
  <2>2. [db[t] EXCEPT ![r] = x] \in [RowsOf[t] -> Contents[t]]
    BY <2>1
  <2>3. db' = [u \in Tables |-> IF u = t THEN [db[t] EXCEPT ![r] = x] ELSE db[u]]
    BY <1>1, <2>1
  <2> QED
    BY <2>1, <2>2, <2>3 DEF DbInv
<1>4. /\ WindowInv'
      /\ window' \in FdbScan!Windows \cup BvidScan!Windows \cup BridgeScan!Windows
  <2>1. CASE t = pc /\ t = "vlans"
    <3>1. window \in BvidScan!Windows /\ r \in Bvids
      BY <2>1 DEF WindowInv, RowsOf
    <3>2. window' \in BvidScan!Windows
      BY <1>1, <2>1, <3>1 DEF ScannedTables, FdbScan!Noted, BvidScan!Windows
    <3> QED
      BY <1>2, <2>1, <3>2 DEF WindowInv
  <2>2. CASE t = pc /\ t = "bridge"
    <3>1. window \in BridgeScan!Windows /\ r \in BridgePorts
      BY <2>2 DEF WindowInv, RowsOf
    <3>2. window' \in BridgeScan!Windows
      BY <1>1, <2>2, <3>1 DEF ScannedTables, FdbScan!Noted, BridgeScan!Windows
    <3> QED
      BY <1>2, <2>2, <3>2 DEF WindowInv
  <2>3. CASE t = pc /\ t = "fdb"
    <3>1. window \in FdbScan!Windows /\ r \in Keys
      BY <2>3 DEF WindowInv, RowsOf
    <3>2. window' \in FdbScan!Windows
      BY <1>1, <2>3, <3>1 DEF ScannedTables, FdbScan!Noted, FdbScan!Windows
    <3> QED
      BY <1>2, <2>3, <3>2 DEF WindowInv
  <2>4. CASE ~ (t = pc /\ t \in ScannedTables)
    BY <1>1, <1>2, <2>4 DEF WindowInv, TypeOK
  <2> QED
    BY <2>1, <2>2, <2>3, <2>4 DEF ScannedTables
<1>5. changed' \subseteq UNION {{u} \X RowsOf[u] : u \in Tables}
  BY <1>2 DEF TypeOK
<1>6. changes' \in 0 .. MaxChanges
  BY <1>2, BoundsAssumption DEF TypeOK
<1>7. TypeOK'
  BY <1>2, <1>3, <1>4, <1>5, <1>6 DEF TypeOK
<1>8. SumInv' /\ Accounted'
  BY <1>2 DEF SumInv, Accounted, Early
<1> QED
  BY <1>3, <1>4, <1>7, <1>8

LEMMA StutterStep == IInv /\ UNCHANGED vars => IInv'
<1> SUFFICES ASSUME IInv, UNCHANGED vars PROVE IInv'
  OBVIOUS
<1>1. UNCHANGED <<db, changes, config, pc, window, keys, index, oidToName, bvidToVlan,
                  bridgePortToPort, counts, skipped, truncated, changed, mapSkips, repeated>>
  BY DEF vars, outside, walk, maps, result, history
<1>2. TypeOK' /\ DbInv' /\ WindowInv' /\ SumInv' /\ Accounted'
  BY <1>1 DEF IInv, TypeOK, DbInv, WindowInv, SumInv, Accounted
<1> QED
  BY <1>2 DEF IInv

LEMMA NextIInv == IInv /\ [Next]_vars => IInv'
<1> SUFFICES ASSUME IInv, [Next]_vars PROVE IInv'
  OBVIOUS
<1>1. CASE ReadPortNames \/ ReadLagNames
  BY <1>1, ReadPortNamesStep, ReadLagNamesStep
<1>2. CASE ScanVlans \/ ReadVlan \/ VlansRead
  BY <1>2, ScanVlansStep, ReadVlanStep, VlansReadStep
<1>3. CASE ScanBridge \/ ReadBridgePort \/ BridgeRead
  BY <1>3, ScanBridgeStep, ReadBridgePortStep, BridgeReadStep
<1>4. CASE ScanEntries \/ Truncate \/ SkipEntry \/ CountEntry \/ EntriesRead
  BY <1>4, ScanEntriesStep, TruncateStep, SkipEntryStep, CountEntryStep, EntriesReadStep
<1>5. CASE Emit
  BY <1>5, EmitStep
<1>6. CASE Fail \/ Return
  BY <1>6, ClearStep DEF Fail, Return
<1>7. CASE \E t \in Tables : \E r \in RowsOf[t] : Change(t, r)
  BY <1>7, ChangeStep
<1>8. CASE UNCHANGED vars
  BY <1>8, StutterStep
<1> QED
  BY <1>1, <1>2, <1>3, <1>4, <1>5, <1>6, <1>7, <1>8 DEF Next

-----------------------------------------------------------------------------
(* StableEntryPlaced: the invariant, inductive relative to IInv.           *)

AfterVlans  == {"bridge", "bridgePort", "fdb", "entry", "emit", "done"}
AfterBridge == {"fdb", "entry", "emit", "done"}
AfterFdb    == {"entry", "emit", "done"}

Names == PortNames \cup LagNames

\* The keys of the slice that were looked at, and all of them.
Walked     == {keys[j] : j \in 1 .. index - 1}
ListedKeys == {keys[j] : j \in 1 .. Len(keys)}

IsStable(t, r) == <<t, r>> \notin changed

\* While the names stay, the map has the name of an id that has one only; until
\* the LAGs are read, of the ports that have it.
NamesInv ==
  NamesStable =>
    /\ pc = "lags" =>
         \A o \in Oids :
           (\E n \in PortNames : db.ports[n] = o)
             => oidToName[o] \in PortNames /\ db.ports[oidToName[o]] = o
    /\ pc \in {"vlans", "vlan"} \cup AfterVlans =>
         \A o \in Oids, p \in Names : Named(o) = {p} => oidToName[o] = p

\* A row that stays is in the window of the SCAN, and then in the slice.
ScanInv ==
  pc \in ScannedTables =>
    \A r \in Present(pc) : IsStable(pc, r) => r \in window.throughout

SliceInv ==
  /\ pc = "vlan" => \A r \in Present("vlans") : IsStable("vlans", r) => r \in ListedKeys
  /\ pc = "bridgePort" => \A r \in Present("bridge") : IsStable("bridge", r) => r \in ListedKeys
  /\ pc \in AfterFdb => \A r \in Present("fdb") : IsStable("fdb", r) => r \in ListedKeys

\* The maps hold what a row that stays says, once it was looked at.
VlanInv ==
  \A b \in Bvids :
    /\ db.vlans[b] \in Vlans /\ IsStable("vlans", b)
    /\ pc \in AfterVlans \/ (pc = "vlan" /\ b \in Walked)
    => bvidToVlan[b] = db.vlans[b]

BridgeInv ==
  NamesStable =>
    \A b \in BridgePorts, p \in Names :
      /\ db.bridge[b] \in Oids /\ Named(db.bridge[b]) = {p} /\ IsStable("bridge", b)
      /\ pc \in AfterBridge \/ (pc = "bridgePort" /\ b \in Walked)
      => bridgePortToPort[b] = p

\* The keys looked at that stayed on p, and in v.
KeysOn(p) == {k \in (Walked \cap Keys) \ Malformed : StableOn(k, p)}
KeysIn(v) == {k \in (Walked \cap Keys) \ Malformed : StableIn(k, v)}

PlacedInv ==
  pc \in AfterFdb =>
    /\ NamesStable => \A p \in Names : counts.byPort[p] >= Cardinality(KeysOn(p))
    /\ \A v \in Vlans : counts.byVlan[v] >= Cardinality(KeysIn(v))

\* Without truncation the slice was walked to its end.
EndInv == pc \in {"emit", "done"} /\ truncated = 0 => index > Len(keys)

MapsInv == NamesInv /\ ScanInv /\ SliceInv /\ VlanInv /\ BridgeInv

LEMMA TableTypes ==
  ASSUME TypeOK
  PROVE  /\ db.vlans \in [Bvids -> Vlans \cup {Absent, Blank}]
         /\ db.bridge \in [BridgePorts -> Oids \cup {Absent, Blank}]
         /\ db.fdb \in [Keys -> [port : BridgePorts, type : TypeLabels] \cup {Absent}]
BY DEF TypeOK, Tables, RowsOf, Contents

\* What a change of a row leaves alone.
LEMMA ChangeFacts ==
  ASSUME TypeOK, DbInv, NEW t \in Tables, NEW r \in RowsOf[t], Change(t, r)
  PROVE  /\ \A u \in Tables : \A x \in RowsOf[u] :
              IsStable(u, x)' => IsStable(u, x) /\ db'[u][x] = db[u][x]
         /\ NamesStable' => NamesStable /\ db'.ports = db.ports /\ db'.lags = db.lags
<1>1. /\ \E x : db' = [db EXCEPT ![t][r] = x]
      /\ changed' = changed \cup {<<t, r>>}
  BY DEF Change
<1>2. PICK y : db' = [db EXCEPT ![t][r] = y]
  BY <1>1
<1>3. db = [u \in Tables |-> db[u]]
  BY DEF DbInv
<1>4. \A u \in Tables : db'[u] = IF u = t THEN [db[u] EXCEPT ![r] = y] ELSE db[u]
  BY <1>2, <1>3
<1>5. ASSUME NEW u \in Tables, NEW x \in RowsOf[u], IsStable(u, x)'
      PROVE  IsStable(u, x) /\ db'[u][x] = db[u][x]
  <2>1. <<u, x>> \notin changed'
    BY <1>5 DEF IsStable
  <2>2. <<u, x>> \notin changed /\ ~(u = t /\ x = r)
    BY <1>1, <2>1
  <2>3. db[u] \in [RowsOf[u] -> Contents[u]]
    BY DEF TypeOK
  <2>4. db'[u][x] = db[u][x]
    BY <1>4, <2>2, <2>3
  <2> QED
    BY <2>2, <2>4 DEF IsStable
<1>6. ASSUME NamesStable' PROVE NamesStable /\ db'.ports = db.ports /\ db'.lags = db.lags
  <2>1. \A c \in changed' : c[1] \notin {"ports", "lags"}
    BY <1>6 DEF NamesStable
  <2>2. t \notin {"ports", "lags"} /\ NamesStable
    <3>1. <<t, r>> \in changed' /\ \A c \in changed : c \in changed'
      BY <1>1
    <3>2. <<t, r>>[1] \notin {"ports", "lags"}
      BY <2>1, <3>1
    <3>3. \A c \in changed : c[1] \notin {"ports", "lags"}
      BY <2>1, <3>1
    <3> QED
      BY <3>2, <3>3 DEF NamesStable
  <2>3. "ports" \in Tables /\ "lags" \in Tables
    BY DEF Tables, RowsOf
  <2> QED
    BY <1>4, <2>2, <2>3
<1> QED
  BY <1>5, <1>6

-----------------------------------------------------------------------------
(* The names.                                                              *)

LEMMA NamesSame ==
  ASSUME NamesInv, UNCHANGED oidToName,
         NamesStable' => NamesStable /\ db'.ports = db.ports /\ db'.lags = db.lags,
         pc' = "lags" => pc = "lags",
         pc' \in {"vlans", "vlan"} \cup AfterVlans => pc \in {"vlans", "vlan"} \cup AfterVlans
  PROVE  NamesInv'
<1> SUFFICES ASSUME NamesStable'
             PROVE  /\ pc' = "lags" =>
                         \A o \in Oids :
                           (\E n \in PortNames : db'.ports[n] = o)
                             => oidToName'[o] \in PortNames /\ db'.ports[oidToName'[o]] = o
                    /\ pc' \in {"vlans", "vlan"} \cup AfterVlans =>
                         \A o \in Oids, p \in Names : Named(o)' = {p} => oidToName'[o] = p
  BY DEF NamesInv
<1>1. \A o : Named(o)' = Named(o)
  BY DEF Named
<1> QED
  BY <1>1 DEF NamesInv

LEMMA ReadPortNamesNames == IInv /\ ReadPortNames => NamesInv'
<1> SUFFICES ASSUME IInv, ReadPortNames PROVE NamesInv'
  OBVIOUS
<1>1. /\ pc' = "lags" /\ oidToName' \in Inverses(db.ports) /\ db' = db
  BY DEF ReadPortNames, outside
<1>2. ASSUME NEW o \in Oids, \E n \in PortNames : db.ports[n] = o
      PROVE  oidToName'[o] \in PortNames /\ db.ports[oidToName'[o]] = o
  <2>1. DOMAIN db.ports = PortNames
    BY NameTables DEF IInv
  <2>2. oidToName' \in [Oids -> PortNames \cup {Nil}]
        /\ oidToName'[o] # Nil /\ db.ports[oidToName'[o]] = o
    BY <1>1, <1>2, <2>1 DEF Inverses
  <2> QED
    BY <2>2
<1> QED
  BY <1>1, <1>2 DEF NamesInv, AfterVlans

LEMMA ReadLagNamesNames == IInv /\ NamesInv /\ ReadLagNames => NamesInv'
<1> SUFFICES ASSUME IInv, NamesInv, ReadLagNames, NamesStable'
             PROVE  /\ pc' # "lags"
                    /\ \A o \in Oids, p \in Names : Named(o)' = {p} => oidToName'[o] = p
  BY DEF NamesInv
<1>1. pc = "lags" /\ pc' = "vlans" /\ db' = db /\ changed' = changed
  BY DEF ReadLagNames, outside, history
<1>2. PICK f \in Inverses(db.lags) :
        oidToName' = [o \in Oids |-> IF f[o] # Nil THEN f[o] ELSE oidToName[o]]
  BY DEF ReadLagNames
<1>3. ASSUME NEW o \in Oids, NEW p \in Names, Named(o) = {p} PROVE oidToName'[o] = p
  <2>1. DOMAIN db.lags = LagNames
    BY NameTables DEF IInv
  <2>2. /\ f[o] \in LagNames \cup {Nil}
        /\ IF \E n \in LagNames : db.lags[n] = o THEN f[o] # Nil /\ db.lags[f[o]] = o
                                                  ELSE f[o] = Nil
    BY <2>1 DEF Inverses
  <2>3. CASE f[o] # Nil
    <3>1. f[o] \in Named(o)
      BY <2>2, <2>3 DEF Named
    <3> QED
      BY <1>2, <1>3, <2>3, <3>1
  <2>4. CASE f[o] = Nil
    <3>1. p \in PortNames /\ db.ports[p] = o
      BY <1>3, <2>2, <2>4 DEF Named
    <3>2. oidToName[o] \in Named(o)
      BY <1>1, <3>1 DEF NamesInv, NamesStable, Named
    <3> QED
      BY <1>2, <1>3, <2>4, <3>2
  <2> QED
    BY <2>3, <2>4
<1>4. \A o : Named(o)' = Named(o)
  BY <1>1 DEF Named
<1> QED
  BY <1>1, <1>3, <1>4

LEMMA NamesStep == IInv /\ NamesInv /\ [Next]_vars => NamesInv'
<1> SUFFICES ASSUME IInv, NamesInv, [Next]_vars PROVE NamesInv'
  OBVIOUS
<1>1. CASE ReadPortNames
  BY <1>1, ReadPortNamesNames
<1>2. CASE ReadLagNames
  BY <1>2, ReadLagNamesNames
<1>3. CASE \/ ScanVlans \/ ReadVlan \/ VlansRead \/ ScanBridge \/ ReadBridgePort \/ BridgeRead
           \/ ScanEntries \/ Truncate \/ SkipEntry \/ CountEntry \/ EntriesRead \/ Emit
           \/ UNCHANGED vars
  <2>1. UNCHANGED <<db, changed, oidToName>>
    <3>1. CASE ScanVlans \/ ScanBridge \/ ScanEntries
      BY <3>1 DEF ScanVlans, ScanBridge, ScanEntries, Scanned, outside, maps
    <3>2. CASE ReadVlan \/ VlansRead \/ ReadBridgePort \/ BridgeRead
      BY <3>2 DEF ReadVlan, VlansRead, ReadBridgePort, BridgeRead, outside, maps, history
    <3>3. CASE Truncate \/ SkipEntry \/ CountEntry \/ EntriesRead \/ Emit \/ UNCHANGED vars
      BY <3>3 DEF Truncate, SkipEntry, CountEntry, EntriesRead, Emit, vars, outside, maps,
                  history
    <3> QED
      BY <1>3, <3>1, <3>2, <3>3
  <2>2. pc' = pc \/ (pc \in {"vlans", "vlan"} \cup AfterVlans /\ pc' # "lags")
    <3>1. CASE ScanVlans \/ ScanBridge \/ ScanEntries
      BY <3>1 DEF ScanVlans, ScanBridge, ScanEntries, Scanned, AfterVlans
    <3>2. CASE ReadVlan \/ VlansRead \/ ReadBridgePort \/ BridgeRead
      BY <3>2 DEF ReadVlan, VlansRead, ReadBridgePort, BridgeRead, AfterVlans
    <3>3. CASE Truncate \/ SkipEntry \/ CountEntry \/ EntriesRead \/ Emit \/ UNCHANGED vars
      BY <3>3 DEF Truncate, SkipEntry, CountEntry, EntriesRead, Emit, Visit, vars, AfterVlans
    <3> QED
      BY <1>3, <3>1, <3>2, <3>3
  <2> QED
    BY <2>1, <2>2, NamesSame DEF NamesStable
<1>4. CASE Fail \/ Return
  BY <1>4 DEF Fail, Return, NamesInv, AfterVlans
<1>5. ASSUME NEW t \in Tables, NEW r \in RowsOf[t], Change(t, r) PROVE NamesInv'
  <2>1. oidToName' = oidToName /\ pc' = pc
    BY <1>5 DEF Change, maps
  <2> QED
    BY <1>5, <2>1, ChangeFacts, NamesSame DEF IInv
<1> QED
  BY <1>1, <1>2, <1>3, <1>4, <1>5 DEF Next

-----------------------------------------------------------------------------
(* The SCANs.                                                              *)

\* A SCAN is opened over the rows that are there.
LEMMA OpenedScan ==
  ASSUME NEW t \in ScannedTables, pc' = t, db' = db, window' = FdbScan!Opened(Present(t))
  PROVE  ScanInv'
<1>1. window'.throughout = Present(t)
  BY DEF FdbScan!Opened
<1>2. Present(t)' = Present(t)
  BY DEF Present
<1>3. \A r \in Present(t)' : r \in window'.throughout
  BY <1>1, <1>2
<1> QED
  BY <1>3 DEF ScanInv

\* A row that has just come has changed; one that has gone is not there.
LEMMA NotedScan ==
  ASSUME IInv, ScanInv, NEW t \in Tables, NEW r \in RowsOf[t], Change(t, r)
  PROVE  ScanInv'
<1>1. pc' = pc
  BY DEF Change
<1>2. PICK x \in Contents[t] :
        /\ db' = [db EXCEPT ![t][r] = x]
        /\ window' = IF t = pc /\ t \in ScannedTables
                     THEN FdbScan!Noted(window, r, x # Absent) ELSE window
  BY DEF Change
<1>3. SUFFICES ASSUME pc \in ScannedTables, NEW q \in Present(pc)', IsStable(pc, q)'
               PROVE  q \in window'.throughout
  BY <1>1 DEF ScanInv
<1>4. PICK u \in Tables : u = pc
  BY <1>3 DEF ScannedTables, Tables, RowsOf
<1>5. q \in RowsOf[u] /\ db'[u][q] # Absent /\ <<u, q>> \notin changed'
  BY <1>1, <1>3, <1>4 DEF Present, IsStable
<1>6. IsStable(u, q) /\ db'[u][q] = db[u][q] /\ ~(u = t /\ q = r)
  <2>1. IsStable(u, q)'
    BY <1>5 DEF IsStable
  <2>2. IsStable(u, q) /\ db'[u][q] = db[u][q]
    BY <1>5, <2>1, ChangeFacts DEF IInv
  <2> QED
    BY <1>5, <2>2 DEF Change
<1>7. q \in window.throughout
  BY <1>3, <1>4, <1>5, <1>6 DEF ScanInv, Present
<1>8. window \in FdbScan!Windows \cup BvidScan!Windows \cup BridgeScan!Windows
  BY DEF IInv, TypeOK
<1>9. CASE t = pc /\ t \in ScannedTables
  <2>1. q # r
    BY <1>4, <1>6, <1>9
  <2>2. window' = FdbScan!Noted(window, r, x # Absent)
    BY <1>2, <1>9
  <2>3. window'.throughout = window.throughout \/ window'.throughout = window.throughout \ {r}
    BY <1>8, <2>2 DEF FdbScan!Noted, FdbScan!Windows, BvidScan!Windows, BridgeScan!Windows
  <2> QED
    BY <1>7, <2>1, <2>3
<1>10. CASE ~(t = pc /\ t \in ScannedTables)
  BY <1>2, <1>7, <1>10
<1> QED
  BY <1>9, <1>10

LEMMA ScanStep == IInv /\ ScanInv /\ [Next]_vars => ScanInv'
<1> SUFFICES ASSUME IInv, ScanInv, [Next]_vars PROVE ScanInv'
  OBVIOUS
<1>1. CASE ReadLagNames
  BY <1>1, OpenedScan DEF ReadLagNames, ScannedTables, outside
<1>2. CASE VlansRead
  BY <1>2, OpenedScan DEF VlansRead, ScannedTables, outside
<1>3. CASE BridgeRead
  BY <1>3, OpenedScan DEF BridgeRead, ScannedTables, outside
<1>4. CASE \/ ReadPortNames \/ ScanVlans \/ ReadVlan \/ ScanBridge \/ ReadBridgePort
           \/ ScanEntries \/ Truncate \/ SkipEntry \/ CountEntry \/ EntriesRead \/ Emit
           \/ Fail \/ Return
  <2>1. pc' \notin ScannedTables
    <3>1. CASE ReadPortNames \/ ScanVlans \/ ReadVlan \/ ScanBridge \/ ReadBridgePort
               \/ ScanEntries
      BY <3>1 DEF ReadPortNames, ScanVlans, ReadVlan, ScanBridge, ReadBridgePort, ScanEntries,
                  Scanned, ScannedTables
    <3>2. CASE Truncate \/ SkipEntry \/ CountEntry \/ EntriesRead \/ Emit \/ Fail \/ Return
      BY <3>2 DEF Truncate, SkipEntry, CountEntry, EntriesRead, Emit, Fail, Return, Visit,
                  ScannedTables
    <3> QED
      BY <1>4, <3>1, <3>2
  <2> QED
    BY <2>1 DEF ScanInv
<1>5. CASE UNCHANGED vars
  BY <1>5 DEF vars, outside, walk, history, ScanInv, Present, IsStable
<1>6. ASSUME NEW t \in Tables, NEW r \in RowsOf[t], Change(t, r) PROVE ScanInv'
  BY <1>6, NotedScan
<1> QED
  BY <1>1, <1>2, <1>3, <1>4, <1>5, <1>6 DEF Next

\* The slice of a SCAN has what was in the window throughout.
LEMMA SliceOfScan ==
  ASSUME IInv, ScanInv, NEW t \in ScannedTables, pc = t, NEW s, NEW next, Scanned(s, next),
         s \in Seq(AllKeys), window.throughout \subseteq FdbScan!Listed(s)
  PROVE  \A r \in Present(t)' : IsStable(t, r)' => r \in ListedKeys'
<1> SUFFICES ASSUME NEW r \in Present(t)', IsStable(t, r)' PROVE r \in ListedKeys'
  OBVIOUS
<1>1. keys' = s /\ db' = db /\ changed' = changed
  BY DEF Scanned, outside
<1>2. r \in Present(t) /\ IsStable(t, r)
  BY <1>1 DEF Present, IsStable
<1>3. r \in FdbScan!Listed(s)
  BY <1>2 DEF ScanInv
<1>4. DOMAIN s = 1 .. Len(s)
  BY LenProperties
<1>5. PICK i \in 1 .. Len(s) : r = s[i]
  BY <1>3, <1>4 DEF FdbScan!Listed
<1> QED
  BY <1>1, <1>5 DEF ListedKeys

LEMMA SliceSame ==
  ASSUME SliceInv, UNCHANGED keys,
         pc' = "vlan" => pc = "vlan", pc' = "bridgePort" => pc = "bridgePort",
         pc' \in AfterFdb => pc \in AfterFdb,
         \A u \in Tables : \A x \in RowsOf[u] :
           IsStable(u, x)' => IsStable(u, x) /\ db'[u][x] = db[u][x]
  PROVE  SliceInv'
<1>1. ListedKeys' = ListedKeys
  BY DEF ListedKeys
<1>2. ASSUME NEW u \in Tables, NEW r \in Present(u)', IsStable(u, r)'
      PROVE  r \in Present(u) /\ IsStable(u, r)
  <2>1. r \in RowsOf[u] /\ db'[u][r] # Absent
    BY <1>2 DEF Present
  <2> QED
    BY <1>2, <2>1 DEF Present
<1>3. "vlans" \in Tables /\ "bridge" \in Tables /\ "fdb" \in Tables
  BY DEF Tables, RowsOf
<1> QED
  BY <1>1, <1>2, <1>3 DEF SliceInv

LEMMA SliceStep == IInv /\ ScanInv /\ SliceInv /\ [Next]_vars => SliceInv'
<1> SUFFICES ASSUME IInv, ScanInv, SliceInv, [Next]_vars PROVE SliceInv'
  OBVIOUS
<1>1. CASE ScanVlans
  <2>1. PICK s \in BvidScan!Lists(window) : Scanned(s, "vlan")
    BY <1>1 DEF ScanVlans
  <2>2. s \in Seq(AllKeys) /\ window.throughout \subseteq BvidScan!Listed(s)
    BY ListsAreSlices DEF IInv, BvidScan!Lists
  <2>3. \A r \in Present("vlans")' : IsStable("vlans", r)' => r \in ListedKeys'
    BY <1>1, <2>1, <2>2, SliceOfScan DEF ScanVlans, ScannedTables, BvidScan!Listed, FdbScan!Listed
  <2> QED
    BY <2>1, <2>3 DEF SliceInv, Scanned, AfterFdb
<1>2. CASE ScanBridge
  <2>1. PICK s \in BridgeScan!Lists(window) : Scanned(s, "bridgePort")
    BY <1>2 DEF ScanBridge
  <2>2. s \in Seq(AllKeys) /\ window.throughout \subseteq BridgeScan!Listed(s)
    BY ListsAreSlices DEF IInv, BridgeScan!Lists
  <2>3. \A r \in Present("bridge")' : IsStable("bridge", r)' => r \in ListedKeys'
    BY <1>2, <2>1, <2>2, SliceOfScan
       DEF ScanBridge, ScannedTables, BridgeScan!Listed, FdbScan!Listed
  <2> QED
    BY <2>1, <2>3 DEF SliceInv, Scanned, AfterFdb
<1>3. CASE ScanEntries
  <2>1. PICK s \in FdbScan!SortedLists(window) : Scanned(s, "entry")
    BY <1>3 DEF ScanEntries
  <2>2. s \in FdbScan!Lists(window)
    BY DEF FdbScan!SortedLists
  <2>3. s \in Seq(AllKeys) /\ window.throughout \subseteq FdbScan!Listed(s)
    BY <2>2, ListsAreSlices DEF IInv, FdbScan!Lists
  <2>4. \A r \in Present("fdb")' : IsStable("fdb", r)' => r \in ListedKeys'
    BY <1>3, <2>1, <2>3, SliceOfScan DEF ScanEntries, ScannedTables
  <2> QED
    BY <2>1, <2>4 DEF SliceInv, Scanned, AfterFdb
<1>4. CASE \/ ReadPortNames \/ ReadLagNames \/ VlansRead \/ BridgeRead \/ Fail \/ Return
  <2>1. pc' \in {"lags", "vlans", "bridge", "fdb", "failed", "ports"}
    BY <1>4 DEF ReadPortNames, ReadLagNames, VlansRead, BridgeRead, Fail, Return
  <2> QED
    BY <2>1 DEF SliceInv, AfterFdb
<1>5. CASE \/ ReadVlan \/ ReadBridgePort
           \/ Truncate \/ SkipEntry \/ CountEntry \/ EntriesRead \/ Emit \/ UNCHANGED vars
  <2>1. UNCHANGED <<db, changed, keys>> /\ (pc' = pc \/ (pc \in AfterFdb /\ pc' \in {"emit", "done"}))
    <3>1. CASE ReadVlan \/ ReadBridgePort
      BY <3>1 DEF ReadVlan, ReadBridgePort, outside, history
    <3>2. CASE Truncate \/ SkipEntry \/ CountEntry \/ EntriesRead \/ Emit \/ UNCHANGED vars
      BY <3>2 DEF Truncate, SkipEntry, CountEntry, EntriesRead, Emit, Visit, vars, outside, walk,
                  history, AfterFdb
    <3> QED
      BY <1>5, <3>1, <3>2
  <2>2. \A u, x : IsStable(u, x)' <=> IsStable(u, x)
    BY <2>1 DEF IsStable
  <2> QED
    BY <2>1, <2>2, SliceSame DEF AfterFdb
<1>6. ASSUME NEW t \in Tables, NEW r \in RowsOf[t], Change(t, r) PROVE SliceInv'
  <2>1. keys' = keys /\ pc' = pc
    BY <1>6 DEF Change
  <2> QED
    BY <1>6, <2>1, ChangeFacts, SliceSame DEF IInv
<1> QED
  BY <1>1, <1>2, <1>3, <1>4, <1>5, <1>6 DEF Next

-----------------------------------------------------------------------------
(* The maps.                                                               *)

LEMMA WalkedNext ==
  ASSUME TypeOK, index' = index + 1, keys' = keys
  PROVE  Walked' = Walked \cup {keys[index]}
<1>1. index \in Nat /\ index >= 1
  BY DEF TypeOK
<1>2. 1 .. index' - 1 = (1 .. index - 1) \cup {index}
  BY <1>1
<1> QED
  BY <1>2 DEF Walked

LEMMA WalkedAll ==
  ASSUME TypeOK, index > Len(keys)
  PROVE  Walked = ListedKeys
<1>1. keys \in Seq(AllKeys) /\ index \in 1 .. Len(keys) + 1
  BY DEF TypeOK, AllKeys
<1>2. Len(keys) \in Nat
  BY <1>1
<1>3. index - 1 = Len(keys)
  BY <1>1, <1>2
<1> QED
  BY <1>3 DEF Walked, ListedKeys

LEMMA VlanSame ==
  ASSUME VlanInv, UNCHANGED <<keys, bvidToVlan>>,
         pc' = "vlan" => pc = "vlan" /\ index' = index,
         pc' \in AfterVlans => pc \in AfterVlans,
         \A u \in Tables : \A x \in RowsOf[u] :
           IsStable(u, x)' => IsStable(u, x) /\ db'[u][x] = db[u][x]
  PROVE  VlanInv'
<1> SUFFICES ASSUME NEW b \in Bvids, db'.vlans[b] \in Vlans, IsStable("vlans", b)',
                    pc' \in AfterVlans \/ (pc' = "vlan" /\ b \in Walked')
             PROVE  bvidToVlan'[b] = db'.vlans[b]
  BY DEF VlanInv
<1>1. "vlans" \in Tables /\ b \in RowsOf["vlans"]
  BY DEF Tables, RowsOf
<1>2. IsStable("vlans", b) /\ db'.vlans[b] = db.vlans[b]
  BY <1>1
<1>3. pc \in AfterVlans \/ (pc = "vlan" /\ b \in Walked)
  BY DEF Walked
<1> QED
  BY <1>2, <1>3 DEF VlanInv

LEMMA ReadVlanMap == IInv /\ VlanInv /\ ReadVlan => VlanInv'
<1> SUFFICES ASSUME IInv, VlanInv, ReadVlan,
                    NEW b \in Bvids, db'.vlans[b] \in Vlans, IsStable("vlans", b)',
                    pc' \in AfterVlans \/ (pc' = "vlan" /\ b \in Walked')
             PROVE  bvidToVlan'[b] = db'.vlans[b]
  BY DEF VlanInv
<1>1. pc = "vlan" /\ pc' = pc /\ db' = db /\ changed' = changed /\ keys' = keys
      /\ index' = index + 1
  BY DEF ReadVlan, outside, history
<1>2. b \in Walked \cup {keys[index]}
  BY <1>1, WalkedNext DEF IInv, AfterVlans
<1>3. bvidToVlan \in [Bvids -> Vlans \cup {Nil}]
  BY DEF IInv, TypeOK
<1>4. CASE b = keys[index]
  BY <1>1, <1>3, <1>4 DEF ReadVlan
<1>5. CASE b # keys[index]
  <2>1. bvidToVlan[b] = db.vlans[b]
    BY <1>1, <1>2, <1>5 DEF VlanInv, IsStable
  <2>2. bvidToVlan'[b] = bvidToVlan[b]
    BY <1>3, <1>5 DEF ReadVlan
  <2> QED
    BY <1>1, <2>1, <2>2
<1> QED
  BY <1>4, <1>5

\* Every row that stays was looked at.
LEMMA VlansReadMap == IInv /\ SliceInv /\ VlanInv /\ VlansRead => VlanInv'
<1> SUFFICES ASSUME IInv, SliceInv, VlanInv, VlansRead,
                    NEW b \in Bvids, db'.vlans[b] \in Vlans, IsStable("vlans", b)'
             PROVE  bvidToVlan'[b] = db'.vlans[b]
  BY DEF VlanInv
<1>1. pc = "vlan" /\ db' = db /\ changed' = changed /\ bvidToVlan' = bvidToVlan
      /\ index > Len(keys)
  BY DEF VlansRead, outside, maps, history
<1>2. b \in Present("vlans") /\ IsStable("vlans", b)
  BY <1>1, LabelsAssumption DEF Present, RowsOf, IsStable
<1>3. b \in Walked
  BY <1>1, <1>2, WalkedAll DEF SliceInv, IInv
<1> QED
  BY <1>1, <1>2, <1>3 DEF VlanInv

LEMMA VlanStep == IInv /\ SliceInv /\ VlanInv /\ [Next]_vars => VlanInv'
<1> SUFFICES ASSUME IInv, SliceInv, VlanInv, [Next]_vars PROVE VlanInv'
  OBVIOUS
<1>1. CASE ReadVlan
  BY <1>1, ReadVlanMap
<1>2. CASE VlansRead
  BY <1>2, VlansReadMap
<1>3. CASE ReadPortNames \/ ReadLagNames \/ Fail \/ Return
  <2>1. pc' \in {"lags", "vlans", "failed", "ports"}
    BY <1>3 DEF ReadPortNames, ReadLagNames, Fail, Return
  <2> QED
    BY <2>1 DEF VlanInv, AfterVlans
<1>4. CASE ScanVlans
  <2>1. pc' = "vlan" /\ index' = 1
    BY <1>4 DEF ScanVlans, Scanned
  <2>2. Walked' = {}
    BY <2>1 DEF Walked
  <2> QED
    BY <2>1, <2>2 DEF VlanInv, AfterVlans
<1>5. CASE ScanBridge \/ ScanEntries
  <2>1. UNCHANGED <<db, changed, bvidToVlan>> /\ pc \in AfterVlans /\ pc' # "vlan"
    BY <1>5 DEF ScanBridge, ScanEntries, Scanned, outside, maps, AfterVlans
  <2> QED
    BY <2>1 DEF VlanInv, IsStable
<1>6. CASE \/ ReadBridgePort \/ BridgeRead
           \/ Truncate \/ SkipEntry \/ CountEntry \/ EntriesRead \/ Emit
  <2>1. UNCHANGED <<db, changed, bvidToVlan>> /\ pc \in AfterVlans /\ pc' # "vlan"
    <3>1. CASE ReadBridgePort \/ BridgeRead
      BY <3>1 DEF ReadBridgePort, BridgeRead, outside, maps, history, AfterVlans
    <3>2. CASE Truncate \/ SkipEntry \/ CountEntry \/ EntriesRead \/ Emit
      BY <3>2 DEF Truncate, SkipEntry, CountEntry, EntriesRead, Emit, Visit, outside, maps,
                  history, AfterVlans
    <3> QED
      BY <1>6, <3>1, <3>2
  <2> QED
    BY <2>1 DEF VlanInv, IsStable
<1>7. CASE UNCHANGED vars
  BY <1>7 DEF vars, outside, maps, walk, history, VlanInv, IsStable, Walked
<1>8. ASSUME NEW t \in Tables, NEW r \in RowsOf[t], Change(t, r) PROVE VlanInv'
  <2>1. UNCHANGED <<keys, index, bvidToVlan, pc>>
    BY <1>8 DEF Change, maps
  <2> QED
    BY <1>8, <2>1, ChangeFacts, VlanSame DEF IInv
<1> QED
  BY <1>1, <1>2, <1>3, <1>4, <1>5, <1>6, <1>7, <1>8 DEF Next

LEMMA BridgeSame ==
  ASSUME BridgeInv, UNCHANGED <<keys, bridgePortToPort>>,
         pc' = "bridgePort" => pc = "bridgePort" /\ index' = index,
         pc' \in AfterBridge => pc \in AfterBridge,
         NamesStable' => NamesStable /\ db'.ports = db.ports /\ db'.lags = db.lags,
         \A u \in Tables : \A x \in RowsOf[u] :
           IsStable(u, x)' => IsStable(u, x) /\ db'[u][x] = db[u][x]
  PROVE  BridgeInv'
<1> SUFFICES ASSUME NamesStable', NEW b \in BridgePorts, NEW p \in Names,
                    db'.bridge[b] \in Oids, Named(db.bridge[b])' = {p}, IsStable("bridge", b)',
                    pc' \in AfterBridge \/ (pc' = "bridgePort" /\ b \in Walked')
             PROVE  bridgePortToPort'[b] = p
  BY DEF BridgeInv
<1>1. "bridge" \in Tables /\ b \in RowsOf["bridge"]
  BY DEF Tables, RowsOf
<1>2. IsStable("bridge", b) /\ db'.bridge[b] = db.bridge[b]
  BY <1>1
<1>3. Named(db.bridge[b]) = {p}
  BY <1>2 DEF Named
<1>4. pc \in AfterBridge \/ (pc = "bridgePort" /\ b \in Walked)
  BY DEF Walked
<1> QED
  BY <1>2, <1>3, <1>4 DEF BridgeInv

LEMMA ReadBridgePortMap == IInv /\ NamesInv /\ BridgeInv /\ ReadBridgePort => BridgeInv'
<1> SUFFICES ASSUME IInv, NamesInv, BridgeInv, ReadBridgePort,
                    NamesStable', NEW b \in BridgePorts, NEW p \in Names,
                    db'.bridge[b] \in Oids, Named(db.bridge[b])' = {p}, IsStable("bridge", b)',
                    pc' \in AfterBridge \/ (pc' = "bridgePort" /\ b \in Walked')
             PROVE  bridgePortToPort'[b] = p
  BY DEF BridgeInv
<1>1. pc = "bridgePort" /\ pc' = pc /\ db' = db /\ changed' = changed /\ keys' = keys
      /\ index' = index + 1
  BY DEF ReadBridgePort, outside, history
<1>2. b \in Walked \cup {keys[index]}
  BY <1>1, WalkedNext DEF IInv, AfterBridge
<1>3. /\ NamesStable /\ db.bridge[b] \in Oids /\ Named(db.bridge[b]) = {p}
      /\ IsStable("bridge", b)
  BY <1>1 DEF NamesStable, Named, IsStable
<1>4. bridgePortToPort \in [BridgePorts -> PortNames \cup LagNames \cup {Nil}]
  BY DEF IInv, TypeOK
<1>5. CASE b = keys[index]
  <2>1. oidToName[db.bridge[b]] = p
    BY <1>1, <1>3 DEF NamesInv, AfterVlans
  <2>2. p # Nil
    BY LabelsAssumption DEF Names, PortLabels
  <2>3. bridgePortToPort' = [bridgePortToPort EXCEPT ![b] = p]
    BY <1>3, <1>5, <2>1, <2>2 DEF ReadBridgePort
  <2> QED
    BY <1>4, <2>3
<1>6. CASE b # keys[index]
  <2>1. bridgePortToPort[b] = p
    BY <1>1, <1>2, <1>3, <1>6 DEF BridgeInv
  <2>2. bridgePortToPort'[b] = bridgePortToPort[b]
    BY <1>4, <1>6 DEF ReadBridgePort
  <2> QED
    BY <2>1, <2>2
<1> QED
  BY <1>5, <1>6

LEMMA BridgeReadMap == IInv /\ SliceInv /\ BridgeInv /\ BridgeRead => BridgeInv'
<1> SUFFICES ASSUME IInv, SliceInv, BridgeInv, BridgeRead,
                    NamesStable', NEW b \in BridgePorts, NEW p \in Names,
                    db'.bridge[b] \in Oids, Named(db.bridge[b])' = {p}, IsStable("bridge", b)'
             PROVE  bridgePortToPort'[b] = p
  BY DEF BridgeInv
<1>1. pc = "bridgePort" /\ db' = db /\ changed' = changed
      /\ bridgePortToPort' = bridgePortToPort /\ index > Len(keys)
  BY DEF BridgeRead, outside, maps, history
<1>2. /\ NamesStable /\ db.bridge[b] \in Oids /\ Named(db.bridge[b]) = {p}
      /\ IsStable("bridge", b)
  BY <1>1 DEF NamesStable, Named, IsStable
<1>3. b \in Present("bridge")
  BY <1>2, LabelsAssumption DEF Present, RowsOf
<1>4. b \in Walked
  BY <1>1, <1>2, <1>3, WalkedAll DEF SliceInv, IInv
<1> QED
  BY <1>1, <1>2, <1>4 DEF BridgeInv

LEMMA BridgeStep == IInv /\ NamesInv /\ SliceInv /\ BridgeInv /\ [Next]_vars => BridgeInv'
<1> SUFFICES ASSUME IInv, NamesInv, SliceInv, BridgeInv, [Next]_vars PROVE BridgeInv'
  OBVIOUS
<1>1. CASE ReadBridgePort
  BY <1>1, ReadBridgePortMap
<1>2. CASE BridgeRead
  BY <1>2, BridgeReadMap
<1>3. CASE \/ ReadPortNames \/ ReadLagNames \/ ScanVlans \/ ReadVlan \/ VlansRead
           \/ Fail \/ Return
  <2>1. pc' \in {"lags", "vlans", "vlan", "bridge", "failed", "ports"}
    BY <1>3 DEF ReadPortNames, ReadLagNames, ScanVlans, Scanned, ReadVlan, VlansRead, Fail, Return
  <2> QED
    BY <2>1 DEF BridgeInv, AfterBridge
<1>4. CASE ScanBridge
  <2>1. pc' = "bridgePort" /\ index' = 1
    BY <1>4 DEF ScanBridge, Scanned
  <2>2. Walked' = {}
    BY <2>1 DEF Walked
  <2> QED
    BY <2>1, <2>2 DEF BridgeInv, AfterBridge
<1>5. CASE ScanEntries \/ Truncate \/ SkipEntry \/ CountEntry \/ EntriesRead \/ Emit
  <2>1. UNCHANGED <<db, changed, bridgePortToPort>> /\ pc \in AfterBridge /\ pc' # "bridgePort"
    BY <1>5 DEF ScanEntries, Scanned, Truncate, SkipEntry, CountEntry, EntriesRead, Emit, Visit,
                outside, maps, history, AfterBridge
  <2> QED
    BY <2>1 DEF BridgeInv, IsStable, NamesStable, Named
<1>6. CASE UNCHANGED vars
  <2>1. UNCHANGED <<db, changed, bridgePortToPort, pc, keys, index>>
    BY <1>6 DEF vars, outside, maps, walk, history
  <2> QED
    BY <2>1 DEF BridgeInv, IsStable, NamesStable, Named, Walked
<1>7. ASSUME NEW t \in Tables, NEW r \in RowsOf[t], Change(t, r) PROVE BridgeInv'
  <2>1. UNCHANGED <<keys, index, bridgePortToPort, pc>>
    BY <1>7 DEF Change, maps
  <2> QED
    BY <1>7, <2>1, ChangeFacts, BridgeSame DEF IInv
<1> QED
  BY <1>1, <1>2, <1>3, <1>4, <1>5, <1>6, <1>7 DEF Next

-----------------------------------------------------------------------------
(* The counts.                                                             *)

LEMMA AtLeast ==
  ASSUME NEW S, NEW T, IsFiniteSet(S), T \subseteq S, NEW n \in Nat, n >= Cardinality(S)
  PROVE  n >= Cardinality(T)
<1>1. Cardinality(T) <= Cardinality(S) /\ IsFiniteSet(T)
  BY FS_Subset
<1>2. Cardinality(S) \in Nat /\ Cardinality(T) \in Nat
  BY <1>1, FS_CardinalityType
<1> QED
  BY <1>1, <1>2

LEMMA OneMore ==
  ASSUME NEW S, NEW T, NEW x, IsFiniteSet(S), T \subseteq S \cup {x},
         NEW n \in Nat, n >= Cardinality(S)
  PROVE  n + 1 >= Cardinality(T)
<1>1. /\ IsFiniteSet(S \cup {x})
      /\ Cardinality(S \cup {x}) = IF x \in S THEN Cardinality(S) ELSE Cardinality(S) + 1
  BY FS_AddElement
<1>2. Cardinality(S) \in Nat
  BY FS_CardinalityType
<1>3. n + 1 \in Nat /\ n + 1 >= Cardinality(S \cup {x})
  BY <1>1, <1>2
<1> QED
  BY <1>1, <1>3, AtLeast

LEMMA WalkedFinite ==
  ASSUME TypeOK, NEW S, S \subseteq Walked
  PROVE  IsFiniteSet(S)
<1>1. index - 1 \in Int
  BY DEF TypeOK
<1>2. IsFiniteSet(1 .. index - 1)
  BY <1>1, FS_Interval
<1> DEFINE f == [j \in 1 .. index - 1 |-> keys[j]]
<1>3. f \in Surjection(1 .. index - 1, Walked)
  BY DEF Surjection, Walked
<1>4. IsFiniteSet(Walked)
  BY <1>2, <1>3, FS_Surjection
<1> QED
  BY <1>4, FS_Subset

LEMMA CountTypes ==
  ASSUME TypeOK
  PROVE  /\ counts \in [entries : 0 .. config.maxEntries, unknownVlan : Nat,
                        byVlan : [VlanLabels -> Nat], byPort : [PortLabels -> Nat],
                        byType : [TypeLabels -> Nat]]
         /\ \A p \in Names : counts.byPort[p] \in Nat
         /\ \A v \in Vlans : counts.byVlan[v] \in Nat
BY DEF TypeOK, Names, PortLabels, VlanLabels

\* Nothing becomes stable while the tables change.
LEMMA StableKept ==
  ASSUME TypeOK, NEW k \in Keys,
         \A u \in Tables : \A x \in RowsOf[u] :
           IsStable(u, x)' => IsStable(u, x) /\ db'[u][x] = db[u][x]
  PROVE  /\ \A p \in Names :
              NamesStable' /\ db'.ports = db.ports /\ db'.lags = db.lags /\ StableOn(k, p)'
                => StableOn(k, p)
         /\ \A v \in Vlans : StableIn(k, v)' => StableIn(k, v)
<1>1. /\ \A x \in Keys : IsStable("fdb", x)' => IsStable("fdb", x) /\ db'.fdb[x] = db.fdb[x]
      /\ \A x \in BridgePorts :
           IsStable("bridge", x)' => IsStable("bridge", x) /\ db'.bridge[x] = db.bridge[x]
      /\ \A x \in Bvids :
           IsStable("vlans", x)' => IsStable("vlans", x) /\ db'.vlans[x] = db.vlans[x]
  BY DEF Tables, RowsOf
<1>2. ASSUME NEW p \in Names, NamesStable', db'.ports = db.ports, db'.lags = db.lags,
             StableOn(k, p)'
      PROVE  StableOn(k, p)
  <2>1. /\ db'.fdb[k] # Absent /\ db'.bridge[db'.fdb[k].port] \in Oids
        /\ Named(db.bridge[db.fdb[k].port])' = {p}
        /\ <<"fdb", k>> \notin changed' /\ <<"bridge", db'.fdb[k].port>> \notin changed'
    BY <1>2 DEF StableOn
  <2>2. IsStable("fdb", k) /\ db'.fdb[k] = db.fdb[k]
    BY <1>1, <2>1 DEF IsStable
  <2>3. db.fdb[k].port \in BridgePorts
    BY <2>1, <2>2, TableTypes
  <2>4. PICK b \in BridgePorts : b = db.fdb[k].port
    BY <2>3
  <2>5. IsStable("bridge", b) /\ db'.bridge[b] = db.bridge[b]
    BY <1>1, <2>1, <2>2, <2>4 DEF IsStable
  <2>6. Named(db.bridge[b]) = {p}
    BY <1>2, <2>1, <2>2, <2>4, <2>5 DEF Named
  <2> QED
    BY <2>1, <2>2, <2>4, <2>5, <2>6 DEF StableOn, IsStable
<1>3. ASSUME NEW v \in Vlans, StableIn(k, v)' PROVE StableIn(k, v)
  <2>1. /\ db'.fdb[k] # Absent /\ <<"fdb", k>> \notin changed'
        /\ \/ OwnVlan[k] = v
           \/ OwnVlan[k] = Nil /\ db'.vlans[Bvid[k]] = v /\ <<"vlans", Bvid[k]>> \notin changed'
    BY <1>3 DEF StableIn
  <2>2. IsStable("fdb", k) /\ db'.fdb[k] = db.fdb[k]
    BY <1>1, <2>1 DEF IsStable
  <2>3. Bvid[k] \in Bvids
    BY LabelsAssumption
  <2> QED
    BY <1>1, <2>1, <2>2, <2>3 DEF StableIn, IsStable
<1> QED
  BY <1>2, <1>3

LEMMA PlacedSame ==
  ASSUME IInv, PlacedInv, pc' \in AfterFdb => pc \in AfterFdb, UNCHANGED <<keys, index, counts>>,
         NamesStable' => NamesStable /\ db'.ports = db.ports /\ db'.lags = db.lags,
         \A u \in Tables : \A x \in RowsOf[u] :
           IsStable(u, x)' => IsStable(u, x) /\ db'[u][x] = db[u][x]
  PROVE  PlacedInv'
<1> USE DEF IInv
<1>1. SUFFICES ASSUME pc' \in AfterFdb
               PROVE  /\ NamesStable' =>
                           \A p \in Names : counts'.byPort[p] >= Cardinality(KeysOn(p)')
                      /\ \A v \in Vlans : counts'.byVlan[v] >= Cardinality(KeysIn(v)')
  BY DEF PlacedInv
<1>2. Walked' = Walked
  BY DEF Walked
<1>3. ASSUME NamesStable', NEW p \in Names PROVE counts'.byPort[p] >= Cardinality(KeysOn(p)')
  <2>1. KeysOn(p)' \subseteq KeysOn(p)
    BY <1>2, <1>3, StableKept DEF KeysOn
  <2>2. IsFiniteSet(KeysOn(p))
    BY WalkedFinite DEF KeysOn
  <2>3. counts.byPort[p] >= Cardinality(KeysOn(p)) /\ counts.byPort[p] \in Nat
    BY <1>1, <1>3, CountTypes DEF PlacedInv
  <2> QED
    BY <2>1, <2>2, <2>3, AtLeast
<1>4. ASSUME NEW v \in Vlans PROVE counts'.byVlan[v] >= Cardinality(KeysIn(v)')
  <2>1. KeysIn(v)' \subseteq KeysIn(v)
    BY <1>2, StableKept DEF KeysIn
  <2>2. IsFiniteSet(KeysIn(v))
    BY WalkedFinite DEF KeysIn
  <2>3. counts.byVlan[v] >= Cardinality(KeysIn(v)) /\ counts.byVlan[v] \in Nat
    BY <1>1, CountTypes DEF PlacedInv
  <2> QED
    BY <2>1, <2>2, <2>3, AtLeast
<1> QED
  BY <1>3, <1>4

LEMMA ScanEntriesPlaced == IInv /\ ScanEntries => PlacedInv'
<1> SUFFICES ASSUME IInv, ScanEntries PROVE PlacedInv'
  OBVIOUS
<1>1. index' = 1 /\ counts' = counts
  BY DEF ScanEntries, Scanned, result
<1>2. Walked' = {}
  BY <1>1 DEF Walked
<1>3. (\A p : KeysOn(p)' = {}) /\ (\A v : KeysIn(v)' = {})
  BY <1>2 DEF KeysOn, KeysIn
<1>4. (\A p \in Names : counts'.byPort[p] >= 0) /\ (\A v \in Vlans : counts'.byVlan[v] >= 0)
  BY <1>1, CountTypes DEF IInv
<1> QED
  BY <1>3, <1>4, FS_EmptySet DEF PlacedInv

\* A key that gives no entry did not stay.
LEMMA SkipEntryPlaced == IInv /\ PlacedInv /\ SkipEntry => PlacedInv'
<1> SUFFICES ASSUME IInv, PlacedInv, SkipEntry PROVE PlacedInv'
  OBVIOUS
<1>1. /\ pc = "entry" /\ pc' = pc /\ index' = index + 1
      /\ keys[index] \in Malformed \/ db.fdb[keys[index]] = Absent
      /\ UNCHANGED <<db, changed, keys, counts>>
  BY DEF SkipEntry, Visit, outside, history
<1>2. Walked' = Walked \cup {keys[index]}
  BY <1>1, WalkedNext DEF IInv
<1>3. \A p : KeysOn(p)' = KeysOn(p)
  BY <1>1, <1>2 DEF KeysOn, StableOn, Named
<1>4. \A v : KeysIn(v)' = KeysIn(v)
  BY <1>1, <1>2 DEF KeysIn, StableIn
<1> QED
  BY <1>1, <1>3, <1>4 DEF PlacedInv, NamesStable

LEMMA CountedBy ==
  ASSUME TypeOK, NEW v, NEW p, NEW t,
         counts' = Counted(counts, v, p, t)
  PROVE  /\ \A q \in PortLabels : counts'.byPort[q] = IF q = p THEN counts.byPort[q] + 1
                                                               ELSE counts.byPort[q]
         /\ \A w \in VlanLabels : counts'.byVlan[w] = IF w = v THEN counts.byVlan[w] + 1
                                                               ELSE counts.byVlan[w]
         /\ \A u \in TypeLabels : counts'.byType[u] = IF u = t THEN counts.byType[u] + 1
                                                               ELSE counts.byType[u]
         /\ counts'.entries = counts.entries + 1
<1>1. counts \in [entries : 0 .. config.maxEntries, unknownVlan : Nat,
                  byVlan : [VlanLabels -> Nat], byPort : [PortLabels -> Nat],
                  byType : [TypeLabels -> Nat]]
  BY CountTypes
<1>2. /\ counts'.byPort = [counts.byPort EXCEPT ![p] = @ + 1]
      /\ counts'.byVlan = [counts.byVlan EXCEPT ![v] = @ + 1]
      /\ counts'.byType = [counts.byType EXCEPT ![t] = @ + 1]
      /\ counts'.entries = counts.entries + 1
  BY <1>1 DEF Counted
<1>3. /\ counts.byPort \in [PortLabels -> Nat] /\ counts.byVlan \in [VlanLabels -> Nat]
      /\ counts.byType \in [TypeLabels -> Nat]
  BY <1>1
<1> QED
  BY <1>2, <1>3

\* The map of VLANs has what a row that stays says of the key.
LEMMA VlanOfKey ==
  ASSUME VlanInv, pc = "entry", NEW w \in Vlans, NEW k \in Keys, StableIn(k, w)
  PROVE  VlanLabel(k) = w
<1>1. w # Nil
  BY LabelsAssumption DEF VlanLabels
<1>2. CASE OwnVlan[k] = w
  BY <1>1, <1>2 DEF VlanLabel
<1>3. CASE OwnVlan[k] = Nil /\ db.vlans[Bvid[k]] = w /\ <<"vlans", Bvid[k]>> \notin changed
  <2>1. Bvid[k] \in Bvids
    BY LabelsAssumption
  <2>2. bvidToVlan[Bvid[k]] = w
    BY <1>3, <2>1 DEF VlanInv, IsStable, AfterVlans
  <2> QED
    BY <1>1, <1>3, <2>2 DEF VlanLabel
<1> QED
  BY <1>2, <1>3 DEF StableIn

\* An entry that stays is counted where it stays.
LEMMA CountEntryPlaced == IInv /\ VlanInv /\ BridgeInv /\ PlacedInv /\ CountEntry => PlacedInv'
<1> SUFFICES ASSUME IInv, VlanInv, BridgeInv, PlacedInv, CountEntry PROVE PlacedInv'
  OBVIOUS
<1> USE DEF IInv
<1> DEFINE e == db.fdb[keys[index]]
           v == VlanLabel(keys[index])
           p == PortLabel(e.port)
<1>1. /\ pc = "entry" /\ pc' = pc /\ index' = index + 1
      /\ counts' = Counted(counts, v, p, e.type)
      /\ UNCHANGED <<db, changed, keys>>
  BY DEF CountEntry, Visit, outside, history
<1>2. Walked' = Walked \cup {keys[index]}
  BY <1>1, WalkedNext
<1>3. ASSUME NamesStable, NEW q \in Names, keys[index] \in Keys, StableOn(keys[index], q)
      PROVE  p = q
  <2>1. e.port \in BridgePorts
    BY <1>3, TableTypes DEF StableOn
  <2>2. bridgePortToPort[e.port] = q
    BY <1>1, <1>3, <2>1 DEF BridgeInv, StableOn, IsStable, AfterBridge
  <2>3. q # Nil
    BY LabelsAssumption DEF Names, PortLabels
  <2> QED
    BY <2>2, <2>3 DEF PortLabel
<1>4. ASSUME NEW w \in Vlans, keys[index] \in Keys, StableIn(keys[index], w)
      PROVE  v = w
  BY <1>1, <1>4, VlanOfKey
<1> HIDE DEF e, v, p
<1>5. ASSUME NamesStable', NEW q \in Names
      PROVE  counts'.byPort[q] >= Cardinality(KeysOn(q)')
  <2>1. NamesStable
    BY <1>1, <1>5 DEF NamesStable
  <2>2. /\ IsFiniteSet(KeysOn(q)) /\ counts.byPort[q] \in Nat
        /\ counts.byPort[q] >= Cardinality(KeysOn(q))
    BY <1>1, <2>1, WalkedFinite, CountTypes DEF KeysOn, PlacedInv, AfterFdb
  <2>3. counts'.byPort[q] = IF q = p THEN counts.byPort[q] + 1 ELSE counts.byPort[q]
    BY <1>1, CountedBy DEF Names, PortLabels
  <2>4. KeysOn(q)' \subseteq KeysOn(q) \cup {keys[index]}
    BY <1>1, <1>2 DEF KeysOn, StableOn, Named
  <2>5. CASE q = p
    BY <2>2, <2>3, <2>4, <2>5, OneMore
  <2>6. CASE q # p
    <3>1. KeysOn(q)' \subseteq KeysOn(q)
      BY <1>1, <1>2, <1>3, <2>1, <2>6 DEF KeysOn, StableOn, Named
    <3> QED
      BY <2>2, <2>3, <2>6, <3>1, AtLeast
  <2> QED
    BY <2>5, <2>6
<1>6. ASSUME NEW w \in Vlans PROVE counts'.byVlan[w] >= Cardinality(KeysIn(w)')
  <2>2. /\ IsFiniteSet(KeysIn(w)) /\ counts.byVlan[w] \in Nat
        /\ counts.byVlan[w] >= Cardinality(KeysIn(w))
    BY <1>1, WalkedFinite, CountTypes DEF KeysIn, PlacedInv, AfterFdb
  <2>3. counts'.byVlan[w] = IF w = v THEN counts.byVlan[w] + 1 ELSE counts.byVlan[w]
    BY <1>1, CountedBy DEF VlanLabels
  <2>4. KeysIn(w)' \subseteq KeysIn(w) \cup {keys[index]}
    BY <1>1, <1>2 DEF KeysIn, StableIn
  <2>5. CASE w = v
    BY <2>2, <2>3, <2>4, <2>5, OneMore
  <2>6. CASE w # v
    <3>1. KeysIn(w)' \subseteq KeysIn(w)
      BY <1>1, <1>2, <1>4, <2>6 DEF KeysIn, StableIn
    <3> QED
      BY <2>2, <2>3, <2>6, <3>1, AtLeast
  <2> QED
    BY <2>5, <2>6
<1> QED
  BY <1>5, <1>6 DEF PlacedInv

LEMMA PlacedStep ==
  IInv /\ VlanInv /\ BridgeInv /\ PlacedInv /\ [Next]_vars => PlacedInv'
<1> SUFFICES ASSUME IInv, VlanInv, BridgeInv, PlacedInv, [Next]_vars PROVE PlacedInv'
  OBVIOUS
<1>1. CASE ScanEntries
  BY <1>1, ScanEntriesPlaced
<1>2. CASE SkipEntry
  BY <1>2, SkipEntryPlaced
<1>3. CASE CountEntry
  BY <1>3, CountEntryPlaced
<1>4. CASE \/ ReadPortNames \/ ReadLagNames \/ ScanVlans \/ ReadVlan \/ VlansRead
           \/ ScanBridge \/ ReadBridgePort \/ BridgeRead \/ Fail \/ Return
  <2>1. pc' \notin AfterFdb
    BY <1>4 DEF ReadPortNames, ReadLagNames, ScanVlans, Scanned, ReadVlan, VlansRead, ScanBridge,
                ReadBridgePort, BridgeRead, Fail, Return, AfterFdb
  <2> QED
    BY <2>1 DEF PlacedInv
<1>5. CASE Truncate \/ EntriesRead \/ Emit \/ UNCHANGED vars
  <2>1. UNCHANGED <<db, changed, keys, index, counts>> /\ (pc' \in AfterFdb => pc \in AfterFdb)
    BY <1>5 DEF Truncate, EntriesRead, Emit, Visit, vars, outside, walk, result, history, AfterFdb
  <2>2. \A u, x : IsStable(u, x)' <=> IsStable(u, x)
    BY <2>1 DEF IsStable
  <2> QED
    BY <2>1, <2>2, PlacedSame DEF NamesStable
<1>6. ASSUME NEW t \in Tables, NEW r \in RowsOf[t], Change(t, r) PROVE PlacedInv'
  <2>1. UNCHANGED <<keys, index, counts, pc>>
    BY <1>6 DEF Change, result
  <2> QED
    BY <1>6, <2>1, ChangeFacts, PlacedSame DEF IInv
<1> QED
  BY <1>1, <1>2, <1>3, <1>4, <1>5, <1>6 DEF Next

LEMMA EndStep == IInv /\ EndInv /\ [Next]_vars => EndInv'
<1> SUFFICES ASSUME IInv, EndInv, [Next]_vars PROVE EndInv'
  OBVIOUS
<1>1. CASE \/ ReadPortNames \/ ReadLagNames \/ ScanVlans \/ ReadVlan \/ VlansRead
           \/ ScanBridge \/ ReadBridgePort \/ BridgeRead \/ ScanEntries \/ SkipEntry
           \/ CountEntry \/ Fail \/ Return
  <2>1. pc' \notin {"emit", "done"}
    BY <1>1 DEF ReadPortNames, ReadLagNames, ScanVlans, Scanned, ReadVlan, VlansRead, ScanBridge,
                ReadBridgePort, BridgeRead, ScanEntries, SkipEntry, CountEntry, Visit, Fail, Return
  <2> QED
    BY <2>1 DEF EndInv
<1>2. CASE Truncate
  BY <1>2 DEF Truncate, EndInv
<1>3. CASE EntriesRead \/ Emit \/ UNCHANGED vars
  BY <1>3 DEF EntriesRead, Emit, vars, walk, result, EndInv
<1>4. ASSUME NEW t \in Tables, NEW r \in RowsOf[t], Change(t, r) PROVE EndInv'
  BY <1>4 DEF Change, result, EndInv
<1> QED
  BY <1>1, <1>2, <1>3, <1>4 DEF Next

PlaceInv == IInv /\ MapsInv /\ PlacedInv /\ EndInv

LEMMA InitPlaceInv == Init => PlaceInv
<1> SUFFICES ASSUME Init PROVE PlaceInv
  OBVIOUS
<1>1. pc = "ports"
  BY DEF Init, Fresh
<1>2. MapsInv
  BY <1>1 DEF MapsInv, NamesInv, ScanInv, SliceInv, VlanInv, BridgeInv, ScannedTables,
              AfterVlans, AfterBridge, AfterFdb
<1>3. PlacedInv /\ EndInv
  BY <1>1 DEF PlacedInv, EndInv, AfterFdb
<1> QED
  BY <1>2, <1>3, InitIInv DEF PlaceInv

LEMMA NextPlaceInv == PlaceInv /\ [Next]_vars => PlaceInv'
<1> SUFFICES ASSUME PlaceInv, [Next]_vars PROVE PlaceInv'
  OBVIOUS
<1>1. IInv'
  BY NextIInv DEF PlaceInv
<1>2. MapsInv'
  BY NamesStep, ScanStep, SliceStep, VlanStep, BridgeStep DEF PlaceInv, MapsInv
<1>3. PlacedInv' /\ EndInv'
  BY PlacedStep, EndStep DEF PlaceInv, MapsInv
<1> QED
  BY <1>1, <1>2, <1>3 DEF PlaceInv

\* At the end every key that stays was looked at.
LEMMA AllPlaced == PlaceInv => StableEntryPlaced
<1> SUFFICES ASSUME PlaceInv, pc = "done", truncated = 0
             PROVE  /\ NamesStable =>
                         \A p \in PortNames \cup LagNames :
                           counts.byPort[p] >=
                             Cardinality({k \in Keys \ Malformed : StableOn(k, p)})
                    /\ \A v \in Vlans :
                         counts.byVlan[v] >=
                           Cardinality({k \in Keys \ Malformed : StableIn(k, v)})
  BY DEF StableEntryPlaced
<1>1. Walked = ListedKeys
  BY WalkedAll DEF PlaceInv, EndInv, IInv
<1>2. \A k \in Keys : db.fdb[k] # Absent /\ <<"fdb", k>> \notin changed => k \in Walked
  BY <1>1 DEF PlaceInv, MapsInv, SliceInv, AfterFdb, Present, RowsOf, IsStable
<1>3. \A p : {k \in Keys \ Malformed : StableOn(k, p)} = KeysOn(p)
  BY <1>2 DEF KeysOn, StableOn
<1>4. \A v : {k \in Keys \ Malformed : StableIn(k, v)} = KeysIn(v)
  BY <1>2 DEF KeysIn, StableIn
<1> QED
  BY <1>3, <1>4 DEF PlaceInv, PlacedInv, AfterFdb, Names

-----------------------------------------------------------------------------
(* Tables at rest: the invariant, inductive relative to PlaceInv.          *)

\* At rest the window, the slice and the map of VLANs hold only what is there.
RestInv ==
  changed = {} =>
    /\ pc \in ScannedTables => window.ever \subseteq Present(pc)
    /\ pc \in AfterFdb => ListedKeys \subseteq Present("fdb")
    /\ \A b \in Bvids : bvidToVlan[b] # Nil => db.vlans[b] = bvidToVlan[b]

InOrder(s) == \A i, j \in DOMAIN s : i < j => s[i] < s[j]

\* Without repeats the entries are walked over in the order of their keys, each once.
SortedInv == pc \in AfterFdb /\ ~repeated => InOrder(keys)

\* The walk stops one key beyond the limit, and truncated says so.
LimitInv ==
  /\ pc \in Early \cup {"entry"} => truncated = 0
  /\ pc \in AfterFdb => index <= config.maxEntries + 1
  /\ pc \in {"emit", "done"} =>
       \/ truncated = 0 /\ index > Len(keys)
       \/ truncated = 1 /\ index = config.maxEntries + 1 /\ index <= Len(keys)

\* The keys looked at that give an entry.
Valid     == (Walked \cap Keys) \ Malformed
KeysOf(t) == {k \in Valid : db.fdb[k].type = t}

CountInv ==
  /\ pc \in Early => counts = NoCounts
  /\ changed = {} /\ ~repeated /\ pc \in AfterFdb =>
       /\ counts.entries = Cardinality(Valid)
       /\ \A t \in TypeLabels : counts.byType[t] = Cardinality(KeysOf(t))
       /\ \A v \in Vlans : counts.byVlan[v] = Cardinality(KeysIn(v))

QuietInv == RestInv /\ SortedInv /\ LimitInv /\ CountInv

LEMMA OpenedRest ==
  ASSUME RestInv, NEW t \in ScannedTables, pc' = t, window' = FdbScan!Opened(Present(t)),
         UNCHANGED <<db, changed, bvidToVlan>>
  PROVE  RestInv'
<1>1. window'.ever = Present(t)
  BY DEF FdbScan!Opened
<1>2. Present(t)' = Present(t)
  BY DEF Present
<1> QED
  BY <1>1, <1>2 DEF RestInv, ScannedTables, AfterFdb

LEMMA RestStep == IInv /\ RestInv /\ [Next]_vars => RestInv'
<1> SUFFICES ASSUME IInv, RestInv, [Next]_vars PROVE RestInv'
  OBVIOUS
<1>1. CASE ReadLagNames
  BY <1>1, OpenedRest DEF ReadLagNames, ScannedTables, outside, history
<1>2. CASE VlansRead
  BY <1>2, OpenedRest DEF VlansRead, ScannedTables, outside, maps, history
<1>3. CASE BridgeRead
  BY <1>3, OpenedRest DEF BridgeRead, ScannedTables, outside, maps, history
<1>4. CASE Fail \/ Return
  <2>1. pc' \in {"failed", "ports"} /\ bvidToVlan' = [v \in Bvids |-> Nil]
    BY <1>4 DEF Fail, Return, Clear
  <2> QED
    BY <2>1 DEF RestInv, ScannedTables, AfterFdb
<1>5. CASE ReadPortNames \/ ScanVlans \/ ScanBridge \/ ReadBridgePort
  <2>1. pc' \in {"lags", "vlan", "bridgePort"} /\ UNCHANGED <<db, changed, bvidToVlan>>
    BY <1>5 DEF ReadPortNames, ScanVlans, ScanBridge, Scanned, ReadBridgePort, outside, maps,
                history
  <2> QED
    BY <2>1 DEF RestInv, ScannedTables, AfterFdb
<1>6. CASE ReadVlan
  <2> DEFINE v == keys[index]
  <2>1. /\ pc' = "vlan" /\ UNCHANGED <<db, changed>>
        /\ \/ bvidToVlan' = [bvidToVlan EXCEPT ![v] = db.vlans[v]]
           \/ bvidToVlan' = bvidToVlan
    BY <1>6 DEF ReadVlan, outside, history
  <2> HIDE DEF v
  <2>2. ASSUME NEW b \in Bvids, bvidToVlan'[b] # Nil, changed = {}
        PROVE  db.vlans[b] = bvidToVlan'[b]
    <3>1. bvidToVlan \in [Bvids -> Vlans \cup {Nil}]
      BY DEF IInv, TypeOK
    <3>2. bvidToVlan[b] # Nil => db.vlans[b] = bvidToVlan[b]
      BY <2>2 DEF RestInv
    <3> QED
      BY <2>1, <2>2, <3>1, <3>2
  <2> QED
    BY <2>1, <2>2 DEF RestInv, ScannedTables, AfterFdb
<1>7. CASE ScanEntries
  <2>1. PICK s \in FdbScan!SortedLists(window) : Scanned(s, "entry")
    BY <1>7 DEF ScanEntries
  <2>2. s \in FdbScan!Lists(window)
    BY DEF FdbScan!SortedLists
  <2>3. PICK n \in Nat : s \in [1 .. n -> window.ever]
    <3>1. \E n \in Nat : s \in [1 .. n -> window.ever]
      BY <2>2, SMT DEF FdbScan!Lists
    <3> QED
      BY <3>1
  <2>4. s \in Seq(AllKeys)
    BY <2>2, ListsAreSlices DEF IInv
  <2>5. DOMAIN s = 1 .. Len(s)
    BY <2>4, LenProperties
  <2>6. keys' = s /\ pc' = "entry" /\ pc = "fdb" /\ UNCHANGED <<db, changed, bvidToVlan>>
    BY <1>7, <2>1 DEF ScanEntries, Scanned, outside, maps
  <2>7. ListedKeys' \subseteq window.ever
    BY <2>3, <2>5, <2>6 DEF ListedKeys
  <2>8. Present("fdb")' = Present("fdb")
    BY <2>6 DEF Present
  <2> QED
    BY <2>6, <2>7, <2>8 DEF RestInv, ScannedTables
<1>8. CASE Truncate \/ SkipEntry \/ CountEntry \/ EntriesRead \/ Emit
  <2>1. /\ UNCHANGED <<db, changed, keys, bvidToVlan>>
        /\ pc \in AfterFdb /\ pc' \in AfterFdb
    BY <1>8 DEF Truncate, SkipEntry, CountEntry, EntriesRead, Emit, Visit, outside, walk, maps,
                history, AfterFdb
  <2>2. ListedKeys' = ListedKeys /\ Present("fdb")' = Present("fdb")
    BY <2>1 DEF ListedKeys, Present
  <2> QED
    BY <2>1, <2>2 DEF RestInv, ScannedTables, AfterFdb
<1>9. CASE UNCHANGED vars
  BY <1>9 DEF vars, outside, walk, maps, history, RestInv, ListedKeys, Present
<1>10. ASSUME NEW t \in Tables, NEW r \in RowsOf[t], Change(t, r) PROVE RestInv'
  BY <1>10 DEF Change, RestInv
<1> QED
  BY <1>1, <1>2, <1>3, <1>4, <1>5, <1>6, <1>7, <1>8, <1>9, <1>10 DEF Next

\* A sorted slice without repeats is strictly sorted.
LEMMA SliceInOrder ==
  ASSUME IInv, pc = "fdb", NEW s \in FdbScan!SortedLists(window), ~FdbScan!IsRepeated(s)
  PROVE  InOrder(s)
<1>1. window.ever \subseteq Keys
  BY DEF IInv, WindowInv, FdbScan!Windows
<1>2. s \in FdbScan!Lists(window) /\ \A i, j \in DOMAIN s : i <= j => s[i] <= s[j]
  BY DEF FdbScan!SortedLists
<1>3. \E n \in Nat : s \in [1 .. n -> window.ever]
  BY <1>2, SMT DEF FdbScan!Lists
<1>4. PICK n \in Nat : s \in [1 .. n -> window.ever]
  BY <1>3
<1>5. s \in Seq(Keys) /\ DOMAIN s = 1 .. n /\ Len(s) = n
  BY <1>1, <1>4, SliceFacts, LenProperties
<1> DEFINE L == FdbScan!Listed(s)
<1>6. s \in Surjection(1 .. n, L)
  BY <1>5 DEF FdbScan!Listed, Surjection
<1>7. IsFiniteSet(1 .. n) /\ Cardinality(1 .. n) = n
  BY <1>4, FS_Interval
<1>8. IsFiniteSet(L) /\ Cardinality(L) <= n /\ Cardinality(L) \in Nat
  BY <1>6, <1>7, FS_Surjection, FS_CardinalityType
<1>9. ~(n > Cardinality(L))
  <2>1. FdbScan!Cardinality(L) = Cardinality(L)
    BY DEF FdbScan!Cardinality, Cardinality
  <2> QED
    BY <1>5, <2>1 DEF FdbScan!IsRepeated
<1>10. s \in Injection(1 .. n, L)
  <2>1. Cardinality(1 .. n) = Cardinality(L)
    BY <1>7, <1>8, <1>9
  <2> QED
    BY <1>6, <1>7, <2>1, FS_SurjSameCardinalityImpliesInj
<1>11. ASSUME NEW i \in 1 .. n, NEW j \in 1 .. n, i < j PROVE s[i] < s[j]
  <2>1. s[i] \in Nat /\ s[j] \in Nat
    BY <1>1, <1>4, LabelsAssumption
  <2>2. s[i] # s[j]
    BY <1>10, <1>11 DEF Injection, IsInjective
  <2>3. s[i] <= s[j]
    BY <1>2, <1>5, <1>11
  <2> QED
    BY <2>1, <2>2, <2>3
<1> QED
  BY <1>5, <1>11 DEF InOrder

LEMMA SortedStep == IInv /\ SortedInv /\ [Next]_vars => SortedInv'
<1> SUFFICES ASSUME IInv, SortedInv, [Next]_vars PROVE SortedInv'
  OBVIOUS
<1>1. CASE ScanEntries
  <2>1. PICK s \in FdbScan!SortedLists(window) : Scanned(s, "entry")
    BY <1>1 DEF ScanEntries
  <2>2. keys' = s /\ (~repeated' => ~FdbScan!IsRepeated(s))
    BY <2>1, Zenon DEF Scanned
  <2>3. ~repeated' => InOrder(s)
    BY <1>1, <2>2, SliceInOrder DEF ScanEntries
  <2> QED
    BY <2>2, <2>3 DEF SortedInv, InOrder
<1>2. CASE \/ ReadPortNames \/ ReadLagNames \/ ScanVlans \/ ReadVlan \/ VlansRead
           \/ ScanBridge \/ ReadBridgePort \/ BridgeRead \/ Fail \/ Return
  <2>1. pc' \notin AfterFdb
    BY <1>2 DEF ReadPortNames, ReadLagNames, ScanVlans, Scanned, ReadVlan, VlansRead, ScanBridge,
                ReadBridgePort, BridgeRead, Fail, Return, AfterFdb
  <2> QED
    BY <2>1 DEF SortedInv
<1>3. CASE Truncate \/ SkipEntry \/ CountEntry \/ EntriesRead \/ Emit \/ UNCHANGED vars
  <2>1. UNCHANGED keys /\ UNCHANGED repeated /\ (pc' \in AfterFdb => pc \in AfterFdb)
    BY <1>3 DEF Truncate, SkipEntry, CountEntry, EntriesRead, Emit, Visit, vars, walk, history,
                AfterFdb
  <2> QED
    BY <2>1 DEF SortedInv, InOrder
<1>4. ASSUME NEW t \in Tables, NEW r \in RowsOf[t], Change(t, r) PROVE SortedInv'
  BY <1>4 DEF Change, SortedInv, InOrder
<1> QED
  BY <1>1, <1>2, <1>3, <1>4 DEF Next

LEMMA LimitStep == IInv /\ LimitInv /\ [Next]_vars => LimitInv'
<1> SUFFICES ASSUME IInv, LimitInv, [Next]_vars PROVE LimitInv'
  OBVIOUS
<1>1. config.maxEntries \in Nat \ {0} /\ index \in Nat \ {0}
  BY ConfigTypes DEF IInv, TypeOK
<1>2. CASE \/ ReadPortNames \/ ReadLagNames \/ ScanVlans \/ ReadVlan \/ VlansRead
           \/ ScanBridge \/ ReadBridgePort \/ BridgeRead
  <2>1. pc \in Early /\ pc' \in Early /\ UNCHANGED truncated
    BY <1>2 DEF ReadPortNames, ReadLagNames, ScanVlans, Scanned, ReadVlan, VlansRead, ScanBridge,
                ReadBridgePort, BridgeRead, result, Early
  <2> QED
    BY <2>1 DEF LimitInv, Early, AfterFdb
<1>3. CASE Fail \/ Return
  BY <1>3 DEF Fail, Return, Clear, LimitInv, Early, AfterFdb
<1>4. CASE ScanEntries
  <2>1. pc = "fdb" /\ pc' = "entry" /\ index' = 1 /\ UNCHANGED <<truncated, config>>
    BY <1>4 DEF ScanEntries, Scanned, result, outside
  <2> QED
    BY <1>1, <2>1 DEF LimitInv, Early, AfterFdb
<1>5. CASE SkipEntry \/ CountEntry
  <2>1. /\ pc = "entry" /\ pc' = "entry" /\ index' = index + 1 /\ ~(index > config.maxEntries)
        /\ UNCHANGED <<truncated, config>>
    BY <1>5 DEF SkipEntry, CountEntry, Visit, AtLimit, result, outside
  <2> QED
    BY <1>1, <2>1 DEF LimitInv, Early, AfterFdb
<1>6. CASE Truncate
  <2>1. /\ pc = "entry" /\ pc' = "emit" /\ truncated' = 1 /\ index > config.maxEntries
        /\ index <= Len(keys) /\ UNCHANGED <<index, keys, config>>
    BY <1>6 DEF Truncate, Visit, AtLimit, walk, outside
  <2>2. index = config.maxEntries + 1
    BY <1>1, <2>1 DEF LimitInv, AfterFdb
  <2> QED
    BY <1>1, <2>1, <2>2 DEF LimitInv, Early, AfterFdb
<1>7. CASE EntriesRead \/ Emit \/ UNCHANGED vars
  <2>1. UNCHANGED <<index, keys, config, truncated>>
    BY <1>7 DEF EntriesRead, Emit, vars, walk, outside, result
  <2>2. \/ pc = "entry" /\ pc' = "emit" /\ index > Len(keys)
        \/ pc = "emit" /\ pc' = "done"
        \/ pc' = pc
    BY <1>7 DEF EntriesRead, Emit, vars
  <2> QED
    BY <2>1, <2>2 DEF LimitInv, Early, AfterFdb
<1>8. ASSUME NEW t \in Tables, NEW r \in RowsOf[t], Change(t, r) PROVE LimitInv'
  BY <1>8 DEF Change, result, LimitInv
<1> QED
  BY <1>2, <1>3, <1>4, <1>5, <1>6, <1>7, <1>8 DEF Next

\* The first n values of f, and that they differ.
FirstOf(f, n) == {f[i] : i \in 1 .. n}
Differ(f, n)  == \A i, j \in 1 .. n : f[i] = f[j] => i = j

LEMMA ImageSize ==
  ASSUME NEW n \in Nat, NEW f, Differ(f, n)
  PROVE  IsFiniteSet(FirstOf(f, n)) /\ Cardinality(FirstOf(f, n)) = n
<1> DEFINE T == FirstOf(f, n)
           g == [i \in 1 .. n |-> f[i]]
<1>1. IsFiniteSet(1 .. n) /\ Cardinality(1 .. n) = n
  BY FS_Interval
<1>2. g \in Bijection(1 .. n, T)
  BY DEF Bijection, Injection, Surjection, IsInjective, FirstOf, Differ
<1>3. ExistsBijection(1 .. n, T)
  BY <1>2 DEF ExistsBijection
<1> HIDE DEF T, g
<1>4. IsFiniteSet(T) /\ Cardinality(T) = Cardinality(1 .. n)
  BY <1>1, <1>3, FS_Bijection
<1> QED
  BY <1>1, <1>4 DEF T

\* At rest the slice of the entries is their table, in order, so that a position
\* is one more than a rank.
LEMMA SliceIsTable ==
  ASSUME IInv, SliceInv, RestInv, SortedInv, changed = {}, ~repeated, pc \in AfterFdb
  PROVE  /\ ListedKeys = Present("fdb") /\ Present("fdb") \subseteq Keys
         /\ Len(keys) \in Nat /\ Cardinality(Present("fdb")) = Len(keys)
         /\ \A i, j \in 1 .. Len(keys) : keys[i] = keys[j] => i = j
         /\ \A j \in 1 .. Len(keys) :
              Cardinality({k \in Present("fdb") : k < keys[j]}) = j - 1
<1>1. PICK n \in Nat : n = Len(keys) /\ DOMAIN keys = 1 .. n
  BY LenProperties DEF IInv, TypeOK
<1>2. PICK f : f = keys
  OBVIOUS
<1>3. ListedKeys = Present("fdb") /\ Present("fdb") \subseteq Keys
  BY DEF SliceInv, RestInv, AfterFdb, IsStable, Present, RowsOf
<1>4. \A i \in 1 .. n : f[i] \in Nat
  BY <1>1, <1>2, <1>3, LabelsAssumption DEF ListedKeys
<1>5. \A i, j \in 1 .. n : i < j => f[i] < f[j]
  <2>1. ~repeated
    BY Zenon
  <2>2. InOrder(keys)
    BY <2>1 DEF SortedInv
  <2> QED
    BY <1>1, <1>2, <2>2 DEF InOrder
<1>6. \A i, j \in 1 .. n : f[i] < f[j] => i < j
  <2> SUFFICES ASSUME NEW i \in 1 .. n, NEW j \in 1 .. n, f[i] < f[j], ~(i < j) PROVE FALSE
    OBVIOUS
  <2>1. i = j \/ j < i
    OBVIOUS
  <2>2. f[i] = f[j] \/ f[j] < f[i]
    BY <1>5, <2>1
  <2> QED
    BY <1>4, <2>2
<1>7. Differ(f, n)
  <2> SUFFICES ASSUME NEW i \in 1 .. n, NEW j \in 1 .. n, f[i] = f[j], i # j PROVE FALSE
    BY DEF Differ
  <2>1. i < j \/ j < i
    OBVIOUS
  <2>2. f[i] < f[j] \/ f[j] < f[i]
    BY <1>5, <2>1
  <2> QED
    BY <1>4, <2>2
<1>8. FirstOf(f, n) = Present("fdb")
  BY <1>1, <1>2, <1>3 DEF FirstOf, ListedKeys
<1>9. Cardinality(Present("fdb")) = n
  BY <1>7, <1>8, ImageSize
<1>10. ASSUME NEW j \in 1 .. n
       PROVE  Cardinality({k \in Present("fdb") : k < f[j]}) = j - 1
  <2>1. PICK m \in Nat : m = j - 1 /\ m <= n
    OBVIOUS
  <2>2. \A i \in 1 .. n : f[i] < f[j] <=> i \in 1 .. m
    BY <1>5, <1>6, <2>1
  <2>3. {k \in Present("fdb") : k < f[j]} = FirstOf(f, m)
    <3>1. FirstOf(f, m) \subseteq FirstOf(f, n)
      BY <2>1 DEF FirstOf
    <3> QED
      BY <1>8, <2>1, <2>2, <3>1 DEF FirstOf
  <2>4. Differ(f, m)
    BY <1>7, <2>1 DEF Differ
  <2> QED
    BY <2>1, <2>3, <2>4, ImageSize
<1> QED
  BY <1>1, <1>2, <1>3, <1>7, <1>9, <1>10 DEF Differ

\* The key at hand is that of an entry, and was not looked at.
LEMMA KeyAtHand ==
  ASSUME IInv, SliceInv, RestInv, SortedInv, changed = {}, ~repeated, pc = "entry",
         index <= Len(keys)
  PROVE  /\ keys[index] \in Keys /\ db.fdb[keys[index]] # Absent /\ keys[index] \notin Walked
         /\ Walked \subseteq Present("fdb") /\ Walked \subseteq Keys
<1>1. /\ ListedKeys = Present("fdb") /\ Present("fdb") \subseteq Keys
      /\ Len(keys) \in Nat
      /\ \A i, j \in 1 .. Len(keys) : keys[i] = keys[j] => i = j
  BY SliceIsTable DEF AfterFdb
<1>2. index \in 1 .. Len(keys) /\ index \in Nat
  BY <1>1 DEF IInv, TypeOK
<1>3. keys[index] \in Present("fdb")
  BY <1>1, <1>2 DEF ListedKeys
<1>4. \A j \in 1 .. index - 1 : j \in 1 .. Len(keys) /\ j # index
  BY <1>1, <1>2
<1>5. keys[index] \notin Walked
  BY <1>1, <1>2, <1>4 DEF Walked
<1>6. Walked \subseteq Present("fdb")
  BY <1>1, <1>4 DEF Walked, ListedKeys
<1> QED
  BY <1>1, <1>3, <1>5, <1>6 DEF Present

\* At rest the label of a key is that of its row.
LEMMA LabelIsRow ==
  ASSUME IInv, VlanInv, RestInv, changed = {}, pc = "entry", NEW k \in Keys,
         db.fdb[k] # Absent, NEW w \in Vlans
  PROVE  VlanLabel(k) = w <=> StableIn(k, w)
<1>1. StableIn(k, w) => VlanLabel(k) = w
  BY VlanOfKey
<1>2. ASSUME VlanLabel(k) = w PROVE StableIn(k, w)
  <2>1. w # Unknown
    BY LabelsAssumption
  <2>2. CASE OwnVlan[k] # Nil
    BY <1>2, <2>2 DEF VlanLabel, StableIn
  <2>3. CASE OwnVlan[k] = Nil /\ bvidToVlan[Bvid[k]] # Nil
    <3>1. bvidToVlan[Bvid[k]] = w
      BY <1>2, <2>3 DEF VlanLabel
    <3>2. db.vlans[Bvid[k]] = w
      BY <2>3, <3>1, LabelsAssumption DEF RestInv
    <3> QED
      BY <2>3, <3>2 DEF StableIn
  <2>4. CASE OwnVlan[k] = Nil /\ bvidToVlan[Bvid[k]] = Nil
    BY <1>2, <2>1, <2>4 DEF VlanLabel
  <2> QED
    BY <2>2, <2>3, <2>4
<1> QED
  BY <1>1, <1>2

LEMMA CountSame ==
  ASSUME CountInv, UNCHANGED <<db, changed, keys, index, counts>>, repeated' <=> repeated,
         pc' \in Early => pc \in Early, pc' \in AfterFdb => pc \in AfterFdb
  PROVE  CountInv'
<1>1. Walked' = Walked
  BY DEF Walked
<1>2. Valid' = Valid /\ \A t : KeysOf(t)' = KeysOf(t)
  BY <1>1 DEF Valid, KeysOf
<1>3. \A v : KeysIn(v)' = KeysIn(v)
  BY <1>1 DEF KeysIn, StableIn
<1> QED
  BY <1>2, <1>3 DEF CountInv

LEMMA ScanEntriesCount == IInv /\ CountInv /\ ScanEntries => CountInv'
<1> SUFFICES ASSUME IInv, CountInv, ScanEntries PROVE CountInv'
  OBVIOUS
<1>1. pc = "fdb" /\ pc' = "entry" /\ index' = 1 /\ counts' = NoCounts
  BY DEF ScanEntries, Scanned, result, CountInv, Early
<1>2. Walked' = {}
  BY <1>1 DEF Walked
<1>3. Valid' = {} /\ (\A t : KeysOf(t)' = {}) /\ (\A v : KeysIn(v)' = {})
  BY <1>2 DEF Valid, KeysOf, KeysIn
<1>4. /\ counts'.entries = 0 /\ \A t \in TypeLabels : counts'.byType[t] = 0
      /\ \A v \in Vlans : counts'.byVlan[v] = 0
  BY <1>1 DEF NoCounts, VlanLabels
<1> QED
  BY <1>1, <1>3, <1>4, FS_EmptySet DEF CountInv, Early

\* A key that gives no entry at rest is malformed.
LEMMA SkipEntryCount ==
  ASSUME IInv, SliceInv, RestInv, SortedInv, CountInv, SkipEntry
  PROVE  CountInv'
<1>1. /\ pc = "entry" /\ pc' = pc /\ index' = index + 1 /\ index <= Len(keys)
      /\ keys[index] \in Malformed \/ db.fdb[keys[index]] = Absent
      /\ UNCHANGED <<db, changed, keys, counts>>
  BY DEF SkipEntry, Visit, outside, history
<1>2. UNCHANGED repeated
  BY DEF SkipEntry, history
<1>3. Walked' = Walked \cup {keys[index]}
  BY <1>1, WalkedNext DEF IInv
<1> SUFFICES ASSUME changed = {}, ~repeated
             PROVE  /\ counts.entries = Cardinality(Valid')
                    /\ \A t \in TypeLabels : counts.byType[t] = Cardinality(KeysOf(t)')
                    /\ \A v \in Vlans : counts.byVlan[v] = Cardinality(KeysIn(v)')
  BY <1>1, <1>2, Zenon DEF CountInv, Early
<1>4. keys[index] \in Malformed
  BY <1>1, KeyAtHand
<1>5. Valid' = Valid /\ (\A t : KeysOf(t)' = KeysOf(t)) /\ (\A v : KeysIn(v)' = KeysIn(v))
  BY <1>1, <1>3, <1>4 DEF Valid, KeysOf, KeysIn, StableIn
<1>6. ~repeated
  BY Zenon
<1> QED
  BY <1>1, <1>5, <1>6 DEF CountInv, AfterFdb

LEMMA CountEntryCount ==
  ASSUME IInv, SliceInv, VlanInv, RestInv, SortedInv, CountInv, CountEntry
  PROVE  CountInv'
<1> DEFINE e == db.fdb[keys[index]]
           w == VlanLabel(keys[index])
           p == PortLabel(e.port)
<1>1. /\ pc = "entry" /\ pc' = pc /\ index' = index + 1 /\ index <= Len(keys)
      /\ keys[index] \notin Malformed
      /\ counts' = Counted(counts, w, p, e.type)
      /\ UNCHANGED <<db, changed, keys>>
  BY DEF CountEntry, Visit, outside, history
<1>2. UNCHANGED repeated
  BY DEF CountEntry, history
<1> SUFFICES ASSUME changed = {}, ~repeated
             PROVE  /\ counts'.entries = Cardinality(Valid')
                    /\ \A t \in TypeLabels : counts'.byType[t] = Cardinality(KeysOf(t)')
                    /\ \A v \in Vlans : counts'.byVlan[v] = Cardinality(KeysIn(v)')
  BY <1>1, <1>2, Zenon DEF CountInv, Early
<1>3. ~repeated
  BY Zenon
<1>4. PICK k : k = keys[index]
  OBVIOUS
<1>5. k \in Keys /\ db.fdb[k] # Absent /\ k \notin Walked
  BY <1>1, <1>4, KeyAtHand
<1>6. Walked' = Walked \cup {k}
  BY <1>1, <1>4, WalkedNext DEF IInv
<1>7. \A v \in Vlans : w = v <=> StableIn(k, v)
  BY <1>1, <1>4, <1>5, LabelIsRow
<1>8. /\ \A v \in VlanLabels : counts'.byVlan[v] = IF v = w THEN counts.byVlan[v] + 1
                                                            ELSE counts.byVlan[v]
      /\ \A u \in TypeLabels : counts'.byType[u] = IF u = e.type THEN counts.byType[u] + 1
                                                              ELSE counts.byType[u]
      /\ counts'.entries = counts.entries + 1
  BY <1>1, CountedBy DEF IInv
<1>9. /\ counts.entries = Cardinality(Valid)
      /\ \A t \in TypeLabels : counts.byType[t] = Cardinality(KeysOf(t))
      /\ \A v \in Vlans : counts.byVlan[v] = Cardinality(KeysIn(v))
  BY <1>1, <1>3 DEF CountInv, AfterFdb
<1> HIDE DEF w, p
<1>10. Cardinality(Valid') = Cardinality(Valid) + 1
  <2>1. Valid' = Valid \cup {k} /\ k \notin Valid
    BY <1>1, <1>4, <1>5, <1>6 DEF Valid
  <2>2. IsFiniteSet(Valid)
    BY WalkedFinite DEF IInv, Valid
  <2> QED
    BY <2>1, <2>2, FS_AddElement
<1>11. ASSUME NEW t \in TypeLabels PROVE counts'.byType[t] = Cardinality(KeysOf(t)')
  <2>1. KeysOf(t)' = {j \in (((Walked \cup {k}) \cap Keys) \ Malformed) : db.fdb[j].type = t}
    BY <1>1, <1>6 DEF KeysOf, Valid
  <2>2. KeysOf(t)' = (IF t = e.type THEN KeysOf(t) \cup {k} ELSE KeysOf(t)) /\ k \notin KeysOf(t)
    BY <1>1, <1>4, <1>5, <2>1 DEF KeysOf, Valid
  <2>3. IsFiniteSet(KeysOf(t))
    BY WalkedFinite DEF IInv, KeysOf, Valid
  <2>4. t = e.type => Cardinality(KeysOf(t)') = Cardinality(KeysOf(t)) + 1
    BY <2>2, <2>3, FS_AddElement
  <2> QED
    BY <1>8, <1>9, <2>2, <2>4
<1>12. ASSUME NEW v \in Vlans PROVE counts'.byVlan[v] = Cardinality(KeysIn(v)')
  <2>1. KeysIn(v)' = {j \in (((Walked \cup {k}) \cap Keys) \ Malformed) : StableIn(j, v)}
    BY <1>1, <1>6 DEF KeysIn, StableIn
  <2>2. KeysIn(v)' = (IF v = w THEN KeysIn(v) \cup {k} ELSE KeysIn(v)) /\ k \notin KeysIn(v)
    BY <1>1, <1>4, <1>5, <1>7, <2>1 DEF KeysIn
  <2>3. IsFiniteSet(KeysIn(v))
    BY WalkedFinite DEF IInv, KeysIn
  <2>4. v = w => Cardinality(KeysIn(v)') = Cardinality(KeysIn(v)) + 1
    BY <2>2, <2>3, FS_AddElement
  <2>5. counts'.byVlan[v] = IF v = w THEN counts.byVlan[v] + 1 ELSE counts.byVlan[v]
    BY <1>8 DEF VlanLabels
  <2> QED
    BY <1>9, <2>2, <2>4, <2>5
<1> QED
  BY <1>8, <1>9, <1>10, <1>11, <1>12

LEMMA CountStep ==
  ASSUME IInv, SliceInv, VlanInv, RestInv, SortedInv, CountInv, [Next]_vars
  PROVE  CountInv'
<1>1. CASE ScanEntries
  BY <1>1, ScanEntriesCount
<1>2. CASE SkipEntry
  BY <1>2, SkipEntryCount
<1>3. CASE CountEntry
  BY <1>3, CountEntryCount
<1>4. CASE \/ ReadPortNames \/ ReadLagNames \/ ScanVlans \/ ReadVlan \/ VlansRead
           \/ ScanBridge \/ ReadBridgePort \/ BridgeRead
  <2>1. pc \in Early /\ pc' \in Early /\ counts' = counts
    BY <1>4 DEF ReadPortNames, ReadLagNames, ScanVlans, Scanned, ReadVlan, VlansRead, ScanBridge,
                ReadBridgePort, BridgeRead, result, Early
  <2> QED
    BY <2>1 DEF CountInv, Early, AfterFdb
<1>5. CASE Fail \/ Return
  BY <1>5 DEF Fail, Return, Clear, CountInv, AfterFdb
<1>6. CASE Truncate \/ EntriesRead \/ Emit \/ UNCHANGED vars
  <2>1. /\ UNCHANGED <<db, changed, keys, index, counts>>
        /\ pc' \in AfterFdb => pc \in AfterFdb
        /\ pc' \in Early => pc \in Early
    BY <1>6 DEF Truncate, EntriesRead, Emit, Visit, vars, outside, walk, result, history, AfterFdb,
                Early
  <2>2. UNCHANGED repeated
    BY <1>6 DEF Truncate, EntriesRead, Emit, vars, history
  <2>3. repeated' <=> repeated
    BY <2>2, Zenon
  <2> QED
    BY <2>1, <2>3, CountSame
<1>7. ASSUME NEW t \in Tables, NEW r \in RowsOf[t], Change(t, r) PROVE CountInv'
  BY <1>7 DEF Change, result, CountInv
<1> QED
  BY <1>1, <1>2, <1>3, <1>4, <1>5, <1>6, <1>7 DEF Next

LEMMA QuietInvariance == Spec => [](PlaceInv /\ QuietInv)
<1>1. Init => PlaceInv /\ QuietInv
  <2> SUFFICES ASSUME Init PROVE PlaceInv /\ QuietInv
    OBVIOUS
  <2>1. /\ pc = "ports" /\ counts = NoCounts /\ truncated = 0
        /\ bvidToVlan = [v \in Bvids |-> Nil]
    BY DEF Init, Fresh
  <2>2. RestInv /\ SortedInv /\ LimitInv /\ CountInv
    BY <2>1 DEF RestInv, SortedInv, LimitInv, CountInv, ScannedTables, AfterFdb, Early
  <2> QED
    BY <2>2, InitPlaceInv DEF QuietInv
<1>2. PlaceInv /\ QuietInv /\ [Next]_vars => PlaceInv' /\ QuietInv'
  BY NextPlaceInv, RestStep, SortedStep, LimitStep, CountStep DEF PlaceInv, MapsInv, QuietInv
<1> QED
  BY <1>1, <1>2, PTL DEF Spec

\* At the end of a scrape of tables at rest the keys looked at are the first ones.
LEMMA WalkedFirst ==
  ASSUME PlaceInv, QuietInv, pc = "done", changed = {}, ~repeated
  PROVE  /\ Valid = FirstKeys /\ Valid \subseteq Keys
         /\ truncated = IF Cardinality(Present("fdb")) > config.maxEntries THEN 1 ELSE 0
<1> USE DEF PlaceInv, MapsInv, QuietInv
<1>1. /\ ListedKeys = Present("fdb") /\ Present("fdb") \subseteq Keys
      /\ Len(keys) \in Nat /\ Cardinality(Present("fdb")) = Len(keys)
      /\ \A i, j \in 1 .. Len(keys) : keys[i] = keys[j] => i = j
      /\ \A j \in 1 .. Len(keys) :
           Cardinality({k \in Present("fdb") : k < keys[j]}) = j - 1
  BY SliceIsTable DEF AfterFdb
<1>2. config.maxEntries \in Nat \ {0} /\ index \in 1 .. Len(keys) + 1
  BY ConfigTypes DEF IInv, TypeOK
<1>3. /\ index <= config.maxEntries + 1
      /\ \/ truncated = 0 /\ index > Len(keys)
         \/ truncated = 1 /\ index = config.maxEntries + 1 /\ index <= Len(keys)
  BY DEF LimitInv, AfterFdb
<1>4. truncated = IF Cardinality(Present("fdb")) > config.maxEntries THEN 1 ELSE 0
  BY <1>1, <1>2, <1>3
<1>5. ASSUME NEW j \in 1 .. Len(keys)
      PROVE  j \in 1 .. index - 1 <=> j - 1 < config.maxEntries
  BY <1>1, <1>2, <1>3
<1>6. Walked \subseteq Present("fdb")
  BY <1>1, <1>2 DEF Walked, ListedKeys
<1>7. ASSUME NEW k \in Present("fdb")
      PROVE  k \in Walked <=>
               Cardinality({j \in Present("fdb") : j < k}) < config.maxEntries
  <2>1. PICK j \in 1 .. Len(keys) : k = keys[j]
    BY <1>1 DEF ListedKeys
  <2>2. Cardinality({i \in Present("fdb") : i < k}) = j - 1
    BY <1>1, <2>1
  <2>3. k \in Walked <=> j \in 1 .. index - 1
    <3>1. \A i \in 1 .. index - 1 : i \in 1 .. Len(keys)
      BY <1>1, <1>2
    <3> QED
      BY <1>1, <2>1, <3>1 DEF Walked
  <2> QED
    BY <1>5, <2>2, <2>3
<1>8. Valid = FirstKeys
  BY <1>1, <1>6, <1>7 DEF Valid, FirstKeys
<1> QED
  BY <1>4, <1>8 DEF Valid

-----------------------------------------------------------------------------
\* The counters of scrapeMetrics and what it holds between two commands have
\* their types, and the entries never pass FDB_MAX_ENTRIES.
THEOREM FdbTypeCorrect == Spec => []TypeOK
<1>1. Spec => []IInv
  BY InitIInv, NextIInv, PTL DEF Spec
<1>2. IInv => TypeOK
  BY DEF IInv
<1> QED
  BY <1>1, <1>2, PTL

\* sonic_fdb_entries_skipped is, after any scrape that succeeds, what the maps
\* skipped, the keys that gave no entry and the labels left out, each once.
THEOREM FdbAccounted == Spec => []Accounted
<1>1. Spec => []IInv
  BY InitIInv, NextIInv, PTL DEF Spec
<1>2. IInv => Accounted
  BY DEF IInv
<1> QED
  BY <1>1, <1>2, PTL

\* For any tables and however they change, an entry that stays where it is during
\* the scrape is counted on its port and in its VLAN: the maps read before it hold
\* what its rows say, and the SCANs return them.
THEOREM StableEntriesPlaced == Spec => []StableEntryPlaced
<1>1. Spec => []PlaceInv
  BY InitPlaceInv, NextPlaceInv, PTL DEF Spec
<1> QED
  BY <1>1, AllPlaced, PTL

\* A scrape of tables at rest counts exactly the entries of the first keys, by
\* type and by VLAN, whatever the order of SCAN, and says whether there are more.
THEOREM QuietFdbIsExact == Spec => []QuietScrapeIsExact
<1>1. PlaceInv /\ QuietInv => QuietScrapeIsExact
  <2> SUFFICES ASSUME PlaceInv, QuietInv, pc = "done", changed = {}, ~repeated
               PROVE  /\ counts.entries = Cardinality(FirstKeys)
                      /\ truncated = IF Cardinality(Present("fdb")) > config.maxEntries
                                     THEN 1 ELSE 0
                      /\ \A t \in TypeLabels :
                           counts.byType[t] = Cardinality({k \in FirstKeys : db.fdb[k].type = t})
                      /\ \A v \in Vlans :
                           counts.byVlan[v] = Cardinality({k \in FirstKeys : StableIn(k, v)})
    BY DEF QuietScrapeIsExact
  <2>1. Valid = FirstKeys /\ Valid \subseteq Keys
    BY WalkedFirst
  <2>2. ~repeated
    BY Zenon
  <2>3. /\ counts.entries = Cardinality(Valid)
        /\ \A t \in TypeLabels : counts.byType[t] = Cardinality(KeysOf(t))
        /\ \A v \in Vlans : counts.byVlan[v] = Cardinality(KeysIn(v))
    BY <2>2 DEF QuietInv, CountInv, AfterFdb
  <2>4. \A v : KeysIn(v) = {k \in Valid : StableIn(k, v)}
    BY DEF KeysIn, Valid
  <2>5. truncated = IF Cardinality(Present("fdb")) > config.maxEntries THEN 1 ELSE 0
    BY WalkedFirst
  <2> QED
    BY <2>1, <2>3, <2>4, <2>5 DEF KeysOf
<1> QED
  BY <1>1, QuietInvariance, PTL

=============================================================================
