----------------------------- MODULE LldpScrape -----------------------------
(***************************************************************************)
(* scrapeMetrics of the LLDP collector: a SCAN of LLDP_ENTRY_TABLE, a sort,*)
(* and one HGETALL per key, while lldpmgrd goes on changing the table.     *)
(* RefreshCollector takes the result of a scrape for granted; this module  *)
(* opens it.                                                               *)
(*                                                                         *)
(* A key is a number: the order of numbers is the order sort.Strings gives *)
(* the names.  The hash of a key is absent, blank (none of the five fields *)
(* that identify a neighbor) or a peer.  The sorted slice is the bag of    *)
(* the keys still to visit: the loop takes the least.                      *)
(***************************************************************************)
EXTENDS Naturals, FiniteSets

CONSTANTS Keys,       \* keys of LLDP_ENTRY_TABLE:*
          Malformed,  \* keys with nothing after the prefix
          Mgmt,       \* the key of eth0
          Peers,      \* hashes that identify a neighbor
          NoKey,      \* no hash is being read
          Limits,     \* values LLDP_MAX_NEIGHBORS may have
          Repeats     \* bound: how often SCAN may return a key again

ASSUME KeysAssumption ==
  /\ Keys \subseteq Nat /\ IsFiniteSet(Keys)
  /\ Malformed \subseteq Keys
  /\ Mgmt \subseteq Keys
  /\ NoKey \notin Keys

\* parseIntEnv refuses a limit below 1.
ASSUME LimitsAssumption == Limits \subseteq Nat \ {0}

ASSUME PeersAssumption == Peers \cap {"absent", "blank"} = {}

ASSUME RepeatsAssumption == Repeats \in Nat

VARIABLES db,        \* db[k]: what HGETALL of k would return now
          config,    \* maxNeighbors and includeMgmt
          pc,        \* scan, chassis, loop, read, done or failed
          scan,      \* the SCAN iteration, then the keys still to visit
          at,        \* the key whose hash is being read
          series,    \* how often neighbor_info of <<key, peer>> was appended
          neighbors, \* the local variables of scrapeMetrics
          skipped,
          ignored,   \* history: management entries passed over silently
          scanned,   \* history: len(lldpKeys)
          stable,    \* history: keys whose hash did not change in this scrape
          repeated   \* history: SCAN returned a key again

counts  == <<neighbors, skipped, ignored>>
history == <<scanned, stable, repeated>>
vars    == <<db, config, pc, scan, at, series, counts, history>>

Redis == INSTANCE RedisScan

Hashes  == {"absent", "blank"} \cup Peers
Present == {k \in Keys : db[k] # "absent"}
NoSeries == [s \in Keys \X Peers |-> 0]

TypeOK ==
  /\ db \in [Keys -> Hashes]
  /\ config \in [maxNeighbors : Limits, includeMgmt : BOOLEAN]
  /\ pc \in {"scan", "chassis", "loop", "read", "done", "failed"}
  /\ scan \in Redis!ScanType
  /\ at \in Keys \cup {NoKey}
  /\ series \in [Keys \X Peers -> Nat]
  /\ neighbors \in 0 .. config.maxNeighbors
  /\ skipped \in Nat /\ ignored \in Nat /\ scanned \in Nat
  /\ stable \subseteq Keys
  /\ repeated \in BOOLEAN

Init ==
  /\ db \in [Keys -> Hashes]
  /\ config \in [maxNeighbors : Limits, includeMgmt : BOOLEAN]
  /\ pc = "scan"
  /\ scan = Redis!ScanOf(Present)
  /\ at = NoKey
  /\ series = NoSeries
  /\ neighbors = 0 /\ skipped = 0 /\ ignored = 0
  /\ scanned = 0
  /\ stable = Keys
  /\ repeated = FALSE

-----------------------------------------------------------------------------
(* SCAN, and the read of the local chassis.                                *)

ScanReturns(k) ==
  /\ pc = "scan"
  /\ k \in Present
  /\ Redis!ScanReply(k)
  /\ scanned' = scanned + 1
  /\ repeated' = (repeated \/ scan.found[k] > 0)
  /\ UNCHANGED <<db, config, pc, at, series, counts, stable>>

\* MUTANT: the first reply is taken for the whole answer.
ScanEndsEarly ==
  /\ pc = "scan"
  /\ pc' = "chassis"
  /\ Redis!ScanEnd
  /\ UNCHANGED <<db, config, at, series, counts, history>>

ScanEnds ==
  /\ pc = "scan"
  /\ Redis!ScanComplete
  /\ pc' = "chassis"
  /\ Redis!ScanEnd
  /\ UNCHANGED <<db, config, at, series, counts, history>>

\* The chassis entry may be empty; its series is not a neighbor's.
Chassis ==
  /\ pc = "chassis"
  /\ pc' = "loop"
  /\ UNCHANGED <<db, config, scan, at, series, counts, history>>

ClearLocals ==
  /\ scan' = Redis!ScanOf(Present)
  /\ at' = NoKey
  /\ series' = NoSeries
  /\ neighbors' = 0 /\ skipped' = 0 /\ ignored' = 0
  /\ scanned' = 0
  /\ stable' = Keys
  /\ repeated' = FALSE

\* A command fails, or is not sent because the deadline has passed: nil, 0, 0
\* and the error are returned.
Fail ==
  /\ pc \in {"scan", "chassis", "read"}
  /\ pc' = "failed"
  /\ ClearLocals
  /\ UNCHANGED <<db, config>>

-----------------------------------------------------------------------------
(* The loop over the sorted keys.                                          *)

\* MUTANT: the keys are not sorted.
IsNextUnsorted(k) == scan.found[k] > 0

IsNext(k) ==
  /\ scan.found[k] > 0
  /\ \A j \in Keys : scan.found[j] > 0 => k <= j

Visit(k) ==
  /\ pc = "loop"
  /\ IsNext(k)
  /\ scan' = [scan EXCEPT !.found[k] = @ - 1]

\* MUTANT: the limit is tested with > instead of >=.
FullAboveLimit == neighbors > config.maxNeighbors

Full == neighbors >= config.maxNeighbors

\* Once the limit is reached every key is skipped, whatever it is.
OverLimit(k) ==
  /\ Visit(k)
  /\ Full
  /\ skipped' = skipped + 1
  /\ UNCHANGED <<db, config, pc, at, series, neighbors, ignored, history>>

MalformedKey(k) ==
  /\ Visit(k)
  /\ ~Full
  /\ k \in Malformed
  /\ skipped' = skipped + 1
  /\ UNCHANGED <<db, config, pc, at, series, neighbors, ignored, history>>

\* LLDP_INCLUDE_MGMT=false: not an entry that was skipped.
Management(k) ==
  /\ Visit(k)
  /\ ~Full
  /\ k \in Mgmt \ Malformed
  /\ ~config.includeMgmt
  /\ ignored' = ignored + 1
  /\ UNCHANGED <<db, config, pc, at, series, neighbors, skipped, history>>

ReadHash(k) ==
  /\ Visit(k)
  /\ ~Full
  /\ k \notin Malformed
  /\ k \in Mgmt => config.includeMgmt
  /\ at' = k
  /\ pc' = "read"
  /\ UNCHANGED <<db, config, series, counts, history>>

\* MUTANT: the entry is counted before its hash is looked at.
EntryCountsFirst ==
  /\ pc = "read"
  /\ pc' = "loop"
  /\ neighbors' = neighbors + 1
  /\ IF db[at] \in Peers
     THEN /\ series' = [series EXCEPT ![<<at, db[at]>>] = @ + 1]
          /\ UNCHANGED skipped
     ELSE UNCHANGED <<series, skipped>>
  /\ at' = NoKey
  /\ UNCHANGED <<db, config, scan, ignored, history>>

\* MUTANT: a key that is gone is passed over without being counted.
EntryGoneUncounted ==
  /\ pc = "read"
  /\ pc' = "loop"
  /\ IF db[at] \in Peers
     THEN /\ series' = [series EXCEPT ![<<at, db[at]>>] = @ + 1]
          /\ neighbors' = neighbors + 1
          /\ UNCHANGED skipped
     ELSE /\ skipped' = IF db[at] = "blank" THEN skipped + 1 ELSE skipped
          /\ UNCHANGED <<series, neighbors>>
  /\ at' = NoKey
  /\ UNCHANGED <<db, config, scan, ignored, history>>

\* HGETALL of a key that is gone answers with an empty hash.
Entry ==
  /\ pc = "read"
  /\ pc' = "loop"
  /\ IF db[at] \in Peers
     THEN /\ series' = [series EXCEPT ![<<at, db[at]>>] = @ + 1]
          /\ neighbors' = neighbors + 1
          /\ UNCHANGED skipped
     ELSE /\ skipped' = skipped + 1
          /\ UNCHANGED <<series, neighbors>>
  /\ at' = NoKey
  /\ UNCHANGED <<db, config, scan, ignored, history>>

Finish ==
  /\ pc = "loop"
  /\ \A k \in Keys : scan.found[k] = 0
  /\ pc' = "done"
  /\ UNCHANGED <<db, config, scan, at, series, counts, history>>

\* The result is handed to refreshMetrics; the next refresh starts afresh.
Return ==
  /\ pc \in {"done", "failed"}
  /\ pc' = "scan"
  /\ ClearLocals
  /\ UNCHANGED <<db, config>>

-----------------------------------------------------------------------------
\* lldpmgrd writes, rewrites or deletes the entry k.
Change(k) ==
  /\ db' \in {[db EXCEPT ![k] = h] : h \in Hashes \ {db[k]}}
  /\ stable' = stable \ {k}
  /\ IF db'[k] = "absent" THEN Redis!ScanLoses(k) ELSE UNCHANGED scan
  /\ UNCHANGED <<config, pc, at, series, counts, scanned, repeated>>

VisitKey(k) == OverLimit(k) \/ MalformedKey(k) \/ Management(k) \/ ReadHash(k)

Next ==
  \/ ScanEnds \/ Chassis \/ Fail \/ Entry \/ Finish \/ Return
  \/ \E k \in Keys : ScanReturns(k) \/ VisitKey(k) \/ Change(k)

Spec == Init /\ [][Next]_vars

-----------------------------------------------------------------------------
(* Properties.                                                             *)

Wanted(k) ==
  /\ k \notin Malformed
  /\ k \in Mgmt => config.includeMgmt
  /\ db[k] \in Peers

\* Every key SCAN returned is accounted for once: exported, counted as skipped,
\* or a management entry nobody asked for.
Accounted == pc = "done" => neighbors + skipped + ignored = scanned

\* A neighbor that did not change during the scrape is exported, whatever the
\* rest of the table did meanwhile, unless the limit was reached.
StableNeighborExported ==
  pc = "done" /\ ~Full =>
    \A k \in stable : Wanted(k) => series[<<k, db[k]>>] > 0

\* The neighbors a scrape of the table at rest exports: the first ones by name.
FirstNeighbors ==
  LET all == {k \in Keys : Wanted(k)}
  IN  {k \in all : Cardinality({j \in all : j < k}) < config.maxNeighbors}

\* A table that does not change gives the same series at every refresh, however
\* SCAN orders its keys: those above the limit do not come and go.
QuietScrapeIsExact ==
  pc = "done" /\ stable = Keys /\ ~repeated =>
    /\ neighbors = Cardinality(FirstNeighbors)
    /\ \A k \in Keys, p \in Peers :
         series[<<k, p>>] = IF k \in FirstNeighbors /\ p = db[k] THEN 1 ELSE 0

\* sonic_lldp_neighbors is "Number of LLDP neighbors exported"
\* (lldp_collector.go:61): it is the number of neighbor_info series.
GaugeCountsSeries ==
  pc = "done" => neighbors = Cardinality({s \in DOMAIN series : series[s] > 0})

\* It is, and no series is appended twice, when SCAN returns each key once: the
\* table may change under the scrape.
UniqueScanGivesUniqueSeries ==
  pc = "done" /\ ~repeated =>
    /\ GaugeCountsSeries
    /\ \A s \in DOMAIN series : series[s] <= 1

=============================================================================
