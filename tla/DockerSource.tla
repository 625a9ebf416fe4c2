---------------------------- MODULE DockerSource ----------------------------
(***************************************************************************)
(* The Docker collector and its source.  A daemon of the switch rewrites   *)
(* the DOCKER_STATS entries from time to time and then stamps the update   *)
(* in DOCKER_STATS|LastUpdateTime.  A refresh reads the stamp, decides     *)
(* whether the source is stale, then scans and reads the entries.  Collect *)
(* reports the flag of the refresh next to ages it computes itself.        *)
(*                                                                         *)
(* Timestamps are ages that grow with the clock, up to Horizon.  The       *)
(* daemon's clock may be ahead: a stamp's age may be negative.  Locking is *)
(* RefreshCollector's: a publication is one step here.  entries_skipped,   *)
(* and the fields of an entry, are left out: an entry is the number of the *)
(* update that wrote it.                                                   *)
(***************************************************************************)
EXTENDS Integers, FiniteSets

CONSTANTS Containers, \* keys of DOCKER_STATS|*, numbered in sort order
          Limits,     \* values DOCKER_MAX_CONTAINERS may have
          Threshold,  \* config.sourceStaleThreshold, in clock units
          Longest,    \* the longest a refresh takes (RefreshTiming)
          Skew,       \* how far the daemon's clock may be ahead
          Horizon,    \* bound: ages are counted up to here
          Updates     \* bound: how often the daemon updates again

ASSUME ContainersAssumption == Containers \subseteq Nat /\ IsFiniteSet(Containers)

ASSUME LimitsAssumption == Limits \subseteq Nat \ {0}

ASSUME TimeAssumption ==
  /\ Threshold \in Nat /\ Longest \in Nat /\ Skew \in Nat /\ Updates \in Nat
  /\ Horizon \in Nat /\ Horizon > Threshold + Longest

VARIABLES entry,     \* entry[c]: the update that wrote c, Absent or Nameless
          stamp,     \* the LastUpdateTime entry
          current,   \* the number of the last update that was stamped
          unwritten, \* entries the update under way has still to write
          limit,     \* config.maxContainers
          pc,        \* the refresher: idle, stamp, scan, read or publish
          ok,        \* at publish: the scrape returned err = nil
          elapsed,   \* time since the refresh began
          got,       \* the locals of scrapeMetrics: stamp, flag, containers
          toRead,    \* scanned keys the loop has still to visit
          cache,     \* the published copy of got
          success,   \* lastSuccess
          duration,  \* lastScrapeDuration
          age        \* time.Since(lastRefreshTime); Horizon before any

source == <<entry, stamp, current, unwritten>>
locals == <<ok, got, toRead>>
fields == <<cache, success, duration>>
vars   == <<source, limit, pc, elapsed, locals, fields, age>>

Absent   == -1    \* there is no such key
Nameless == -2    \* the entry has no NAME
Ages     == -Skew .. Horizon
NoStamp  == [known |-> FALSE, age |-> 0, update |-> 0]
Stamps   == {NoStamp} \cup [known : {TRUE}, age : Ages, update : 0 .. Updates]
Entries  == {Absent, Nameless} \cup 0 .. Updates
NoRead   == [stamp |-> NoStamp, stale |-> 1, containers |-> [c \in Containers |-> Absent]]
Reads    == [stamp : Stamps, stale : {0, 1},
             containers : [Containers -> {Absent} \cup 0 .. Updates]]

TypeOK ==
  /\ entry \in [Containers -> Entries]
  /\ stamp \in Stamps
  /\ current \in 0 .. Updates
  /\ unwritten \subseteq Containers
  /\ limit \in Limits
  /\ pc \in {"idle", "stamp", "scan", "read", "publish"}
  /\ ok \in BOOLEAN
  /\ elapsed \in 0 .. Longest
  /\ got \in Reads
  /\ toRead \subseteq Containers
  /\ cache \in Reads
  /\ success \in {0, 1}
  /\ duration \in 0 .. Longest
  /\ age \in 0 .. Horizon

\* The daemon runs already, the constructor refreshes at once.  Before the first
\* publication the flag is 0, the zero value of lastSourceStale.
Init ==
  /\ entry \in [Containers -> {Absent, Nameless, 0}]
  /\ stamp \in {NoStamp} \cup [known : {TRUE}, age : Ages, update : {0}]
  /\ current = 0
  /\ unwritten = {}
  /\ limit \in Limits
  /\ pc = "stamp"
  /\ ok = FALSE
  /\ elapsed = 0
  /\ got = NoRead
  /\ toRead = {}
  /\ cache = [NoRead EXCEPT !.stale = 0]
  /\ success = 0
  /\ duration = 0
  /\ age = Horizon

-----------------------------------------------------------------------------
(* The daemon.                                                             *)

\* An update may begin by removing the stamp.
BeginUpdate ==
  /\ unwritten = {}
  /\ current < Updates
  /\ unwritten' = Containers
  /\ stamp' \in {stamp, NoStamp}
  /\ UNCHANGED <<entry, current, limit, pc, elapsed, locals, fields, age>>

WriteEntry(c) ==
  /\ c \in unwritten
  /\ unwritten' = unwritten \ {c}
  /\ \E e \in {Absent, Nameless, current + 1} : entry' = [entry EXCEPT ![c] = e]
  /\ IF unwritten = {c}
     THEN /\ current' = current + 1
          /\ \/ \E a \in -Skew .. 0 :
                  stamp' = [known |-> TRUE, age |-> a, update |-> current + 1]
             \/ stamp' = NoStamp   \* missing, or in no known format
     ELSE UNCHANGED <<current, stamp>>
  /\ UNCHANGED <<limit, pc, elapsed, locals, fields, age>>

-----------------------------------------------------------------------------
(* One refresh.                                                            *)

\* MUTANT: no stamp is taken for no staleness.
StaleUnlessUnknown(s) == IF s.known /\ s.age > Threshold THEN 1 ELSE 0

\* The age of a stamp in the future is 0.
Stale(s) == IF ~s.known \/ s.age > Threshold THEN 1 ELSE 0

ReadStamp ==
  /\ pc = "stamp"
  /\ pc' = "scan"
  /\ got' = [NoRead EXCEPT !.stamp = stamp, !.stale = Stale(stamp)]
  /\ UNCHANGED <<source, limit, elapsed, ok, toRead, fields, age>>

\* The keys that are there; RedisScan and LldpScrape have SCAN in detail.
Scan ==
  /\ pc = "scan"
  /\ pc' = "read"
  /\ toRead' = {c \in Containers : entry[c] # Absent}
  /\ UNCHANGED <<source, limit, elapsed, ok, got, fields, age>>

Taken == {c \in Containers : got.containers[c] # Absent}

\* The stamp's own key was scanned too and is passed over.
Visit(c) ==
  /\ pc = "read"
  /\ c \in toRead
  /\ \A d \in toRead : c <= d
  /\ toRead' = toRead \ {c}
  /\ IF Cardinality(Taken) >= limit \/ entry[c] \in {Absent, Nameless}
     THEN UNCHANGED got
     ELSE got' = [got EXCEPT !.containers[c] = entry[c]]
  /\ UNCHANGED <<source, limit, pc, elapsed, ok, fields, age>>

EndOfKeys ==
  /\ pc = "read"
  /\ toRead = {}
  /\ pc' = "publish"
  /\ ok' = TRUE
  /\ UNCHANGED <<source, limit, elapsed, got, toRead, fields, age>>

Fail ==
  /\ pc \in {"stamp", "scan", "read"}
  /\ pc' = "publish"
  /\ ok' = FALSE
  /\ got' = NoRead
  /\ toRead' = {}
  /\ UNCHANGED <<source, limit, elapsed, fields, age>>

\* MUTANT: lastRefreshTime is set before the error is looked at.
PublishStampsFirst ==
  /\ pc = "publish"
  /\ pc' = "idle"
  /\ duration' = elapsed
  /\ age' = 0
  /\ IF ok THEN cache' = got /\ success' = 1
           ELSE success' = 0 /\ UNCHANGED cache
  /\ ok' = FALSE /\ got' = NoRead /\ elapsed' = 0
  /\ UNCHANGED <<source, limit, toRead>>

\* MUTANT: the stamp is read again when the entries have been read.
PublishRereads ==
  /\ pc = "publish"
  /\ pc' = "idle"
  /\ duration' = elapsed
  /\ IF ok THEN cache' = [got EXCEPT !.stamp = stamp] /\ success' = 1 /\ age' = 0
           ELSE success' = 0 /\ UNCHANGED <<cache, age>>
  /\ ok' = FALSE /\ got' = NoRead /\ elapsed' = 0
  /\ UNCHANGED <<source, limit, toRead>>

Publish ==
  /\ pc = "publish"
  /\ pc' = "idle"
  /\ duration' = elapsed
  /\ IF ok THEN cache' = got /\ success' = 1 /\ age' = 0
           ELSE success' = 0 /\ UNCHANGED <<cache, age>>
  /\ ok' = FALSE /\ got' = NoRead /\ elapsed' = 0
  /\ UNCHANGED <<source, limit, toRead>>

StartRefresh ==
  /\ pc = "idle"
  /\ pc' = "stamp"
  /\ UNCHANGED <<source, limit, elapsed, locals, fields, age>>

Refresher ==
  \/ ReadStamp \/ Scan \/ EndOfKeys \/ Publish \/ StartRefresh
  \/ \E c \in Containers : Visit(c)

-----------------------------------------------------------------------------
(* The clock.                                                              *)

Older(s) == IF s.known /\ s.age < Horizon THEN [s EXCEPT !.age = @ + 1] ELSE s

\* Time passes while a refresh waits for Redis, and between refreshes.
Tick ==
  /\ pc # "publish"
  /\ IF pc = "idle" THEN UNCHANGED elapsed
     ELSE elapsed < Longest /\ elapsed' = elapsed + 1
  /\ stamp' = Older(stamp)
  /\ got' = [got EXCEPT !.stamp = Older(@)]
  /\ cache' = [cache EXCEPT !.stamp = Older(@)]
  /\ age' = IF age < Horizon THEN age + 1 ELSE age
  /\ UNCHANGED <<entry, current, unwritten, limit, pc, ok, toRead, success, duration>>

Daemon == BeginUpdate \/ \E c \in Containers : WriteEntry(c)

Next == Daemon \/ Refresher \/ Fail \/ Tick

\* Refreshes are started and run to their end, and however many there are time
\* goes on.  The daemon owes nothing, and nothing obliges a refresh to fail.
Fairness == WF_vars(Refresher) /\ SF_vars(Tick)

SafetySpec == Init /\ [][Next]_vars

Spec == SafetySpec /\ Fairness

-----------------------------------------------------------------------------
(* Properties.                                                             *)

\* What Collect reports as source_age_seconds.
SourceAge == IF cache.stamp.known /\ cache.stamp.age > 0 THEN cache.stamp.age ELSE 0

\* source_stale 0 bounds the age of the source at every scrape, although the
\* flag is as old as the refresh: by the threshold, cache_age_seconds and the
\* duration of a refresh, also when the refreshes since then failed.
NotStaleMeansRecent ==
  cache.stale = 0 => SourceAge <= Threshold + age + Longest

\* The containers on display are not older than the update time on display,
\* although the daemon updates while they are read.
ContainersMatchStamp ==
  cache.stamp.known =>
    \A c \in Containers :
      cache.containers[c] # Absent => cache.containers[c] >= cache.stamp.update

\* When the daemon has stopped and refreshes succeed, source_stale becomes 1
\* and stays.
StaleIsReported ==
  <>[][~Daemon /\ ~Fail]_vars => <>[](cache.stale = 1)

=============================================================================
