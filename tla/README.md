# Formal model of sonic-exporter

TLA+ modules, TLC configurations and TLAPS proofs for the collectors of
sonic-exporter, a Prometheus exporter for SONiC switches.

## The system

One process. `main` constructs the collectors one after the other, registers
those that are enabled and opens the HTTP listeners. Each HTTP scrape makes the
Prometheus registry call `Collect` of every collector, on goroutines of that
scrape; scrapes may overlap. Collectors read Redis databases that other
processes of the switch write at any moment. A registry that is handed the same
series twice refuses the whole HTTP scrape.

| Component | State | Operations | Interacts with |
| --- | --- | --- | --- |
| Background collectors (lldp, vlan, lag, fdb, routing, switch, thermal, transceiver, platform health, docker, system) | cached metrics, counts, success, duration, refresh time, `sync.RWMutex`; a ticker with a buffer of one | constructor (first refresh), `refreshLoop`, `refreshMetrics`, `Collect` | Redis through `scrapeMetrics`; scrapes through the cached fields |
| Scrape-time collectors (interface, hw, crm, queue) | `cachedMetrics`, `lastScrapeTime`, `sync.Mutex` | `Collect`, which refreshes when the cache is 15 s old | Redis, inside the scrape |
| Scrapes of the tables (`scrapeMetrics` of each collector) | locals only | SCAN, sort, limits, one HGETALL per key | Redis client |
| Redis client | one connection pool per database, made for each refresh | `HgetAllFromDb`, `ScanKeysFromDb`, `KeysFromDb`, `Close` | Redis |
| System sources | the metadata being filled, the output buffer of a command | two hashes, four files, three allow-listed commands, in a fixed order | files and `exec` |
| FRR wrapper, node exporter | upstream's; the flags of one global kingpin application | constructors, delegated `Collect` | upstream, and each other through the flags |
| Metric filter | a set, read-only after construction | `Enabled` | all collectors |
| Web listeners, process start | listeners, the registry | parse flags, construct, register, bind, serve, release | the toolkit |

What is hard here: a refresh that assigns its fields one by one while scrapes
copy them; two ways to leave a critical section; deadlines that are looked at
between commands only; ticks dropped by a slow refresh; tables that change
between a SCAN and the reads of its keys, or between two tables that are joined;
SCAN repeating keys; a refresh that fails half-way; limits whose victims depend
on an order, several of them behind one flag or one counter; sources that stand in
for each other; commands that outlive their timeout; listeners that fail one by
one. `PROJECT.json` lists these hazards at their lines, with the properties that
cover them.

What makes each component correct:

- background collectors: a report is of one piece; a failed refresh keeps the
  metrics and says so; nobody is locked out; the refresh is bounded and the
  cache that claims success is fresh; the loop recovers by itself;
- scrape-time collectors: one success series and no duplicates; success means
  complete; the window serves complete caches only; Redis is read once a window;
- table scrapes: every key is accounted for, what did not change is exported,
  nothing is exported that never was, the outcome does not depend on the order
  SCAN chose, no duplicate series;
- system sources: a field is what the first source with an answer says, whichever
  others fail; output and duration bounded;
- start and listeners: no port opens before there is something to answer; the
  start ends; all listeners bound or all released.

## Modules

| Module | Role |
| --- | --- |
| `RWMutex` | `sync.RWMutex` of the Go runtime, as the collectors use it (external) |
| `SnapshotRegister` | abstract: an atomic snapshot, replaced whole by a success, marked by a failure |
| `RefreshCollector` | the background collector: refresher, readers, lock, fields |
| `MCRefreshCollector` | the payload fields for TLC |
| `RefreshCollectorProofs` | its type invariant, coherence and refinement, proved; also the bounds of `RefreshTiming` and the start in `Exporter` |
| `RefreshTiming` | the same collector seen from the clock |
| `ScrapeCache` | the scrape-time collector, from `interface_collector.go` |
| `ScrapeCacheProofs` | its cache invariant and what `Collect` promises, proved |
| `MCScrapeCache` | the same with a history of the last good refresh |
| `RedisScan` | what a SCAN iteration promises, and the cursor loop of the client |
| `RedisKeys` | the same call as one step: the slices it may return, given how the table changed meanwhile |
| `LldpScrape` | `scrapeMetrics` of the LLDP collector over a changing table, over `RedisScan` |
| `LldpScrapeProofs` | its types, its accounting, its stable neighbors, unique series and the table at rest, proved |
| `FdbScrape`, `MCFdbScrape` | `scrapeMetrics` of the FDB collector over five tables, over `RedisKeys` |
| `FdbScrapeProofs` | its types, its accounting, where stable entries are counted and what tables at rest give, proved |
| `MemberScrape`, `MCMemberScrape` | `scrapeMetrics` of the VLAN and of the LAG collector, which are one algorithm |
| `MemberScrapeProofs` | its types, that nothing is invented, that what stays is reported and what tables at rest give, proved |
| `TableScrapes`, `MCTableScrapes` | `scrapeMetrics` of routing, switch, transceiver, platform health and thermal; of hw, crm and queue |
| `TableScrapesProofs` | its types, the rows that stay, the skipped counter, what a failure leaves and what a scrape at rest gives, proved for every program |
| `DockerSource` | `scrapeMetrics` of the Docker collector, the daemon that feeds it and the ages `Collect` computes |
| `DockerSourceProofs` | what the flag and the containers say of the stamp, proved |
| `SystemSources`, `MCSystemSources` | `scrapeMetrics` of the system collector, its commands and their output |
| `SystemSourcesProofs` | the buffer, the bound on a refresh and the order of the sources, proved |
| `Exporter`, `MCExporter` | `main`, the constructors, the FRR wrapper and the web listeners |

### RefreshCollector

`pc` is the refresher: `scrape` (in `scrapeMetrics`, without the lock), `lock`
and `enter` (the two halves of `mu.Lock`: asking keeps new readers out, entering
waits for the old ones), `write` (assigning fields one at a time), `wait` (the
loop, or before it the constructor). A scrape of Redis is a tag and an outcome;
`Assigned(ok)` is the set of fields the branch taken assigns. The refresher's
first round is the constructor's; `looping` says that it returned, which is when
`main` can register the collector, so `Collect` needs it. A reader copies its
fields one at a time and emits after `RUnlock`. The eleven collectors assign and
copy in different orders, so every order is allowed: what holds here does not
depend on it.

`ImplementsRegister` maps the collector to `SnapshotRegister`: a refresh takes
effect with its first assignment (the fields still to be assigned are read as
they will be), a Collect at its first copy.

### RefreshTiming

Time passes while a command is in flight or the loop waits for a tick; nothing
else takes time. A command may take up to `Reply` to answer or fail, and the
deadline of the context is looked at when the next command is sent. `healthy` is
Redis answering at once and without error; it changes at any time.

### ScrapeCache

Each scrape walks through `Collect` under the mutex: window check, reset, name
map, per port counters, configuration and operation, optics, timestamp, health
series, emission. Any read may fail; a failure ends the refresh and leaves what
was appended. Series are counted in groups (the counters of a port, its
configuration, its operational state, the optics) as often as they were appended,
so that duplicates show. `MCScrapeCache` adds the series of the last good
refresh.

### LldpScrape and RedisScan

Keys are numbers in the order `sort.Strings` gives their names, so the sorted
slice is a bag from which the loop takes the least element. The hash of a key is
absent, blank or a peer, and changes at any moment. SCAN returns each key that
stays for the whole iteration, may return the others, and may repeat a key.
`config` ranges over the limits of a run and both values of
`LLDP_INCLUDE_MGMT`.

### DockerSource

A daemon of the switch writes the entries one by one and then the stamp
`LastUpdateTime` (external: modelled from the keys `docker_collector.go` reads;
it may drop the stamp when an update begins, and its clock may be ahead). A
refresh reads the stamp and decides `source_stale`, scans, and reads the entries
in order up to the limit; `Publish` is `refreshMetrics` under its lock, one step,
since `RefreshCollector` has shown that it is one. Timestamps are kept as ages
that `Tick` advances, so `SourceAge` and the age of the cache are what `Collect`
computes at any moment, while the flag is the refresh's. An entry is the number
of the update that wrote it, which is what its age is compared by. SCAN is one
step that returns what is there (`LldpScrape` has it in detail).

### RedisKeys

`LldpScrape` follows a SCAN reply by reply. The other scrapes issue several SCANs
each and only see the slice a call returns, so here a call is a window: it opens
with its first command, `Noted` keeps which keys were there throughout and which
at some moment, and `Lists` are the slices that agree with it, repeats included.
`Counts` is the same for callers to whom the order is nothing.

### FdbScrape

`pc` is the command that comes next. The two name maps are read whole and
inverted (of two names with one object id either may stay, a LAG replaces a port),
the VLAN and bridge port objects are scanned and read one by one, then the sorted
entries. Each row of the five tables may change between any two commands. An
entry is counted under the labels the maps give it, and `Emit` cuts the ports and
the VLANs at their limits. `mapSkips` and `changed` are history: what the maps
added to the skipped counter, and which rows changed during this scrape.

### MemberScrape

`scrapeMetrics` of the VLAN and of the LAG collector run through the same steps:
two SCANs for groups (`Collected` makes a set of names of them), one for members,
a read per member row, and two per group. `kind` is the collector, and all that
differs is what an empty mode becomes. `byGroup` is `membersByVlan` or
`membersByLag`; `AppendEntry` keeps a group's slice sorted as it is built, members
with one name in either order, as `sort.Slice` may leave them. The two limits are
`Full` and `Room`; `Room` is what `processedMembers` leaves of the limit, and the
groups share it.
The history `seen` is every value a row had during the scrape.

### TableScrapes

The other scrapes are programs of four instructions: SCAN and sort a table, list
keys with KEYS, walk over the keys of a table, read a hash. `Program` gives the
order of each. The tables
differ in what the limit counts (`CountsEntries`), in what happens at the limit
(`CutOne` goes on, `CutRest` gives up the rest), in the keys that are passed over
and in what an empty field becomes. For each port the transceiver reads further
hashes (`Details`); a counter or time is joined to the flag it belongs to, which
was read before it.

hw, crm and queue are the scrapes inside the window of `ScrapeCache`. They have
no limit and no skipped counter, and they break off (`Breaks`): hw at a PSU key
without a slot, crm and queue at a value that does not parse. `FailInCollect`
keeps what was appended, which `Collect` sends with `collector_success` 0; `Fail`
of the background collectors drops it. An empty field or hash is 0 to them
(`Defaulted`), so that a PSU or a queue that goes away between KEYS and HGETALL
is reported with zeros; `StableRowExported` says that nothing else is. The fields
of `CRM:STATS` come in the random order of a Go map, so a failure there keeps any
part of them (`Appended`).

### SystemSources

The sources are asked in `Order`, and a field keeps the first answer. Time passes
in Redis commands and while a command runs. `Start` takes the lesser of the
command's timeout and what is left of the refresh; a command is killed at its
deadline, but descendants may hold its output open (`linger`), and
`exec.Cmd.Run` waits for them. The output goes through `limitedOutputBuffer` in
writes of any size; a line has three bytes (its name, and two of its value), so
that a cut may lose a line, leave a name without a value, or leave a part of the
value, which the parser takes for the whole.

### Exporter

`pc` follows `main`: flags, constructors (each background collector refreshes
before the next is constructed), registration, node collectors, listeners. All
flags of the embedded exporters belong to one global kingpin application, so the
arguments of FRR set `--path.rootfs` back to its default (`ConstructFrr`). The
refreshes themselves are `RefreshCollector`'s. `Bind`, `BindFails` and `Close` are
the listeners of a VRF, `ToolkitServes` those of the toolkit, and `ServeFails`
takes one listener away at a time.

## Runs

| Run | Question | Bounds |
| --- | --- | --- |
| `refresh` | Is every report of one piece; is the collector an atomic register; does every Collect return and do refreshes go on? | 2 readers, 2 tags, 2 payload fields, unbounded refreshes: two tags tell old from new, two fields can be torn, two readers overlap each other and the refresher |
| `timing` | How long is a refresh, how old is a successful cache, does it recover? | interval 3, timeout 2, command 3: a refresh may outlast the interval, so ticks are dropped, and a command may outlast the timeout |
| `scrape_cache` | Do overlapping scrapes and failing reads leave the cache sound? | 3 scrapes, 3 ports, window 2 |
| `lldp_scrape` | Accounting, completeness and determinism over a changing table | a malformed key, two ports and the management key; limits 1 and 2; each key repeated at most once |
| `fdb_scrape` | Where is an entry counted, what is skipped, what do the limits leave? | 3 keys (one malformed, one with its VLAN, one with a bridge VLAN id), 1 VLAN object, 2 bridge ports, a port and a LAG, on different ids and on one; limits met and not; 2 changes (one makes a row stale, two move an entry), one repeat a SCAN |
| `member_scrape` | Is a VLAN or LAG joined to its own members, whatever changes? | 2 groups and the empty name, 4 member rows, one without a group; limits met and not; 2 changes, one repeat |
| `table_scrapes` | Accounting, completeness and determinism of eight scrapes; what is left of one that fails | 3 keys and the bare prefix in each table, 3 of the hashes of a transceiver; limits met and not, different for the tables of one scrape; 1 change, one repeat |
| `system_sources` | Which answer wins, how long is a refresh, what is left of an output? | 4 fields, all nine sources; deadline 3, command timeout 2, descendants up to 2; limits inside a value and inside the tail; 2 sources fail, 1 answer changes |
| `exporter` | Is the port opened late enough, are listeners released, does the start end? | 1 scrape-time, 2 background collectors and FRR, each on or off; 2 or 3 addresses, one of them twice, one vsock; with and without VRF |
| `docker_source` | Do age, flag and containers of a report agree; is a dead source reported? | 2 containers, limits 1 and 2, threshold, refresh and skew of 1, ages to 3 (past threshold and refresh together), one update after the first |
| `scrape_cache_failure` | Documented: a failure keeps the previous cache | 1 scrape, 1 port: violated |
| `lldp_repeats` | Documented: the gauge is the number of neighbors exported | 2 keys, one repetition: violated |

Each property of a passing run is also run against a mutant of the model, a
plausible bug of the code (`PROJECT.json`, "mutants"; the mutated operators are
marked MUTANT in the modules and are used by no specification).

### Fairness

- `RefreshCollector`: weak fairness of the refresher (goroutines that can run
  are scheduled, a scrape of Redis is finitely many bounded commands), of the
  ticker and of each reader inside `Collect`. Nobody has to call `Collect`. The
  readers' waiting is settled by the lock: `sync.RWMutex` hands over to the
  readers it kept out when the writer leaves, and keeps new readers out when a
  writer waits.
- `RefreshTiming`: the refresher runs and time goes on. Redis owes nothing, only
  `Recovers` assumes that it stays healthy in the end.
- `ScrapeCache`: a goroutine inside `Collect` goes on (each Redis command ends,
  by the read timeouts of go-redis), and a blocked `Lock` gets the mutex in the
  end (`sync.Mutex` in starvation mode hands over in order), which is strong
  fairness of `Lock`.
- `DockerSource`: refreshes are started and end (weak fairness of the refresher),
  and time goes on however many refreshes there are (strong fairness of `Tick`,
  which `Publish` disables again and again). The daemon owes nothing, and no
  refresh has to fail: `StaleIsReported` assumes that both end.
- `Exporter`: `main` runs (weak fairness of `Start`: every call in it ends, a
  refresh by its deadline), and `ServeMultiple` returns when its last listener has
  failed. Nothing makes a listener fail.
- `LldpScrape`, `FdbScrape`, `MemberScrape`, `TableScrapes` and `SystemSources`
  state no fairness: only safety is checked. That a refresh ends is bounded by
  `RefreshIsBounded` and `RefreshBounded`.

`exporter` is the one run without a check for deadlock: the process exits.

### Disagreements found

- `docs/architecture.md:105` promises that a failed refresh keeps the previous
  cache. The scrape-time collectors reset `cachedMetrics` before the first read
  (`interface_collector.go:165`), so it does not (`scrape_cache_failure`).
- The help of `sonic_lldp_neighbors` is "Number of LLDP neighbors exported". A
  key that SCAN repeats is counted twice (`lldp_repeats`); the series sent twice
  also make the registry refuse scrapes until the next refresh.
- A comment of the hw collector says that the temperature of a PSU is "appended
  only if values can be parsed" (`hw_collector.go:233`). A missing one parses to 0
  (`helpers.go:9`; the voltage, by `parsePsuFloat`, does not), so the PSU is
  reported at 0 degrees. `TableScrapes` has the 0 of a PSU that is gone.
- With `FRR_ENABLED`, the filesystem collector looks at `/` whatever
  `--path.rootfs` says (`README.md:144`, `docs/configuration.md:34`): the FRR
  arguments are parsed by the application that holds node_exporter's flags
  (`frr_collector.go:65`), and kingpin sets flags that are not among the
  arguments to their defaults. `Exporter` models it, and `ListensWhenReady` says
  how far it goes: without FRR the value is kept, and no third value appears.
- A refresh of the system collector can outlive `SYSTEM_TIMEOUT` by as long as
  descendants of a command keep its output open (`system_collector.go:521` sets
  no `WaitDelay`); `RefreshBounded` states the bound that holds.
- An `asic_count` that is no number in an early source hides the good one of a
  later source, and a value cut at the output limit is published like a whole one;
  `FallbackOrder` states both.

## Proofs

Assumed: the named ASSUMEs of the modules (payload fields are not one of the
three fixed names, `None` is no tag; positive interval, timeout and command
count; a positive window, `Collector` no port and `Nobody` no scrape; positive
limits, since `parseIntEnv` refuses others; tables of the right types at the
start; `main` constructs each collector at its place in a sequence; `Nil`, `Absent` and
the like are none of the values they stand beside; the hashes read
for a port are no other table of the scrape). Readers, payload, tags, scrapes, ports, keys, addresses and
durations are otherwise arbitrary. Finiteness is assumed only of what is counted:
the labels of the FDB series, the fields of the system metadata, the containers,
the groups of `MemberScrape`, and the keys of the LLDP table and of
`TableScrapes`.

`RefreshCollectorProofs`. `CoherentReport` is not inductive: it says nothing
until a reader emits. `IInv` adds what the lock gives (`LockInv`: the writer is
in exactly while `pc = "write"`, and then no reader copies), what a refresh
under way has left to do (`WriteInv`), that the cache is coherent *as it will be
when the writes under way are done* (`CacheInv`, the operator `Final`), and that
a reader's copies equal the cache as long as it copies (`ViewInv`). One lemma per
conjunct and action; `ReportsAreCoherent` follows. `RefinesRegister` shows that
each step is a step of the register or a stutter: the first `Write` is
`PublishSuccess` or `PublishFailure`, the first `Copy` is `Take`, and the others
do not change the mapped state, which needs `IInv`.

The clock, in the same module. `DeadlineInv` says how elapsed time relates to the phase
(a command in flight was sent before the deadline), `AgeInv` bounds the age of a
successful cache in each phase by the ticker's remaining time. `RefreshBounded`
and `FreshWhenSuccessful` follow for every interval, timeout and command
duration.

`ScrapeCacheProofs`. What a scrape sends is fixed long before it sends it, so the
invariant follows the cache through the refresh. `MutexInv` ties the holder of
the mutex to its control point; `HolderInv` says what the cache is at each
control point of the holder: empty after `Reset`, then `Progress` (exactly the
groups of the ports visited, once), `AllButSuccess` at the end, or after an error
`Remains` with the window still closed. A scrape that does not hold the mutex
has nothing to preserve (`Outside`), which leaves one lemma per action of the
holder and one for the clock. `FailureIsNotCached` is part of the invariant: it
is what the next holder finds. `NoDuplicates`, `SuccessIsComplete`,
`FailuresAreRetried` and `RefreshesAreSpaced` follow, for any number of scrapes
and any set of ports, an infinite one too.

`FdbScrapeProofs`. `Accounted` speaks of the end of a scrape, and the sum it
states is built up entry by entry. `SumInv` carries it: before the entries are
read none is counted; while they are read, `skipped` is what the maps skipped and
the positions passed that gave no entry; after the walk, the same for all keys.
It also bounds the entries by the position, so that the limit on the position is
one on the entries. `WindowInv` types the SCAN in progress, and `ScannedStep` is
shared by the three SCANs. `StableEntriesPlaced` needs `PlaceInv`, which follows
the rows through the joins: what stays is in the window of its SCAN (`ScanInv`),
then in the slice (`SliceInv`), then in the map that is made of it (`NamesInv`,
`VlanInv`, `BridgeInv`), each by the position the walk has come to; and the
counters of a port and of a VLAN are at least the stable entries among the keys
looked at (`PlacedInv`), a set that gains one key with each step.

`QuietFdbIsExact` adds `QuietInv`. At rest, windows, slices and the VLAN map hold
only what is there (`RestInv`); the slice of entries is sorted (`SortedInv`) and
therefore enumerates its table (`SliceIsTable`), so that the keys looked at are
the first by name (`WalkedFirst`), as many as the limit admits (`LimitInv`). The
counters by name, by type and by VLAN are then not bounded by but equal to the
number of entries among these keys (`CountInv`): each step adds one key to that
set, or none (`CountStep`).

`MemberScrapeProofs`. Two directions, one invariant. Nothing is invented: `seen`
is every value a row has had, a SCAN returns only rows that are in it
(`WindowInv`, `NamesInv`), an entry carries a mode its row had (`EntryInv`), and
`OutInv` says the same of what is appended to the result. What stays is reported:
a member that stays is still to be read or has its entry (`RowsInv`; exactly one
without repeats, `OnceInv`), and while no limit is met every group visited is
reported with as many series as it has entries (`LimitInv`). That is where the
shared counter matters: `processedMembers` is the number of places (group,
position) of the groups visited, so the room left is never less than what a group
still to come needs.

`QuietMembersAreExact` adds `QuietInv`, of which only `RestInv` (at rest, slices
and entries hold only what is there) speaks of tables at rest. Names and entries
are sorted (`SortedInv`); the groups reported are the first ones walked
(`InfoInv`); and at every point of the walk, whatever changes, an entry of a
reported group is among its series if and only if it and the entries before it, of
this group and of the groups before, are no more than the limit (`ShareInv`). What
a group gets of the shared counter is arithmetic (`ShareOfGroup`), and a group
behind all others changes the share of none of them (`SharedNext`). At rest the
entries are the rows, in order (`EntriesAtRest`), so the number of places before
an entry is the rank of its member (`RankOfPlace`).

`TableScrapesProofs`. The eight scrapes are one proof: of a program only
`IsProgram` is used (each table is listed before it is walked, and walked once),
which the lemma `Programs` shows of all eight. The invariant speaks of the
positions that were looked at (`Done`). `KeysInv`: what stays is in its list.
`ExportInv`: a row exported is of a position looked at, once if nothing was
repeated, and each entry that stays and was looked at is exported. `FlagsInv`
and `DetailInv` are the same for the hashes of a transceiver, which are joined to
a flag read before them. `LaterInv`: there is nothing yet of the tables to come,
which is all `FailuresSendPrefix` needs besides `ExportInv`.

`EveryKeyAccounted` adds `AccountInv`. `SumInv` is the equation of `Accounted` at
every point of a scrape, over the positions looked at instead of all keys: both
sides are the size of a set of pairs (table, position), so that a step, which
touches one table, changes each side by what it adds there (`BalanceSums`).
`RestInv` (at rest, slices hold only what is there) is why an ACL group is not
found gone, and temperatures are counted when the program has passed
`Read("asic")` (`AsicSkips`).

`QuietTablesAreExact` adds `QuietInv`, for tables at rest and a SCAN that repeats
nothing. The sorted slice then enumerates its table, so that the position at hand
is a rank: as many keys are below it as were looked at (`KeyAtHand`), whichever
of the two a limit counts (`NextIsFirst`). The rows are the first rows among the
keys looked at (`ExactInv`), `truncated` says whether a list was cut so far
(`CutInv`), and a walk stops one key beyond a limit on keys (`StopInv`): so it
ends without a cut exactly if the table is no larger than its limit, and what a
cut leaves unseen is no first row (`BeyondLimit`).

`LldpScrapeProofs`. `CountInv` says at every point of a scrape what `Accounted`
says at its end. The keys left to visit are a bag, and what a sum over a bag
becomes when one key leaves it needs an induction; `LeftOf` is the same bag as a
finite set of pairs (key, copy), of which each visit removes one, so that the
cardinality theorems of the library apply. `StableInv` follows a key that does
not change from the promise of SCAN to the keys to visit, the read in progress
and the series. `UniqueInv` follows a key that was returned once: it is to visit,
or being read, or behind one series, and never two of these (`OnceEach`). For a
table at rest, `QuietInv` says that the keys visited are below those to come
(`OrderInv`), so that the rank of the key at hand is the number of neighbors
visited, and that the series are those of the first neighbors visited
(`ShownInv`): below the limit these are all of them, at the limit the key at hand
is not one of them (`NextIsFirst`). `QuietLldpIsExact` follows.

`DockerSourceProofs`. `UpdateInv` says what the daemon has written (its update in
progress has the next number), `GotInv` what the refresh in progress has read, in
terms of the time it has run, and `CacheInv` what is published. The stamp is read
first, so entries read later are not older; the flag was right when the refresh
began, and the ages since then add up to the bound.

`SystemSourcesProofs`. `TimeInv` ties a command to its deadline: while it runs
`now` is at most the deadline, afterwards `now + linger` is at most
`Timeout + MaxLinger`. With the buffer's prefix property it is inductive as it
stands. `FallbackInOrder` needs `FallbackInv`: which commands were run or are
under way (`CommandInv`), that a source that was passed without an answer is down
or not allowed (`DownInv`), and that a field is what the first of the sources
passed had for it (`FieldInv`).

The process, in `RefreshCollectorProofs` too. `ConstructInv` follows the position in the sequence of
constructors, `RootfsInv` the flag, `SocketInv` says which sockets may be open at
each `stage`: none before the position of `Close`, none at the exit.

Model-checked only: everything under fairness (`CollectReturns`,
`RefreshesForever`, `Recovers`, `StaleIsReported`, `StartEnds`), which is beyond
the prover.

## Not modelled

- Formatting and label contents, logging, `Describe`, the metric filter: pure functions over strings. Every model exports all families.
- The slot of a PSU and the name of a fan, computed from their keys: the key
  stands for them. `Collect` of hw, crm and queue a second time: it is that of
  `interface_collector.go`.
- Several numeric fields of one row: a row has one value, since each field gives
  or does not give its own series without regard to the others. So
  `oper_status` and the VLAN id are left out of `MemberScrape`, and the numbers
  and the skipped counter of a container out of `DockerSource`.
- The construction of the FRR arguments, the upstream exporters, and the
  gathering of an HTTP scrape by client_golang.
- The map of connections in the Redis client, which lives for one refresh of one
  goroutine, and `HsetToDb`, which only tests call.

## Plan

What is left, in this order:

1. Keys of `DOCKER_STATS` that share a name, PSU keys that share a slot.
2. One HTTP scrape: the registry gathering from several abstract collectors, of
   which one sends a series twice.
3. The metric filter as a function, checked against its documented patterns.
4. A theorem that joins the two models of SCAN: the keys a `RedisScan` iteration
   has returned, over a table that changes, are a slice that `RedisKeys` allows.
