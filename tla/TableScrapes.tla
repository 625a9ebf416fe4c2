---------------------------- MODULE TableScrapes ----------------------------
(***************************************************************************)
(* scrapeMetrics of the routing, switch, transceiver, platform health and  *)
(* thermal collectors: SCANs of a table, walks over the sorted keys with a *)
(* limit, and reads of a single hash, one command at a time, while the     *)
(* tables change.  They differ in the order of these, and in what a limit  *)
(* counts.  And of hw, crm and queue, which refresh inside Collect (module *)
(* ScrapeCache): they list keys with KEYS, know no limit, append to the    *)
(* cache as they go, and keep what they appended when they fail.           *)
(*                                                                         *)
(* A row holds a value, Blank (the field that is looked for is empty or    *)
(* cannot be parsed) or Absent; the rows of a single hash are its fields.  *)
(* hw, crm and queue take an empty field for 0 (parseFloat), as they do a  *)
(* row that is gone: there Blank is a field that cannot be parsed.         *)
(* Keys are numbers in the order of the strings.                           *)
(***************************************************************************)
EXTENDS Naturals, Sequences, FiniteSets, SequencesExt

CONSTANTS Collectors,   \* a subset of DOMAIN Program
          Keys,         \* what follows the prefix in the keys of a table
          Malformed,    \* Malformed[t]: keys parseKeySuffix or SplitN refuses
          Passed,       \* Passed[t]: rows that are no entries of the table
          Values,
          Unknown,      \* the label, or the 0, that stands for an empty field
          Details,      \* the hashes read for each port of TRANSCEIVER_STATUS:
                        \* flag values, their change counts, thresholds, ...
          JoinedTo,     \* JoinedTo[t]: the flag values whose fields t is read at
          Absent, Blank,
          Limits,       \* values of the limits, by table
          Databases,    \* contents of the tables when the exporter starts
          Repeats,      \* bound: keys SCAN may return again
          MaxChanges    \* bound: how often a row changes

Scan(t) == [op |-> "scan", table |-> t]
List(t) == [op |-> "list", table |-> t]
Walk(t) == [op |-> "walk", table |-> t]
Read(t) == [op |-> "read", table |-> t]

(* The commands of each scrape, in order.                                  *)

\* Neighbors and routes are scanned before either is read.
Routing == <<Scan("neighbor"), Scan("route"), Walk("neighbor"), Walk("route")>>

Switch == <<Scan("switch"), Walk("switch")>>

Identity == <<Scan("identity"), Walk("identity")>>

\* scrapeIdentityMetrics is called when the status keys have been scanned.
Transceiver == <<Scan("status")>> \o Identity \o <<Walk("status")>>

Health ==
  <<Scan("process"), Walk("process"), Scan("storage"), Walk("storage"), Read("health")>>

Thermal == <<Read("asic"), Read("sfp")>>

Psu     == <<List("psu"), Walk("psu")>>
Fan     == <<List("fan"), Walk("fan")>>
Chassis == <<List("chassis"), Walk("chassis")>>

Hw == Psu \o Fan \o Chassis

\* CRM:STATS is one hash, CRM:ACL_STATS:* one for each stage and bind point.
AclStats == <<List("acl"), Walk("acl")>>

Crm == <<Read("crm")>> \o AclStats

\* The queues are the fields of COUNTERS_QUEUE_NAME_MAP.
Queue == <<List("queue"), Walk("queue")>>

Program ==
  [routing |-> Routing, switch |-> Switch, transceiver |-> Transceiver, health |-> Health,
   thermal |-> Thermal, hw |-> Hw, crm |-> Crm, queue |-> Queue]

\* The collectors that refresh inside Collect.
ScrapeTime == {"hw", "crm", "queue"}

Watermarks == <<"user", "persistent", "periodic">>

\* The hashes that are read for each row of t once the row itself was.
DetailsOf(t) ==
  CASE t = "status" -> Details [] t = "queue" -> Watermarks [] OTHER -> <<>>

AllDetails == ToSet(Details) \cup ToSet(Watermarks)

Scanned == {"neighbor", "route", "switch", "identity", "status", "process", "storage"}
Listed  == {"psu", "fan", "chassis", "acl", "queue"}
Walked  == Scanned \cup Listed
Hashes  == {"health", "asic", "sfp", "crm", "queuemap"}
Tables  == Walked \cup Hashes \cup AllDetails

\* Where the keys of the table t are listed.
Source(t) == IF t = "queue" THEN "queuemap" ELSE t

\* The names of fans, chassis and ACL groups are not looked into; those of
\* queues have a colon (the code relies on it).
ASSUME NamesAssumption ==
  /\ Collectors \subseteq DOMAIN Program
  /\ Keys \subseteq Nat
  /\ Malformed \in [Walked -> SUBSET Keys]
  /\ \A t \in Listed \ {"psu"} : Malformed[t] = {}
  /\ Passed \in [Tables -> SUBSET Keys]
  /\ Values \cap {Unknown, Absent, Blank} = {}
  /\ JoinedTo \in [AllDetails -> AllDetails]

\* parseIntEnv refuses a limit below 1; TRANSCEIVER_MAX_PORTS is one limit for
\* two tables.
ASSUME LimitsAssumption ==
  /\ Limits \subseteq [Scanned -> Nat \ {0}]
  /\ \A m \in Limits : m.identity = m.status

ASSUME BoundsAssumption == Repeats \in Nat /\ MaxChanges \in Nat

Contents == Values \cup {Absent, Blank}

\* A table has finitely many keys.
ASSUME DatabasesAssumption ==
  /\ IsFiniteSet(Keys)
  /\ Databases \subseteq [Tables -> [Keys -> Contents]]

\* The hashes of a port are no other tables and differ from each other; flag
\* values are read before what is joined to them.
ASSUME DetailsAssumption ==
  /\ Details \in Seq(AllDetails)
  /\ \A i, j \in DOMAIN Details : Details[i] = Details[j] => i = j
  /\ ToSet(Details) \cap (Walked \cup Hashes \cup ToSet(Watermarks)) = {}
  /\ \A i \in DOMAIN Details : \E j \in 1 .. i : JoinedTo[Details[i]] = Details[j]
  /\ \A t \in ToSet(Watermarks) : JoinedTo[t] = t

VARIABLES db,         \* db[t][k]
          changes,    \* how often a row has changed
          collector, max,
          step,       \* the position in Program[collector]
          outcome,    \* running, done or failed
          window,     \* the SCAN in progress
          keys,       \* keys[t]: neighborKeys, routeKeys, ...
          index,      \* the position in the walk
          detail,     \* the hashes of the port at hand that were read
          flags,      \* what they held
          out,        \* out[t]: the rows exported, <<key, label>>, in order
          skipped, truncated,
          changed,    \* history: rows that changed during this scrape
          repeated    \* history: a SCAN returned a key again

outside == <<db, changes, collector, max>>
walk    == <<window, keys, index, detail, flags>>
result  == <<out, skipped, truncated>>
history == <<changed, repeated>>
vars    == <<outside, step, outcome, walk, result, history>>

Redis == INSTANCE RedisKeys

TypeOK ==
  /\ db \in [Tables -> [Keys -> Contents]]
  /\ changes \in 0 .. MaxChanges
  /\ collector \in Collectors /\ max \in Limits
  /\ step \in 1 .. Len(Program[collector]) + 1
  /\ outcome \in {"running", "done", "failed"}
  /\ window \in Redis!Windows
  /\ \A t \in Walked : keys[t] \in Seq(Keys)
  /\ index \in Nat \ {0}
  /\ detail \in 0 .. Len(Details) + Len(Watermarks)
  /\ flags \in [AllDetails -> Contents]
  /\ \A t \in Tables : out[t] \in Seq(Keys \X (Values \cup {Unknown, Blank}))
  /\ \A t \in Scanned : Len(out[t]) <= max[t]
  /\ skipped \in Nat /\ truncated \in {0, 1}
  /\ changed \subseteq Tables \X Keys
  /\ repeated \in BOOLEAN

Present(t) == {k \in Keys : db[t][k] # Absent}

Op    == Program[collector][step].op
Table == Program[collector][step].table

Running(op) ==
  /\ outcome = "running"
  /\ step <= Len(Program[collector])
  /\ Op = op

\* The SCAN that the step i begins with, if it is one.
WindowAt(i) ==
  IF i \in DOMAIN Program[collector] /\ Program[collector][i].op = "scan"
  THEN Redis!Opened(Present(Program[collector][i].table))
  ELSE Redis!Opened({})

NoDetail == [t \in AllDetails |-> Absent]

Fresh ==
  /\ keys = [t \in Walked |-> <<>>] /\ index = 1
  /\ detail = 0 /\ flags = NoDetail
  /\ out = [t \in Tables |-> <<>>] /\ skipped = 0 /\ truncated = 0
  /\ changed = {} /\ repeated = FALSE

Init ==
  /\ db \in Databases /\ changes = 0
  /\ collector \in Collectors /\ max \in Limits
  /\ step = 1 /\ outcome = "running"
  /\ window = WindowAt(1)
  /\ Fresh

-----------------------------------------------------------------------------
NextStep ==
  /\ step' = step + 1
  /\ window' = WindowAt(step + 1)
  /\ index' = 1

\* ScanKeysFromDb, then sort.Strings.
ScanKeys ==
  /\ Running("scan")
  /\ \E s \in Redis!SortedLists(window) :
       /\ keys' = [keys EXCEPT ![Table] = s]
       /\ repeated' = (repeated \/ Redis!IsRepeated(s))
  /\ NextStep
  /\ UNCHANGED <<outside, outcome, detail, flags, result, changed>>

\* KeysFromDb, or the fields of the name map: one command, each key once, in
\* any order.
ListKeys ==
  /\ Running("list")
  /\ \E s \in SetToSeqs(Present(Source(Table))) : keys' = [keys EXCEPT ![Table] = s]
  /\ NextStep
  /\ UNCHANGED <<outside, outcome, detail, flags, result, history>>

-----------------------------------------------------------------------------
(* The walk over the keys.                                                 *)

Visit ==
  /\ Running("walk")
  /\ detail = 0
  /\ index <= Len(keys[Table])

Key == keys[Table][index]

\* The tables whose limit counts the entries exported; the limit of the others
\* counts the keys looked at.
CountsEntries == {"process", "storage"}

\* PROCESS_STATS|LastUpdateTime, STORAGE_INFO|FSSTATS_SYNC, and the bare prefix
\* of STORAGE_INFO, are passed over before anything else.
IsPassed(t, k) ==
  t \in CountsEntries /\ (k \in Passed[t] \/ (t = "storage" /\ k \in Malformed[t]))

\* MUTANT: the limit is tested with > where it is >=.
AtLimitAfter ==
  /\ Table \in Scanned
  /\ IF Table \in CountsEntries THEN Len(out[Table]) > max[Table] ELSE index > max[Table] + 1

\* MUTANT: every limit counts keys.
AtLimitOfKeys == Table \in Scanned /\ index > max[Table]

AtLimit ==
  /\ Table \in Scanned
  /\ IF Table \in CountsEntries THEN Len(out[Table]) >= max[Table] ELSE index > max[Table]

Pass ==
  /\ Visit
  /\ IsPassed(Table, Key)
  /\ index' = index + 1
  /\ UNCHANGED <<outside, step, outcome, window, keys, detail, flags, result, history>>

\* continue: each key beyond the limit is counted when its turn comes.
CutOne ==
  /\ Visit
  /\ ~IsPassed(Table, Key)
  /\ AtLimit /\ Table \in CountsEntries
  /\ truncated' = 1
  /\ skipped' = skipped + 1
  /\ index' = index + 1
  /\ UNCHANGED <<outside, step, outcome, window, keys, detail, flags, out, history>>

\* MUTANT: the second list that is cut says whether the first was.
CutRestSilently ==
  /\ Visit
  /\ AtLimit /\ Table \notin CountsEntries
  /\ truncated' = IF Table = "identity" THEN truncated ELSE 1
  /\ skipped' = skipped + (Len(keys[Table]) - index) + 1
  /\ NextStep
  /\ UNCHANGED <<outside, outcome, keys, detail, flags, out, history>>

\* break: the rest of the keys is given up.
CutRest ==
  /\ Visit
  /\ AtLimit /\ Table \notin CountsEntries
  /\ truncated' = 1
  /\ skipped' = skipped + (Len(keys[Table]) - index) + 1
  /\ NextStep
  /\ UNCHANGED <<outside, outcome, keys, detail, flags, out, history>>

\* Rows that are made of whatever HGETALL gives: one that is gone gives empty
\* labels and zeros.
Defaulted == {"psu", "fan", "chassis", "queue"}

\* A key without a row: it is gone, or identityIsEmpty.
IsEmpty(t, x) ==
  IF x = Absent THEN t \notin Defaulted ELSE t = "identity" /\ x = Blank

\* Tables of which one value that cannot be parsed fails the refresh.
Strict == {"crm", "acl", "queue"} \cup ToSet(Watermarks)

\* The refresh does not get past this key: a PSU without a slot, or such a value.
Breaks(t, k) ==
  \/ t = "psu" /\ k \in Malformed[t]
  \/ t \in Strict /\ db[t][k] = Blank

\* MUTANT: a row that is gone when it is read is not counted.
SkipUncounted ==
  /\ Visit
  /\ Table \in Scanned
  /\ ~IsPassed(Table, Key) /\ ~AtLimit
  /\ Key \in Malformed[Table] \/ IsEmpty(Table, db[Table][Key])
  /\ skipped' = IF Key \in Malformed[Table] THEN skipped + 1 ELSE skipped
  /\ index' = index + 1
  /\ UNCHANGED <<outside, step, outcome, window, keys, detail, flags, out, truncated, history>>

Skip ==
  /\ Visit
  /\ Table \in Scanned
  /\ ~IsPassed(Table, Key) /\ ~AtLimit
  /\ Key \in Malformed[Table] \/ IsEmpty(Table, db[Table][Key])
  /\ skipped' = skipped + 1
  /\ index' = index + 1
  /\ UNCHANGED <<outside, step, outcome, window, keys, detail, flags, out, truncated, history>>

\* A group of CRM:ACL_STATS that is gone has no field to range over.
FindGone ==
  /\ Visit
  /\ Table = "acl" /\ db[Table][Key] = Absent
  /\ index' = index + 1
  /\ UNCHANGED <<outside, step, outcome, window, keys, detail, flags, result, history>>

\* The label an empty field gives: unknown for a protocol or a command; the
\* family of a neighbor is then that of its address.  The other rows keep their
\* info series and lose that of the field.
Label(t, x) ==
  IF x = Absent \/ (x = Blank /\ t \in {"neighbor", "route", "process"}) THEN Unknown ELSE x

Export ==
  /\ Visit
  /\ ~IsPassed(Table, Key) /\ ~AtLimit
  /\ Key \notin Malformed[Table] /\ ~Breaks(Table, Key)
  /\ LET x == db[Table][Key]
     IN  /\ ~IsEmpty(Table, x)
         /\ out' = [out EXCEPT ![Table] = Append(@, <<Key, Label(Table, x)>>)]
  /\ IF DetailsOf(Table) # <<>>
     THEN detail' = 1 /\ UNCHANGED index
     ELSE index' = index + 1 /\ UNCHANGED detail
  /\ UNCHANGED <<outside, step, outcome, window, keys, flags, skipped, truncated, history>>

\* The flags, their counters and times, and the thresholds of the port at hand;
\* the watermarks of the queue at hand.
\* appendTransceiverFlags goes by the fields of the flag values: a counter of a
\* flag that has no value is left out, one of a flag that cannot be parsed is not.
ReadDetail ==
  /\ Running("walk") /\ detail > 0
  /\ ~Breaks(DetailsOf(Table)[detail], Key)
  /\ LET t      == DetailsOf(Table)[detail]
         x      == db[t][Key]
         joined == IF JoinedTo[t] = t THEN x ELSE flags[JoinedTo[t]]
     IN  /\ out' = IF x \in Values /\ joined # Absent
                   THEN [out EXCEPT ![t] = Append(@, <<Key, x>>)] ELSE out
         /\ IF detail < Len(DetailsOf(Table))
            THEN /\ detail' = detail + 1
                 /\ flags' = [flags EXCEPT ![t] = x]
                 /\ UNCHANGED index
            ELSE /\ detail' = 0 /\ flags' = NoDetail
                 /\ index' = index + 1
  /\ UNCHANGED <<outside, step, outcome, window, keys, skipped, truncated, history>>

EndOfKeys ==
  /\ Running("walk") /\ detail = 0
  /\ index > Len(keys[Table])
  /\ NextStep
  /\ UNCHANGED <<outside, outcome, keys, detail, flags, result, history>>

-----------------------------------------------------------------------------
\* The fields of a hash that give a series: SYSTEM_HEALTH_INFO gives one for
\* every field; of ASIC_TEMPERATURE_INFO the temperatures that are numbers, of
\* CRM:STATS those named ..._available or ..._used.
Fields(t) ==
  {k \in Keys \ Passed[t] :
     IF t = "health" THEN db[t][k] # Absent ELSE db[t][k] \in Values}

\* A field of ASIC_TEMPERATURE_INFO that is not a number is counted, known or not.
Unparsed(t) == IF t = "asic" THEN {k \in Keys : db[t][k] = Blank} ELSE {}

\* Every field of CRM:STATS is parsed, whatever its name.
Unreadable(t) == t = "crm" /\ \E k \in Keys : Breaks(t, k)

ReadHash ==
  /\ Running("read")
  /\ ~Unreadable(Table)
  /\ \E s \in Redis!Ascending(Fields(Table)) :
       out' = [out EXCEPT ![Table] = [i \in DOMAIN s |-> <<s[i], db[Table][s[i]]>>]]
  /\ skipped' = skipped + Cardinality(Unparsed(Table))
  /\ NextStep
  /\ UNCHANGED <<outside, outcome, keys, detail, flags, truncated, history>>

-----------------------------------------------------------------------------
Finish ==
  /\ outcome = "running"
  /\ step > Len(Program[collector])
  /\ outcome' = "done"
  /\ UNCHANGED <<outside, step, walk, result, history>>

Clear ==
  /\ keys' = [t \in Walked |-> <<>>] /\ index' = 1
  /\ detail' = 0 /\ flags' = NoDetail
  /\ out' = [t \in Tables |-> <<>>] /\ skipped' = 0 /\ truncated' = 0
  /\ changed' = {} /\ repeated' = FALSE

\* The key at hand is about to be read.
Reads ==
  /\ Visit
  /\ ~IsPassed(Table, Key) /\ ~AtLimit
  /\ Key \notin Malformed[Table]

Commands ==
  \/ Running("scan") \/ Running("list") \/ Running("read") \/ Reads
  \/ Running("walk") /\ detail > 0

\* MUTANT: what was read before the error is handed over with it.
FailKeepsRows ==
  /\ collector \notin ScrapeTime
  /\ Commands
  /\ outcome' = "failed"
  /\ window' = Redis!Opened({})
  /\ UNCHANGED <<outside, step, keys, index, detail, flags, result, history>>

\* A command fails: whatever was appended is dropped and the error returned.
Fail ==
  /\ collector \notin ScrapeTime
  /\ Commands
  /\ outcome' = "failed"
  /\ step' = 1
  /\ window' = Redis!Opened({})
  /\ Clear
  /\ UNCHANGED outside

\* The rows appended before the error.  The fields of CRM:STATS are ranged over
\* in any order: the one that cannot be parsed may come before or after any other.
Appended ==
  IF Running("read") /\ Unreadable(Table) THEN SUBSET Fields(Table) ELSE {{}}

\* A command or a value fails the refresh of a scrape-time collector: what it
\* appended is in the cache, and is sent with collector_success 0.
FailInCollect ==
  /\ collector \in ScrapeTime
  /\ Commands \/ (Visit /\ Breaks(Table, Key))
  /\ outcome' = "failed"
  /\ \E S \in Appended : \E s \in Redis!Ascending(S) :
       out' = IF S = {} THEN out
              ELSE [out EXCEPT ![Table] = [i \in DOMAIN s |-> <<s[i], db[Table][s[i]]>>]]
  /\ window' = Redis!Opened({})
  /\ UNCHANGED <<outside, step, keys, index, detail, flags, skipped, truncated, history>>

\* refreshMetrics takes the result, or Collect sends the cache; the next refresh
\* starts afresh.
Return ==
  /\ outcome # "running"
  /\ outcome' = "running"
  /\ step' = 1
  /\ window' = WindowAt(1)
  /\ Clear
  /\ UNCHANGED outside

\* The tables the collector reads.
Mine ==
  UNION {{t, Source(t)} \cup ToSet(DetailsOf(t)) :
           t \in {Program[collector][i].table : i \in DOMAIN Program[collector]}}

\* A daemon of the switch writes, rewrites or deletes the row k of the table t.
Change(t, k) ==
  /\ changes < MaxChanges
  /\ changes' = changes + 1
  /\ \E x \in Contents \ {db[t][k]} :
       /\ db' = [db EXCEPT ![t][k] = x]
       /\ window' = IF Running("scan") /\ t = Table
                    THEN Redis!Noted(window, k, x # Absent) ELSE window
  /\ changed' = changed \cup {<<t, k>>}
  /\ UNCHANGED <<collector, max, step, outcome, keys, index, detail, flags, result, repeated>>

Next ==
  \/ ScanKeys \/ ListKeys
  \/ Pass \/ CutOne \/ CutRest \/ Skip \/ FindGone \/ Export \/ ReadDetail \/ EndOfKeys
  \/ ReadHash \/ Finish \/ Fail \/ FailInCollect \/ Return
  \/ \E t \in Mine, k \in Keys : Change(t, k)

Spec == Init /\ [][Next]_vars

-----------------------------------------------------------------------------
(* Properties.                                                             *)

MyWalks == Mine \cap Walked

\* The positions of the keys of a slice that are not passed over.
ToCount(t) == {i \in DOMAIN keys[t] : ~IsPassed(t, keys[t][i])}

\* When a scrape ends every key it was given is exported, counted as skipped,
\* or one of those that are no entries, whichever way its table is limited; hw
\* and queue, which count nothing, export every key.  Of the temperatures of a
\* table at rest, those that are no numbers are counted; the ACL groups of a
\* table at rest are exported.
Accounted ==
  outcome = "done" /\ (collector \in {"thermal", "crm"} => changed = {}) =>
    skipped + Cardinality(UNION {{t} \X DOMAIN out[t] : t \in MyWalks})
      = Cardinality(UNION {{t} \X ToCount(t) : t \in MyWalks})
        + (IF collector = "thermal" THEN Cardinality(Unparsed("asic")) ELSE 0)

\* A row that is an entry of its table and can be exported as it is now.
IsEntry(t, k) ==
  /\ db[Source(t)][k] # Absent
  /\ k \notin Malformed[t] /\ ~IsPassed(t, k)
  /\ ~IsEmpty(t, db[t][k])

IsStable(t, k) == {<<t, k>>, <<Source(t), k>>} \cap changed = {}

IsWalked(t) == \E i \in 1 .. step - 1 : Program[collector][i] = Walk(t)

Rows(t, k) == {i \in DOMAIN out[t] : out[t][i][1] = k}

\* sonic_..._cache_truncated 0 means that no table was cut: every entry that
\* did not change during the scrape is exported as it is, once if SCAN gave it
\* once, and so are the flags, counters and thresholds of a transceiver and the
\* watermarks of a queue.  A PSU is only reported with zeros if it changed.
\* hw, crm and queue keep this for the tables before the one that failed.
StableRowExported ==
  truncated = 0 =>
    \A t \in MyWalks, k \in Keys :
      IsWalked(t) /\ IsEntry(t, k) /\ IsStable(t, k) =>
        /\ Rows(t, k) # {}
        /\ \A i \in Rows(t, k) : out[t][i][2] = Label(t, db[t][k])
        /\ ~repeated => Cardinality(Rows(t, k)) = 1
        /\ \A d \in ToSet(DetailsOf(t)) :
             /\ db[d][k] \in Values /\ IsStable(d, k)
             /\ db[JoinedTo[d]][k] # Absent /\ IsStable(JoinedTo[d], k)
             => \E i \in DOMAIN out[d] : out[d][i] = <<k, db[d][k]>>

\* A background refresh that fails hands over nothing.  A scrape-time one has
\* sent, with collector_success 0, the tables up to the one that failed and
\* nothing of those after it, no row twice: nothing is left of earlier refreshes.
FailureSendsPrefix ==
  outcome = "failed" =>
    /\ collector \notin ScrapeTime => \A t \in Tables : out[t] = <<>>
    /\ \A i \in step + 1 .. Len(Program[collector]) : out[Program[collector][i].table] = <<>>
    /\ ~repeated => \A t \in Tables, k \in Keys : Cardinality(Rows(t, k)) <= 1

Before(S, k) == {j \in S : j < k}

\* What a scrape of tables at rest exports of the table t: of a table whose
\* limit counts entries, the first of them; of the other tables with a limit,
\* the entries among the first keys.
FirstRows(t) ==
  LET entries == {k \in Keys : IsEntry(t, k)}
      ranked  == IF t \in CountsEntries THEN entries ELSE Present(t)
  IN  {k \in entries : t \in Scanned => Cardinality(Before(ranked, k)) < max[t]}

\* A key was looked at with the limit reached.
IsCut(t) ==
  /\ t \in Scanned
  /\ IF t \in CountsEntries
     THEN \E k \in Present(t) : /\ ~IsPassed(t, k)
                                /\ Cardinality(Before(FirstRows(t), k)) >= max[t]
     ELSE Cardinality(Present(t)) > max[t]

MyReads == {t \in Hashes : \E i \in DOMAIN Program[collector] : Program[collector][i] = Read(t)}

\* Tables that do not change give the same series at every refresh, however
\* SCAN orders the keys; truncated says whether a list was cut, each of them at
\* its own place.
QuietScrapeIsExact ==
  outcome = "done" /\ changed = {} /\ ~repeated =>
    /\ \A t \in MyWalks :
         /\ ToSet(out[t]) = {<<k, Label(t, db[t][k])>> : k \in FirstRows(t)}
         /\ Len(out[t]) = Cardinality(FirstRows(t))
    /\ \A t \in MyReads : ToSet(out[t]) = {<<k, db[t][k]>> : k \in Fields(t)}
    /\ truncated = IF \E t \in MyWalks : IsCut(t) THEN 1 ELSE 0

=============================================================================
