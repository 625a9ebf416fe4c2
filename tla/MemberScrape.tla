---------------------------- MODULE MemberScrape ----------------------------
(***************************************************************************)
(* scrapeMetrics of the VLAN and of the LAG collector.  A group (a VLAN or *)
(* a LAG) is a name found in CONFIG_DB or in APPL_DB; a member is a row of *)
(* a third table, joined to its group by name.  Three SCANs come first,    *)
(* then a read per member row, then two reads per group, while the tables  *)
(* change.                                                                 *)
(*                                                                         *)
(* Groups and ports are numbers in the order of their names; the empty     *)
(* name is NoName.  A row of config or appl holds the admin status.        *)
(***************************************************************************)
EXTENDS Naturals, Sequences, FiniteSets, SequencesExt

CONSTANTS Kinds,      \* "vlan", "lag"
          Groups,     \* what may follow the prefix in a key of a group
          NoName,     \* nothing does
          Members,    \* pairs <<group, port>> a member key may name
          Statuses,   \* values of admin_status
          Modes,      \* values of tagging_mode, or of a LAG member's status
          Unknown,    \* the label of a VLAN member without a tagging mode
          Zero,       \* the value of a LAG member without a status
          Absent,     \* no row
          Blank,      \* a row without the field that is looked for
          Configs,    \* values of the two limits
          Databases,  \* contents of the tables when the exporter starts
          Repeats,    \* bound: keys SCAN may return again
          MaxChanges  \* bound: how often a row changes

ASSUME NamesAssumption ==
  /\ Kinds \subseteq {"vlan", "lag"}
  /\ Groups \subseteq Nat /\ NoName \in Groups
  /\ Members \subseteq Groups \X Nat
  /\ {Absent, Blank} \cap (Statuses \cup Modes \cup {Unknown, Zero}) = {}
  /\ Absent # Blank /\ {Unknown, Zero} \cap Modes = {}
  /\ IsFiniteSet(Groups)

\* parseIntEnv refuses a limit below 1.
ASSUME ConfigsAssumption ==
  Configs \subseteq [maxGroups : Nat \ {0}, maxMembers : Nat \ {0}]

ASSUME BoundsAssumption == Repeats \in Nat /\ MaxChanges \in Nat

Contents ==
  [config |-> Statuses \cup {Absent, Blank}, appl |-> Statuses \cup {Absent, Blank},
   member |-> Modes \cup {Absent, Blank}]

RowsOf == [config |-> Groups, appl |-> Groups, member |-> Members]
Tables == DOMAIN RowsOf

ASSUME DatabasesAssumption ==
  \A d \in Databases :
    /\ d = [t \in Tables |-> d[t]]
    /\ \A t \in Tables : d[t] \in [RowsOf[t] -> Contents[t]]

VARIABLES db,          \* db[t][r]: what reading row r of table t gives now
          changes,     \* how often a row has changed
          kind, config,
          pc,          \* config, appl, member: the SCAN of that table; then
                       \* rows, group, groupAppl, done, failed
          window,      \* the SCAN in progress
          names,       \* vlans or lags: the names found so far
          rows,        \* memberKeys: how often each is still to be read
          byGroup,     \* membersByVlan, membersByLag, sorted: <<member, mode>>
          keys, index, \* vlanNames, and the position in it
          configData,  \* the CONFIG_DB hash of the group at hand
          out,         \* the series: info, admin, members, gauge
          processedMembers, skipped,
          changed,     \* history: rows that changed during this scrape
          seen,        \* history: what each row held in this scrape
          repeated     \* history: SCAN returned a member key again

outside == <<db, changes, kind, config>>
locals  == <<window, names, rows, byGroup, keys, index, configData>>
history == <<changed, seen, repeated>>
result  == <<out, processedMembers, skipped>>
vars    == <<outside, pc, locals, result, history>>

Redis == INSTANCE RedisKeys WITH Keys <- Groups

Present(t) == {r \in RowsOf[t] : db[t][r] # Absent}

\* What the rows hold in the database d.
Held(d)   == [t \in Tables |-> {<<r, d[t][r]>> : r \in RowsOf[t]}]
Unchanged == [t \in Tables |-> {}]

\* tagging_mode is a label, "unknown" when empty; the status of a LAG member is
\* a value, 0 when empty.
Label == IF kind = "vlan" THEN Unknown ELSE Zero

Labels == Modes \cup {Unknown, Zero}

NoMembers == [g \in Groups |-> <<>>]

NoSeries ==
  [info |-> {}, admin |-> [g \in Groups |-> Blank],
   members |-> [m \in Members \X Labels |-> 0], gauge |-> [g \in Groups |-> 0]]

TypeOK ==
  /\ \A t \in Tables : db[t] \in [RowsOf[t] -> Contents[t]]
  /\ changes \in 0 .. MaxChanges
  /\ kind \in Kinds /\ config \in Configs
  /\ pc \in {"config", "appl", "member", "rows", "group", "groupAppl", "done", "failed"}
  /\ LET scanned == IF pc = "member" THEN Members ELSE Groups
     IN  window \in [throughout : SUBSET scanned, ever : SUBSET scanned]
  /\ names \subseteq Groups \ {NoName}
  /\ rows \in UNION {[S -> 0 .. Repeats + 1] : S \in SUBSET Members}
  /\ byGroup \in [Groups -> Seq(Members \X Labels)]
  /\ keys \in Seq(Groups)
  /\ index \in 1 .. Len(keys) + 1
  /\ configData \in Contents.config
  /\ out.info \subseteq names
  /\ out.admin \in [Groups -> Statuses \cup {Blank}]
  /\ out.members \in [Members \X Labels -> Nat]
  /\ out.gauge \in [Groups -> 0 .. config.maxMembers]
  /\ processedMembers \in 0 .. config.maxMembers
  /\ skipped \in Nat
  /\ \A t \in Tables : changed[t] \subseteq RowsOf[t]
  /\ repeated \in BOOLEAN

Init ==
  /\ db \in Databases /\ changes = 0
  /\ kind \in Kinds /\ config \in Configs
  /\ pc = "config"
  /\ window = Redis!Opened(Present("config"))
  /\ names = {} /\ rows = <<>> /\ byGroup = NoMembers /\ keys = <<>> /\ index = 1
  /\ configData = Absent
  /\ out = NoSeries /\ processedMembers = 0 /\ skipped = 0
  /\ changed = Unchanged /\ seen = Held(db) /\ repeated = FALSE

-----------------------------------------------------------------------------
(* The three SCANs.                                                        *)

\* MUTANT: a key that is the bare prefix names a group.
CollectedBarePrefix(f) ==
  /\ names' = names \cup {g \in DOMAIN f : f[g] > 0}
  /\ UNCHANGED skipped

\* The names in a slice of keys; a key that is the bare prefix is skipped.
Collected(f) ==
  /\ names' = names \cup ({g \in DOMAIN f : f[g] > 0} \ {NoName})
  /\ skipped' = IF NoName \in DOMAIN f THEN skipped + f[NoName] ELSE skipped

ScanConfig ==
  /\ pc = "config"
  /\ \E f \in Redis!Counts(window) : Collected(f)
  /\ pc' = "appl"
  /\ window' = Redis!Opened(Present("appl"))
  /\ UNCHANGED <<outside, rows, byGroup, keys, index, configData, out, processedMembers,
                 history>>

\* MUTANT: the names of APPL_DB take the place of those of CONFIG_DB.
ScanApplReplaces ==
  /\ pc = "appl"
  /\ \E f \in Redis!Counts(window) :
       names' = {g \in DOMAIN f : f[g] > 0} \ {NoName}
  /\ pc' = "member"
  /\ window' = Redis!Opened(Present("member"))
  /\ UNCHANGED <<outside, rows, byGroup, keys, index, configData, result, history>>

ScanAppl ==
  /\ pc = "appl"
  /\ \E f \in Redis!Counts(window) : Collected(f)
  /\ pc' = "member"
  /\ window' = Redis!Opened(Present("member"))
  /\ UNCHANGED <<outside, rows, byGroup, keys, index, configData, out, processedMembers,
                 history>>

ScanMembers ==
  /\ pc = "member"
  /\ \E f \in Redis!Counts(window) :
       /\ rows' = f
       /\ repeated' = \E m \in DOMAIN f : f[m] > 1
  /\ pc' = "rows"
  /\ window' = Redis!Opened({})
  /\ UNCHANGED <<outside, names, byGroup, keys, index, configData, result, changed, seen>>

-----------------------------------------------------------------------------
(* The member rows, in whatever order the SCAN gave them.                  *)

\* MUTANT: a VLAN member that is gone counts as untagged.
ModeOfDefault(x) == IF x \in Modes THEN x ELSE CHOOSE m \in Modes : TRUE

ModeOf(x) == IF x \in Modes THEN x ELSE Label

\* The append to the slice of the group, and what sort.Slice makes of the slice
\* later: members by port, those of one port in any order.
AppendEntry(g, e) ==
  \E i \in 1 .. Len(byGroup[g]) + 1 :
    /\ \A j \in 1 .. i - 1 : byGroup[g][j][1][2] <= e[1][2]
    /\ \A j \in i .. Len(byGroup[g]) : e[1][2] <= byGroup[g][j][1][2]
    /\ byGroup' = [byGroup EXCEPT ![g] = InsertAt(@, i, e)]

ReadMember(m) ==
  /\ pc = "rows"
  /\ m \in DOMAIN rows /\ rows[m] > 0
  /\ rows' = [rows EXCEPT ![m] = @ - 1]
  /\ IF m[1] = NoName
     THEN /\ skipped' = skipped + 1
          /\ UNCHANGED byGroup
     ELSE /\ AppendEntry(m[1], <<m, ModeOf(db.member[m])>>)
          /\ UNCHANGED skipped
  /\ UNCHANGED <<outside, pc, window, names, keys, index, configData, out, processedMembers,
                 history>>

MembersRead ==
  /\ pc = "rows"
  /\ \A m \in DOMAIN rows : rows[m] = 0
  /\ rows' = <<>>
  /\ \E s \in Redis!Ascending(names) : keys' = s
  /\ index' = 1
  /\ pc' = "group"
  /\ UNCHANGED <<outside, window, names, byGroup, configData, result, history>>

-----------------------------------------------------------------------------
(* The groups, by name.                                                    *)

Visit ==
  /\ pc = "group"
  /\ index <= Len(keys)

\* processedVlans, processedLags.
Full == Cardinality(out.info) >= config.maxGroups

SkipGroup ==
  /\ Visit
  /\ Full
  /\ skipped' = skipped + 1
  /\ index' = index + 1
  /\ UNCHANGED <<outside, pc, window, names, rows, byGroup, keys, configData, out,
                 processedMembers, history>>

ReadConfig ==
  /\ Visit
  /\ ~Full
  /\ configData' = db.config[keys[index]]
  /\ pc' = "groupAppl"
  /\ UNCHANGED <<outside, window, names, rows, byGroup, keys, index, result, history>>

\* firstNonEmpty of the APPL_DB and the CONFIG_DB value; none gives no series.
AdminStatus(config_, appl) ==
  IF appl \in Statuses THEN appl ELSE IF config_ \in Statuses THEN config_ ELSE Blank

\* MUTANT: each group has maxMembers for itself.
RoomOfGroup == config.maxMembers

\* processedMembers is shared by all the groups.
Room == config.maxMembers - processedMembers

\* The series of the group at hand: as many members as there is room for.
ReadAppl ==
  /\ pc = "groupAppl"
  /\ LET g    == keys[index]
         mine == byGroup[g]
         n    == IF Len(mine) <= Room THEN Len(mine) ELSE Room
     IN  /\ out' =
              [info    |-> out.info \cup {g},
               admin   |-> [out.admin EXCEPT ![g] = AdminStatus(configData, db.appl[g])],
               members |-> [x \in Members \X Labels |->
                              out.members[x] + Cardinality({i \in 1 .. n : mine[i] = x})],
               gauge   |-> [out.gauge EXCEPT ![g] = n]]
         /\ processedMembers' = processedMembers + n
         /\ skipped' = skipped + (Len(mine) - n)
  /\ configData' = Absent
  /\ index' = index + 1
  /\ pc' = "group"
  /\ UNCHANGED <<outside, window, names, rows, byGroup, keys, history>>

Finish ==
  /\ pc = "group"
  /\ index > Len(keys)
  /\ pc' = "done"
  /\ UNCHANGED <<outside, locals, result, history>>

Clear ==
  /\ names' = {} /\ rows' = <<>> /\ byGroup' = NoMembers /\ keys' = <<>> /\ index' = 1
  /\ configData' = Absent
  /\ out' = NoSeries /\ processedMembers' = 0 /\ skipped' = 0
  /\ changed' = Unchanged /\ seen' = Held(db) /\ repeated' = FALSE

\* A command fails: nil, 0 and the error are returned.
Fail ==
  /\ pc \in {"config", "appl", "member", "rows", "group", "groupAppl"}
  /\ pc = "rows" => \E m \in DOMAIN rows : rows[m] > 0
  /\ pc = "group" => index <= Len(keys) /\ ~Full
  /\ pc' = "failed"
  /\ window' = Redis!Opened({})
  /\ Clear
  /\ UNCHANGED outside

\* refreshMetrics takes the result; the next refresh starts afresh.
Return ==
  /\ pc \in {"done", "failed"}
  /\ pc' = "config"
  /\ window' = Redis!Opened(Present("config"))
  /\ Clear
  /\ UNCHANGED outside

-----------------------------------------------------------------------------
\* vlanmgrd, teammgrd, orchagent or the operator changes a row.
Change(t, r) ==
  /\ changes < MaxChanges
  /\ changes' = changes + 1
  /\ \E x \in Contents[t] \ {db[t][r]} :
       /\ db' = [db EXCEPT ![t][r] = x]
       /\ window' = IF t = pc THEN Redis!Noted(window, r, x # Absent) ELSE window
  /\ changed' = [changed EXCEPT ![t] = @ \cup {r}]
  /\ seen' = [u \in Tables |-> seen[u] \cup Held(db')[u]]
  /\ UNCHANGED <<kind, config, pc, names, rows, byGroup, keys, index, configData, result,
                 repeated>>

Next ==
  \/ ScanConfig \/ ScanAppl \/ ScanMembers
  \/ MembersRead \/ \E m \in Members : ReadMember(m)
  \/ SkipGroup \/ ReadConfig \/ ReadAppl \/ Finish
  \/ Fail \/ Return
  \/ \E t \in Tables : \E r \in RowsOf[t] : Change(t, r)

Spec == Init /\ [][Next]_vars

-----------------------------------------------------------------------------
(* Properties.                                                             *)

\* A group that is reported was in one of its two tables at some moment of the
\* scrape, its status was in one of them, and a member that is reported had its
\* row, with that mode, or with none when the label says so.
NothingInvented ==
  pc = "done" =>
    /\ \A g \in out.info :
         /\ \E t \in {"config", "appl"} :
              \E x \in Contents[t] \ {Absent} : <<g, x>> \in seen[t]
         /\ out.admin[g] # Blank =>
              \E t \in {"config", "appl"} : <<g, out.admin[g]>> \in seen[t]
    /\ \A m \in Members, l \in Labels :
         out.members[<<m, l>>] > 0 =>
           /\ m[1] \in out.info
           /\ \E x \in Contents.member \ {Absent} : <<m, x>> \in seen["member"]
           /\ IF l \in Modes THEN <<m, l>> \in seen["member"]
                             ELSE \E x \in {Absent, Blank} : <<m, x>> \in seen["member"]

\* No limit was met: nothing was skipped but keys without a name.
NoLimitMet ==
  /\ Len(keys) <= config.maxGroups
  /\ Cardinality(UNION {{g} \X DOMAIN byGroup[g] : g \in Groups}) <= config.maxMembers

\* A group that stayed in one of its tables during the scrape is reported, with
\* every member that did, and with the status both tables agree on having; a
\* member that was not repeated is there once.
StableGroupReported ==
  pc = "done" /\ NoLimitMet =>
    \A g \in Groups \ {NoName} :
      (\E t \in {"config", "appl"} : db[t][g] # Absent /\ g \notin changed[t]) =>
        /\ g \in out.info
        /\ g \notin changed["config"] \cup changed["appl"] =>
             out.admin[g] = AdminStatus(db.config[g], db.appl[g])
        /\ \A m \in Members :
             m[1] = g /\ db.member[m] # Absent /\ m \notin changed["member"] =>
               /\ out.members[<<m, ModeOf(db.member[m])>>] > 0
               /\ ~repeated => out.members[<<m, ModeOf(db.member[m])>>] = 1

\* The groups and members a scrape of tables at rest reports: the first groups
\* by name, and of their members the first by group and port.
FirstGroups ==
  LET all == (Present("config") \cup Present("appl")) \ {NoName}
  IN  {g \in all : Cardinality({h \in all : h < g}) < config.maxGroups}

FirstMembers ==
  LET all == {m \in Present("member") : m[1] \in FirstGroups}
      Before(m) == {l \in all : l[1] < m[1] \/ (l[1] = m[1] /\ l[2] < m[2])}
  IN  {m \in all : Cardinality(Before(m)) < config.maxMembers}

\* Tables that do not change give the same series at every refresh, however
\* SCAN orders the keys, and the gauge of a group is the number of its members.
QuietScrapeIsExact ==
  pc = "done" /\ changed = Unchanged /\ ~repeated =>
    /\ out.info = FirstGroups
    /\ \A m \in Members, l \in Labels :
         out.members[<<m, l>>] =
           IF m \in FirstMembers /\ l = ModeOf(db.member[m]) THEN 1 ELSE 0
    /\ \A g \in FirstGroups :
         out.gauge[g] = Cardinality({m \in FirstMembers : m[1] = g})

=============================================================================
