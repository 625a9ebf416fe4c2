-------------------------- MODULE MemberScrapeProofs --------------------------
(***************************************************************************)
(* Proofs about the scrapes of the VLAN and the LAG collector, for any     *)
(* tables, limits and changes of the rows: type correctness, that nothing  *)
(* is reported that was not there, that what stays there is reported as    *)
(* long as no limit is met, and that of tables at rest exactly the first   *)
(* groups and members are reported.                                        *)
(***************************************************************************)
EXTENDS MemberScrape, FiniteSetTheorems, SequenceTheorems, TLAPS

\* pc is the table of a SCAN; the groups are walked, or were; so are the members.
Scans == {"config", "appl", "member"}
Walk  == {"group", "groupAppl", "done"}
Read  == {"rows"} \cup Walk

\* Records and functions are what they look like.
ShapeInv ==
  /\ db = [t \in Tables |-> db[t]]
  /\ changed = [t \in Tables |-> changed[t]]
  /\ seen = [t \in Tables |-> seen[t]]
  /\ out = [info |-> out.info, admin |-> out.admin, members |-> out.members,
            gauge |-> out.gauge]

\* Nothing is left of an earlier scrape, or of the rows when they were read.
FreshInv ==
  /\ pc \notin Read => byGroup = NoMembers
  /\ pc \in Walk => rows = <<>>
  /\ pc \notin Walk => keys = <<>> /\ index = 1 /\ out = NoSeries /\ processedMembers = 0

PositionInv ==
  /\ pc = "groupAppl" => index <= Len(keys)
  /\ pc = "done" => index > Len(keys)

\* The groups that are walked are those found, each once.
KeysInv ==
  pc \in Walk =>
    /\ \A i, j \in 1 .. Len(keys) : keys[i] = keys[j] => i = j
    /\ {keys[i] : i \in 1 .. Len(keys)} = names

BaseInv == TypeOK /\ ShapeInv /\ FreshInv /\ PositionInv /\ KeysInv

Visited == {keys[j] : j \in 1 .. index - 1}

IsStable(t, r) == r \notin changed[t]

\* The row r of t was there during the scrape.
WasThere(t, r) == \E x \in Contents[t] \ {Absent} : <<r, x>> \in seen[t]

SeenInv == \A t \in Tables : \A r \in RowsOf[t] : <<r, db[t][r]>> \in seen[t]

WindowInv ==
  pc \in Scans =>
    /\ window.throughout \subseteq window.ever
    /\ \A r \in window.ever : WasThere(pc, r)
    /\ \A r \in Present(pc) : IsStable(pc, r) => r \in window.throughout

NamesInv ==
  /\ \A g \in names : \E t \in {"config", "appl"} : WasThere(t, g)
  /\ pc \in {"appl", "member"} \cup Read =>
       \A g \in Present("config") \ {NoName} : IsStable("config", g) => g \in names
  /\ pc \in {"member"} \cup Read =>
       \A g \in Present("appl") \ {NoName} : IsStable("appl", g) => g \in names

\* An entry is of its group, and its row had what it says.
EntryHeld(e) ==
  /\ WasThere("member", e[1])
  /\ IF e[2] \in Modes THEN <<e[1], e[2]>> \in seen["member"]
                       ELSE \E x \in {Absent, Blank} : <<e[1], x>> \in seen["member"]

EntryInv ==
  \A g \in Groups : \A i \in DOMAIN byGroup[g] :
    byGroup[g][i][1][1] = g /\ EntryHeld(byGroup[g][i])

\* A member that stays is still to be read, or has an entry.
RowsInv ==
  pc \in Read =>
    /\ \A m \in DOMAIN rows : WasThere("member", m)
    /\ \A m \in Present("member") :
         IsStable("member", m) /\ m[1] # NoName =>
           \/ m \in DOMAIN rows /\ rows[m] > 0
           \/ \E i \in DOMAIN byGroup[m[1]] : byGroup[m[1]][i] = <<m, ModeOf(db.member[m])>>

\* Without repetitions a member is read once and has one entry.
OnceInv ==
  pc \in Read /\ ~repeated =>
    /\ \A m \in DOMAIN rows :
         /\ rows[m] \in {0, 1}
         /\ rows[m] = 1 => \A i \in DOMAIN byGroup[m[1]] : byGroup[m[1]][i][1] # m
    /\ \A g \in Groups : \A i, j \in DOMAIN byGroup[g] :
         byGroup[g][i][1] = byGroup[g][j][1] => i = j

\* What was read of the group at hand is what is there, unless it changed.
ConfigInv ==
  pc = "groupAppl" =>
    /\ <<keys[index], configData>> \in seen["config"]
    /\ IsStable("config", keys[index]) => configData = db.config[keys[index]]

\* What is reported of the groups visited.
OutInv ==
  pc \in Walk =>
    /\ out.info \subseteq Visited
    /\ \A g \in out.info :
         /\ out.admin[g] # Blank =>
              \E t \in {"config", "appl"} : <<g, out.admin[g]>> \in seen[t]
         /\ IsStable("config", g) /\ IsStable("appl", g) =>
              out.admin[g] = AdminStatus(db.config[g], db.appl[g])
    /\ \A x \in Members \X Labels :
         out.members[x] > 0 =>
           /\ x[1][1] \in out.info
           /\ \E i \in DOMAIN byGroup[x[1][1]] : byGroup[x[1][1]][i] = x

\* The places of the entries of the groups G in b.
Places(b, G) == UNION {{g} \X DOMAIN b[g] : g \in G}

\* Where x is among the first n entries of s.
PlacesOf(s, n, x) == {i \in 1 .. n : s[i] = x}

\* While no limit is met every group visited is reported, with all its entries.
LimitInv ==
  pc \in Walk /\ NoLimitMet =>
    /\ Visited \subseteq out.info
    /\ processedMembers = Cardinality(Places(byGroup, Visited))
    /\ \A x \in Members \X Labels :
         x[1][1] \in Visited =>
           out.members[x] = Cardinality(PlacesOf(byGroup[x[1][1]], Len(byGroup[x[1][1]]), x))

IInv ==
  /\ BaseInv /\ SeenInv /\ WindowInv /\ NamesInv
  /\ EntryInv /\ RowsInv /\ OnceInv /\ ConfigInv /\ OutInv /\ LimitInv

-----------------------------------------------------------------------------
(* Names, tables and slices.                                               *)

LEMMA TableFacts ==
  /\ Tables = {"config", "appl", "member"}
  /\ RowsOf["config"] = Groups /\ RowsOf["appl"] = Groups /\ RowsOf["member"] = Members
  /\ Contents["config"] = Statuses \cup {Absent, Blank}
  /\ Contents["appl"] = Statuses \cup {Absent, Blank}
  /\ Contents["member"] = Modes \cup {Absent, Blank}
  /\ Contents.config = Contents["config"]
BY DEF Tables, RowsOf, Contents

LEMMA NameFacts ==
  /\ Groups \subseteq Nat /\ NoName \in Groups /\ IsFiniteSet(Groups)
  /\ \A m \in Members : m[1] \in Groups /\ m[2] \in Nat
  /\ Absent \notin Statuses \cup Modes \cup {Unknown, Zero}
  /\ Blank \notin Statuses \cup Modes \cup {Unknown, Zero}
  /\ Absent # Blank /\ Unknown \notin Modes /\ Zero \notin Modes
BY NamesAssumption

LEMMA ConfigFacts ==
  ASSUME config \in Configs
  PROVE  config.maxGroups \in Nat \ {0} /\ config.maxMembers \in Nat \ {0}
BY ConfigsAssumption

LEMMA LabelFacts ==
  /\ Label \in Labels /\ Label \notin Modes
  /\ \A x : ModeOf(x) \in Labels
BY NameFacts DEF Label, Labels, ModeOf

LEMMA EmptyFacts ==
  /\ Len(<<>>) = 0 /\ DOMAIN <<>> = {}
  /\ \A S : <<>> \in Seq(S)
  /\ \A T : <<>> \in [{} -> T]
OBVIOUS

\* The rows still to be read are counted by member.
RowTypes == UNION {[S -> 0 .. Repeats + 1] : S \in SUBSET Members}

LEMMA RowTypeFacts ==
  /\ <<>> \in RowTypes
  /\ \A S \in SUBSET Members : \A f \in [S -> 0 .. Repeats + 1] : f \in RowTypes
  /\ \A f \in RowTypes : /\ DOMAIN f \subseteq Members
                         /\ \A m \in DOMAIN f : f[m] \in 0 .. Repeats + 1
                         /\ f \in [DOMAIN f -> 0 .. Repeats + 1]
<1>1. <<>> \in [{} -> 0 .. Repeats + 1]
  BY EmptyFacts
<1> QED
  BY <1>1 DEF RowTypes

\* The instance counts as the module itself does.
LEMMA SameCardinality == \A S : Redis!Cardinality(S) = Cardinality(S)
BY DEF Redis!Cardinality, Cardinality

LEMMA CountFacts ==
  ASSUME NEW w, NEW f \in Redis!Counts(w)
  PROVE  /\ f \in [w.ever -> 0 .. Repeats + 1]
         /\ \A k \in w.throughout : f[k] > 0
BY DEF Redis!Counts

\* The slice of the names: each of them once.
LEMMA AscendingFacts ==
  ASSUME NEW S \in SUBSET Groups, NEW s \in Redis!Ascending(S)
  PROVE  /\ s \in Seq(Groups)
         /\ \A i, j \in 1 .. Len(s) : s[i] = s[j] => i = j
         /\ {s[i] : i \in 1 .. Len(s)} = S
<1>1. Cardinality(S) \in Nat /\ IsFiniteSet(S)
  BY NameFacts, FS_Subset, FS_CardinalityType
<1>2. /\ s \in [1 .. Cardinality(S) -> S]
      /\ \A i, j \in DOMAIN s : i < j => s[i] < s[j]
  BY SameCardinality DEF Redis!Ascending
<1>3. s \in Seq(Groups) /\ Len(s) = Cardinality(S) /\ DOMAIN s = 1 .. Cardinality(S)
  <2>1. s \in [1 .. Cardinality(S) -> Groups]
    BY <1>2
  <2> QED
    BY <1>1, <2>1, SeqDef
<1>4. ASSUME NEW i \in 1 .. Len(s), NEW j \in 1 .. Len(s), s[i] = s[j] PROVE i = j
  <2>1. i \in Nat /\ j \in Nat /\ s[i] \in S /\ s[j] \in S
    BY <1>1, <1>2, <1>3
  <2>2. s[i] \in Nat /\ s[j] \in Nat
    BY <2>1, NameFacts
  <2>3. ~(i < j) /\ ~(j < i)
    BY <1>2, <1>3, <1>4, <2>2
  <2> QED
    BY <2>1, <2>3
<1>5. s \in Injection(1 .. Cardinality(S), S)
  BY <1>2, <1>3, <1>4 DEF Injection, IsInjective
<1>6. Cardinality(1 .. Cardinality(S)) = Cardinality(S)
  BY <1>1, FS_Interval
<1>7. s \in Surjection(1 .. Cardinality(S), S)
  BY <1>1, <1>5, <1>6, FS_Injection
<1> QED
  BY <1>2, <1>3, <1>4, <1>7 DEF Surjection

\* What an insertion makes of a slice: the elements before it stay where they
\* are, those behind it move up.
LEMMA InsertFacts ==
  ASSUME NEW S, NEW s \in Seq(S), NEW i \in 1 .. Len(s) + 1, NEW e \in S
  PROVE  /\ InsertAt(s, i, e) \in Seq(S) /\ Len(InsertAt(s, i, e)) = Len(s) + 1
         /\ \A j \in 1 .. Len(s) + 1 :
              InsertAt(s, i, e)[j] = IF j < i THEN s[j] ELSE IF j = i THEN e ELSE s[j - 1]
<1> DEFINE a == SubSeq(s, 1, i - 1)
           b == SubSeq(s, i, Len(s))
<1>1. Len(s) \in Nat /\ i \in Nat /\ i >= 1 /\ i <= Len(s) + 1
  OBVIOUS
<1>2. /\ a \in Seq(S) /\ Len(a) = i - 1
      /\ \A j \in 1 .. i - 1 : a[j] = s[j]
  <2>1. \A j \in 1 .. i - 1 : s[j] \in S
    BY <1>1, ElementOfSeq
  <2>2. /\ a \in Seq(S) /\ Len(a) = IF 1 <= i - 1 THEN (i - 1) - 1 + 1 ELSE 0
        /\ \A j \in 1 .. (i - 1) - 1 + 1 : a[j] = s[1 + j - 1]
    BY <1>1, <2>1, SubSeqProperties
  <2> HIDE DEF a
  <2> QED
    BY <1>1, <2>2
<1>3. /\ b \in Seq(S) /\ Len(b) = Len(s) + 1 - i
      /\ \A j \in 1 .. Len(s) + 1 - i : b[j] = s[i + j - 1]
  <2>1. \A j \in i .. Len(s) : s[j] \in S
    BY <1>1, ElementOfSeq
  <2>2. /\ b \in Seq(S) /\ Len(b) = IF i <= Len(s) THEN Len(s) - i + 1 ELSE 0
        /\ \A j \in 1 .. Len(s) - i + 1 : b[j] = s[i + j - 1]
    BY <1>1, <2>1, SubSeqProperties
  <2> HIDE DEF b
  <2> QED
    BY <1>1, <2>2
<1>4. InsertAt(s, i, e) = (a \o <<e>>) \o b
  BY DEF InsertAt
<1> HIDE DEF a, b
<1>5. <<e>> \in Seq(S) /\ Len(<<e>>) = 1 /\ <<e>>[1] = e
  OBVIOUS
<1>6. /\ a \o <<e>> \in Seq(S) /\ Len(a \o <<e>>) = i
      /\ \A j \in 1 .. i : (a \o <<e>>)[j] = IF j <= i - 1 THEN a[j] ELSE <<e>>[j - (i - 1)]
  BY <1>1, <1>2, <1>5, ConcatProperties
<1> DEFINE c == a \o <<e>>
<1>7. \A j \in 1 .. i : c[j] = IF j < i THEN s[j] ELSE e
  BY <1>1, <1>2, <1>5, <1>6
<1>8. c \in Seq(S) /\ Len(c) = i
  BY <1>6
<1>9. InsertAt(s, i, e) = c \o b
  BY <1>4
<1> HIDE DEF c
<1>10. /\ c \o b \in Seq(S) /\ Len(c \o b) = Len(s) + 1
       /\ \A j \in 1 .. Len(s) + 1 : (c \o b)[j] = IF j <= i THEN c[j] ELSE b[j - i]
  BY <1>1, <1>3, <1>8, ConcatProperties
<1>11. ASSUME NEW j \in 1 .. Len(s) + 1
       PROVE  (c \o b)[j] = IF j < i THEN s[j] ELSE IF j = i THEN e ELSE s[j - 1]
  <2> j \in Nat /\ j >= 1
    OBVIOUS
  <2>1. CASE j < i
    BY <1>1, <1>7, <1>10, <2>1
  <2>3. CASE j = i
    BY <1>1, <1>7, <1>10, <2>3
  <2>2. CASE j > i
    <3>1. (c \o b)[j] = b[j - i] /\ j - i \in 1 .. Len(s) + 1 - i
      BY <1>1, <1>10, <2>2
    <3>2. i + (j - i) - 1 = j - 1
      BY <1>1
    <3> QED
      BY <1>1, <1>3, <2>2, <3>1, <3>2
  <2>4. j < i \/ j = i \/ j > i
    BY <1>1
  <2> QED
    BY <2>1, <2>2, <2>3, <2>4
<1> QED
  BY <1>9, <1>10, <1>11

-----------------------------------------------------------------------------
(* Types, and the walk of the groups.                                      *)

LEMMA WindowFacts ==
  /\ \A t \in Tables : Present(t) \subseteq RowsOf[t]
  /\ Redis!Opened(Present("config")) \in [throughout : SUBSET Groups, ever : SUBSET Groups]
  /\ Redis!Opened(Present("appl")) \in [throughout : SUBSET Groups, ever : SUBSET Groups]
  /\ Redis!Opened(Present("member")) \in [throughout : SUBSET Members, ever : SUBSET Members]
  /\ \A S : Redis!Opened({}) \in [throughout : SUBSET S, ever : SUBSET S]
  /\ \A P : Redis!Opened(P).throughout = P /\ Redis!Opened(P).ever = P
<1>1. \A t \in Tables : Present(t) \subseteq RowsOf[t]
  BY DEF Present
<1>2. /\ Present("config") \subseteq Groups /\ Present("appl") \subseteq Groups
      /\ Present("member") \subseteq Members
  BY <1>1, TableFacts
<1> QED
  BY <1>1, <1>2 DEF Redis!Opened

\* The state that Init, Fail and Return leave.
LEMMA FreshTypes ==
  ASSUME config \in Configs
  PROVE  /\ <<>> \in RowTypes /\ NoMembers \in [Groups -> Seq(Members \X Labels)]
         /\ NoMembers = [g \in Groups |-> <<>>]
         /\ <<>> \in Seq(Groups) /\ Len(<<>>) = 0 /\ 1 \in 1 .. Len(<<>>) + 1
         /\ NoSeries.info = {} /\ NoSeries.admin \in [Groups -> Statuses \cup {Blank}]
         /\ NoSeries.members \in [Members \X Labels -> Nat]
         /\ NoSeries.gauge \in [Groups -> 0 .. config.maxMembers]
         /\ NoSeries = [info |-> NoSeries.info, admin |-> NoSeries.admin,
                        members |-> NoSeries.members, gauge |-> NoSeries.gauge]
         /\ 0 \in 0 .. config.maxMembers
         /\ Unchanged = [t \in Tables |-> Unchanged[t]]
         /\ \A t \in Tables : Unchanged[t] = {}
         /\ \A d : Held(d) = [t \in Tables |-> Held(d)[t]]
<1>1. 0 \in 0 .. config.maxMembers
  BY ConfigFacts
<1>2. NoMembers \in [Groups -> Seq(Members \X Labels)]
  BY EmptyFacts DEF NoMembers
<1>3. Absent \in Contents.config
  BY TableFacts
<1> QED
  BY <1>1, <1>2, <1>3, EmptyFacts, RowTypeFacts DEF NoSeries, NoMembers, Unchanged, Held

LEMMA TypeFacts ==
  TypeOK <=>
  /\ \A t \in Tables : db[t] \in [RowsOf[t] -> Contents[t]]
  /\ changes \in 0 .. MaxChanges
  /\ kind \in Kinds /\ config \in Configs
  /\ pc \in {"config", "appl", "member", "rows", "group", "groupAppl", "done", "failed"}
  /\ pc = "member" => window \in [throughout : SUBSET Members, ever : SUBSET Members]
  /\ pc # "member" => window \in [throughout : SUBSET Groups, ever : SUBSET Groups]
  /\ names \subseteq Groups \ {NoName}
  /\ rows \in RowTypes
  /\ byGroup \in [Groups -> Seq(Members \X Labels)]
  /\ keys \in Seq(Groups)
  /\ index \in 1 .. Len(keys) + 1
  /\ configData \in Contents.config
  /\ out.info \subseteq names
  /\ out.admin \in [Groups -> Statuses \cup {Blank}]
  /\ out.members \in [Members \X Labels -> Nat]
  /\ out.gauge \in [Groups -> 0 .. config.maxMembers]
  /\ processedMembers \in 0 .. config.maxMembers
  /\ skipped \in Nat
  /\ \A t \in Tables : changed[t] \subseteq RowsOf[t]
  /\ repeated \in BOOLEAN
BY DEF TypeOK, RowTypes

LEMMA InitBase == Init => BaseInv
<1> SUFFICES ASSUME Init PROVE BaseInv
  OBVIOUS
<1>1. /\ db \in Databases /\ changes = 0 /\ kind \in Kinds /\ config \in Configs
      /\ pc = "config" /\ window = Redis!Opened(Present("config"))
      /\ names = {} /\ rows = <<>> /\ byGroup = NoMembers /\ keys = <<>> /\ index = 1
      /\ configData = Absent /\ out = NoSeries /\ processedMembers = 0 /\ skipped = 0
      /\ changed = Unchanged /\ seen = Held(db) /\ repeated = FALSE
  BY DEF Init
<1>2. /\ db = [t \in Tables |-> db[t]]
      /\ \A t \in Tables : db[t] \in [RowsOf[t] -> Contents[t]]
  BY <1>1, DatabasesAssumption
<1>3. 0 \in 0 .. MaxChanges /\ repeated \in BOOLEAN /\ Absent \in Contents.config
  <2>1. 0 \in 0 .. MaxChanges /\ Absent \in Contents.config
    BY BoundsAssumption, TableFacts
  <2>2. repeated \in BOOLEAN
    BY <1>1, Zenon
  <2> QED
    BY <2>1, <2>2
<1>4. window \in [throughout : SUBSET Groups, ever : SUBSET Groups]
  BY <1>1, WindowFacts
<1>5. TypeOK
  BY <1>1, <1>2, <1>3, <1>4, FreshTypes, TypeFacts
<1>6. ShapeInv
  BY <1>1, <1>2, FreshTypes DEF ShapeInv
<1> QED
  BY <1>1, <1>5, <1>6 DEF BaseInv, FreshInv, PositionInv, KeysInv, Read, Walk

\* A change of the row r of t.
LEMMA ChangeFacts ==
  ASSUME TypeOK, ShapeInv, NEW t \in Tables, NEW r \in RowsOf[t], Change(t, r)
  PROVE  /\ changes' \in 0 .. MaxChanges
         /\ db' = [u \in Tables |-> db'[u]]
         /\ \A u \in Tables : db'[u] \in [RowsOf[u] -> Contents[u]]
         /\ \A u \in Tables : \A q \in RowsOf[u] : u # t \/ q # r => db'[u][q] = db[u][q]
         /\ window' = IF t = pc THEN Redis!Noted(window, r, db'[t][r] # Absent) ELSE window
         /\ changed' = [u \in Tables |-> changed'[u]]
         /\ \A u \in Tables : changed'[u] = IF u = t THEN changed[u] \cup {r} ELSE changed[u]
         /\ seen' = [u \in Tables |-> seen'[u]]
         /\ \A u \in Tables : seen[u] \subseteq seen'[u]
         /\ \A u \in Tables : \A q \in RowsOf[u] : <<q, db'[u][q]>> \in seen'[u]
         /\ UNCHANGED <<kind, config, pc, names, rows, byGroup, keys, index, configData, out,
                        processedMembers, skipped, repeated>>
<1>1. PICK x \in Contents[t] \ {db[t][r]} :
        /\ db' = [db EXCEPT ![t][r] = x]
        /\ window' = IF t = pc THEN Redis!Noted(window, r, x # Absent) ELSE window
  BY DEF Change
<1>2. /\ changes < MaxChanges /\ changes' = changes + 1
      /\ changed' = [changed EXCEPT ![t] = @ \cup {r}]
      /\ seen' = [u \in Tables |-> seen[u] \cup Held(db')[u]]
      /\ UNCHANGED <<kind, config, pc, names, rows, byGroup, keys, index, configData, out,
                     processedMembers, skipped, repeated>>
  BY DEF Change, result
<1>3. /\ db = [u \in Tables |-> db[u]] /\ changed = [u \in Tables |-> changed[u]]
      /\ \A u \in Tables : db[u] \in [RowsOf[u] -> Contents[u]]
  BY DEF ShapeInv, TypeOK
<1>4. db' = [u \in Tables |-> IF u = t THEN [db[t] EXCEPT ![r] = x] ELSE db[u]]
  BY <1>1, <1>3
<1>5. changes' \in 0 .. MaxChanges
  BY <1>2, BoundsAssumption DEF TypeOK
<1>6. changed' = [u \in Tables |-> IF u = t THEN changed[t] \cup {r} ELSE changed[u]]
  BY <1>2, <1>3
<1>7. [db[t] EXCEPT ![r] = x] \in [RowsOf[t] -> Contents[t]] /\ db'[t][r] = x
  BY <1>1, <1>3, <1>4
<1>8. \A u \in Tables : \A q \in RowsOf[u] : <<q, db'[u][q]>> \in Held(db')[u]
  BY DEF Held
<1>9. \A u \in Tables : \A q \in RowsOf[u] : u # t \/ q # r => db'[u][q] = db[u][q]
  BY <1>3, <1>4
<1>10. \A u \in Tables : db'[u] \in [RowsOf[u] -> Contents[u]]
  BY <1>3, <1>4, <1>7
<1>11. db' = [u \in Tables |-> db'[u]]
  BY <1>4
<1>12. /\ changed' = [u \in Tables |-> changed'[u]]
       /\ \A u \in Tables : changed'[u] = IF u = t THEN changed[u] \cup {r} ELSE changed[u]
  BY <1>6
<1>13. /\ seen' = [u \in Tables |-> seen'[u]]
       /\ \A u \in Tables : seen[u] \subseteq seen'[u]
       /\ \A u \in Tables : \A q \in RowsOf[u] : <<q, db'[u][q]>> \in seen'[u]
  BY <1>2, <1>8
<1> QED
  BY <1>1, <1>2, <1>5, <1>7, <1>9, <1>10, <1>11, <1>12, <1>13

LEMMA ChangeBase ==
  ASSUME BaseInv, NEW t \in Tables, NEW r \in RowsOf[t], Change(t, r)
  PROVE  BaseInv'
<1>1. TypeOK /\ ShapeInv /\ FreshInv /\ PositionInv /\ KeysInv
  BY DEF BaseInv
<1>2. /\ changes' \in 0 .. MaxChanges
      /\ db' = [u \in Tables |-> db'[u]]
      /\ \A u \in Tables : db'[u] \in [RowsOf[u] -> Contents[u]]
      /\ window' = IF t = pc THEN Redis!Noted(window, r, db'[t][r] # Absent) ELSE window
      /\ changed' = [u \in Tables |-> changed'[u]]
      /\ \A u \in Tables : changed'[u] = IF u = t THEN changed[u] \cup {r} ELSE changed[u]
      /\ seen' = [u \in Tables |-> seen'[u]]
      /\ UNCHANGED <<kind, config, pc, names, rows, byGroup, keys, index, configData, out,
                     processedMembers, skipped, repeated>>
  BY <1>1, ChangeFacts
<1>3. \A u \in Tables : changed'[u] \subseteq RowsOf[u]
  <2>1. \A u \in Tables : changed[u] \subseteq RowsOf[u]
    BY <1>1 DEF TypeOK
  <2> QED
    BY <1>2, <2>1
<1>4. /\ pc = "member" => window' \in [throughout : SUBSET Members, ever : SUBSET Members]
      /\ pc # "member" => window' \in [throughout : SUBSET Groups, ever : SUBSET Groups]
  <2>1. CASE pc = "member"
    <3>1. window \in [throughout : SUBSET Members, ever : SUBSET Members]
      BY <1>1, <2>1, TypeFacts
    <3>2. t = pc => r \in Members
      BY <2>1, TableFacts
    <3> QED
      BY <1>2, <2>1, <3>1, <3>2 DEF Redis!Noted
  <2>2. CASE pc # "member"
    <3>1. window \in [throughout : SUBSET Groups, ever : SUBSET Groups]
      BY <1>1, <2>2, TypeFacts
    <3>2. t = pc => r \in Groups
      BY <2>2, TableFacts
    <3> QED
      BY <1>2, <2>2, <3>1, <3>2 DEF Redis!Noted
  <2> QED
    BY <2>1, <2>2
<1>5. TypeOK'
  BY <1>1, <1>2, <1>3, <1>4, TypeFacts DEF TypeOK, RowTypes
<1>6. ShapeInv' /\ FreshInv' /\ PositionInv' /\ KeysInv'
  BY <1>1, <1>2 DEF ShapeInv, FreshInv, PositionInv, KeysInv
<1> QED
  BY <1>5, <1>6 DEF BaseInv

\* Fail and Return: the next state is that of a scrape that begins, or of none.
LEMMA ClearBase ==
  ASSUME BaseInv, Clear, UNCHANGED outside, pc' \in {"config", "failed"},
         window' \in [throughout : SUBSET Groups, ever : SUBSET Groups]
  PROVE  BaseInv'
<1>1. TypeOK /\ ShapeInv
  BY DEF BaseInv
<1>2. /\ UNCHANGED <<db, changes, kind, config>>
      /\ names' = {} /\ rows' = <<>> /\ byGroup' = NoMembers /\ keys' = <<>> /\ index' = 1
      /\ configData' = Absent
      /\ out' = NoSeries /\ processedMembers' = 0 /\ skipped' = 0
      /\ changed' = Unchanged /\ seen' = Held(db) /\ repeated' = FALSE
  BY DEF Clear, outside
<1>3. config \in Configs
  BY <1>1 DEF TypeOK
<1>4. repeated' \in BOOLEAN
  BY <1>2, Zenon
<1>5. Absent \in Contents.config
  BY TableFacts
<1>6. TypeOK'
  BY <1>1, <1>2, <1>3, <1>4, <1>5, FreshTypes DEF TypeOK, RowTypes
<1>7. ShapeInv'
  BY <1>1, <1>2, <1>3, FreshTypes DEF ShapeInv
<1> QED
  BY <1>2, <1>6, <1>7 DEF BaseInv, FreshInv, PositionInv, KeysInv, Read, Walk

\* The names in the slice that a SCAN returns.
LEMMA CollectedFacts ==
  ASSUME NEW f, f \in Redis!Counts(window), Collected(f), skipped \in Nat,
         window.ever \subseteq Groups, names \subseteq Groups \ {NoName}
  PROVE  /\ names' \subseteq Groups \ {NoName} /\ skipped' \in Nat
         /\ names \subseteq names'
         /\ names' \subseteq names \cup window.ever
         /\ window.throughout \subseteq window.ever => window.throughout \ {NoName} \subseteq names'
<1>1. /\ f \in [window.ever -> 0 .. Repeats + 1]
      /\ \A k \in window.throughout : f[k] > 0
  BY CountFacts
<1>2. /\ names' = names \cup ({g \in DOMAIN f : f[g] > 0} \ {NoName})
      /\ skipped' = IF NoName \in DOMAIN f THEN skipped + f[NoName] ELSE skipped
  BY DEF Collected
<1>3. skipped' \in Nat
  BY <1>1, <1>2, BoundsAssumption
<1> QED
  BY <1>1, <1>2, <1>3

LEMMA ScanConfigBase ==
  ASSUME BaseInv, ScanConfig
  PROVE  BaseInv'
<1>1. TypeOK /\ ShapeInv /\ FreshInv
  BY DEF BaseInv
<1>2. PICK f \in Redis!Counts(window) : Collected(f)
  BY DEF ScanConfig
<1>3. /\ pc = "config" /\ pc' = "appl" /\ window' = Redis!Opened(Present("appl"))
      /\ UNCHANGED <<db, changes, kind, config, rows, byGroup, keys, index, configData, out,
                     processedMembers, changed, seen, repeated>>
  BY DEF ScanConfig, outside, history
<1>4. /\ window \in [throughout : SUBSET Groups, ever : SUBSET Groups]
      /\ names \subseteq Groups \ {NoName} /\ skipped \in Nat
  BY <1>1, <1>3, TypeFacts
<1>5. names' \subseteq Groups \ {NoName} /\ skipped' \in Nat /\ names \subseteq names'
  BY <1>2, <1>4, CollectedFacts
<1>6. window' \in [throughout : SUBSET Groups, ever : SUBSET Groups]
  BY <1>3, WindowFacts
<1>7. TypeOK'
  BY <1>1, <1>3, <1>5, <1>6 DEF TypeOK
<1> QED
  BY <1>1, <1>3, <1>7 DEF BaseInv, ShapeInv, FreshInv, PositionInv, KeysInv, Read, Walk

LEMMA ScanApplBase ==
  ASSUME BaseInv, ScanAppl
  PROVE  BaseInv'
<1>1. TypeOK /\ ShapeInv /\ FreshInv
  BY DEF BaseInv
<1>2. PICK f \in Redis!Counts(window) : Collected(f)
  BY DEF ScanAppl
<1>3. /\ pc = "appl" /\ pc' = "member" /\ window' = Redis!Opened(Present("member"))
      /\ UNCHANGED <<db, changes, kind, config, rows, byGroup, keys, index, configData, out,
                     processedMembers, changed, seen, repeated>>
  BY DEF ScanAppl, outside, history
<1>4. /\ window \in [throughout : SUBSET Groups, ever : SUBSET Groups]
      /\ names \subseteq Groups \ {NoName} /\ skipped \in Nat
  BY <1>1, <1>3, TypeFacts
<1>5. names' \subseteq Groups \ {NoName} /\ skipped' \in Nat /\ names \subseteq names'
  BY <1>2, <1>4, CollectedFacts
<1>6. window' \in [throughout : SUBSET Members, ever : SUBSET Members]
  BY <1>3, WindowFacts
<1>7. TypeOK'
  BY <1>1, <1>3, <1>5, <1>6 DEF TypeOK
<1> QED
  BY <1>1, <1>3, <1>7 DEF BaseInv, ShapeInv, FreshInv, PositionInv, KeysInv, Read, Walk

LEMMA ScanMembersBase ==
  ASSUME BaseInv, ScanMembers
  PROVE  BaseInv'
<1>1. TypeOK /\ ShapeInv /\ FreshInv
  BY DEF BaseInv
<1>2. PICK f \in Redis!Counts(window) :
        rows' = f /\ repeated' = \E m \in DOMAIN f : f[m] > 1
  BY DEF ScanMembers
<1>3. /\ pc = "member" /\ pc' = "rows" /\ window' = Redis!Opened({})
      /\ UNCHANGED <<db, changes, kind, config, names, byGroup, keys, index, configData, out,
                     processedMembers, skipped, changed, seen>>
  BY DEF ScanMembers, outside, result
<1>4. repeated' \in BOOLEAN
  BY <1>2, Zenon
<1>5. rows' \in RowTypes
  <2>1. window.ever \subseteq Members
    BY <1>1, <1>3, TypeFacts
  <2>2. f \in [window.ever -> 0 .. Repeats + 1]
    BY <1>2, CountFacts
  <2> QED
    BY <1>2, <2>1, <2>2 DEF RowTypes
<1>6. window' \in [throughout : SUBSET Groups, ever : SUBSET Groups]
  BY <1>3, WindowFacts
<1>7. TypeOK'
  BY <1>1, <1>3, <1>4, <1>5, <1>6 DEF TypeOK, RowTypes
<1> QED
  BY <1>1, <1>3, <1>7 DEF BaseInv, ShapeInv, FreshInv, PositionInv, KeysInv, Read, Walk

\* An entry takes its place in the slice of its group.
LEMMA AppendFacts ==
  ASSUME byGroup \in [Groups -> Seq(Members \X Labels)], NEW g \in Groups,
         NEW e \in Members \X Labels, AppendEntry(g, e)
  PROVE  /\ byGroup' \in [Groups -> Seq(Members \X Labels)]
         /\ \A h \in Groups : h # g => byGroup'[h] = byGroup[h]
         /\ Len(byGroup'[g]) = Len(byGroup[g]) + 1
         /\ \E i \in 1 .. Len(byGroup[g]) + 1 :
              \A j \in 1 .. Len(byGroup[g]) + 1 :
                byGroup'[g][j] = IF j < i THEN byGroup[g][j]
                                 ELSE IF j = i THEN e ELSE byGroup[g][j - 1]
<1>1. PICK i \in 1 .. Len(byGroup[g]) + 1 :
        byGroup' = [byGroup EXCEPT ![g] = InsertAt(@, i, e)]
  BY DEF AppendEntry
<1>2. byGroup[g] \in Seq(Members \X Labels)
  OBVIOUS
<1> DEFINE S == Members \X Labels
           s == byGroup[g]
<1>5. s \in Seq(S) /\ e \in S /\ i \in 1 .. Len(s) + 1
  BY <1>2
<1> HIDE DEF S, s
<1>6. /\ InsertAt(s, i, e) \in Seq(S) /\ Len(InsertAt(s, i, e)) = Len(s) + 1
      /\ \A j \in 1 .. Len(s) + 1 :
           InsertAt(s, i, e)[j] = IF j < i THEN s[j] ELSE IF j = i THEN e ELSE s[j - 1]
  BY <1>5, InsertFacts
<1>3. /\ InsertAt(byGroup[g], i, e) \in Seq(Members \X Labels)
      /\ Len(InsertAt(byGroup[g], i, e)) = Len(byGroup[g]) + 1
      /\ \A j \in 1 .. Len(byGroup[g]) + 1 :
           InsertAt(byGroup[g], i, e)[j] = IF j < i THEN byGroup[g][j]
                                           ELSE IF j = i THEN e ELSE byGroup[g][j - 1]
  BY <1>6 DEF S, s
<1>4. /\ byGroup'[g] = InsertAt(byGroup[g], i, e)
      /\ \A h \in Groups : h # g => byGroup'[h] = byGroup[h]
      /\ byGroup' \in [Groups -> Seq(Members \X Labels)]
  BY <1>1, <1>3
<1> QED
  BY <1>1, <1>3, <1>4

\* The entry of a row that is read.
LEMMA NewEntryFacts ==
  ASSUME NEW m \in Members, NEW x
  PROVE  m[1] \in Groups /\ <<m, ModeOf(x)>> \in Members \X Labels
BY NameFacts, LabelFacts

LEMMA ReadMemberBase ==
  ASSUME BaseInv, NEW m \in Members, ReadMember(m)
  PROVE  BaseInv'
<1>1. TypeOK /\ ShapeInv /\ FreshInv
  BY DEF BaseInv
<1>2. /\ pc = "rows" /\ m \in DOMAIN rows /\ rows[m] > 0
      /\ rows' = [rows EXCEPT ![m] = @ - 1]
      /\ UNCHANGED <<db, changes, kind, config, pc, window, names, keys, index, configData, out,
                     processedMembers, changed, seen, repeated>>
  BY DEF ReadMember, outside, history
<1>3. rows' \in RowTypes
  <2>1. rows \in RowTypes
    BY <1>1, TypeFacts
  <2>2. /\ DOMAIN rows \in SUBSET Members /\ rows[m] \in 0 .. Repeats + 1
        /\ rows \in [DOMAIN rows -> 0 .. Repeats + 1]
    BY <1>2, <2>1, RowTypeFacts
  <2>3. rows[m] - 1 \in 0 .. Repeats + 1
    BY <1>2, <2>2, BoundsAssumption
  <2>4. rows' \in [DOMAIN rows -> 0 .. Repeats + 1]
    BY <1>2, <2>2, <2>3
  <2> QED
    BY <2>2, <2>4, RowTypeFacts
<1>4. byGroup' \in [Groups -> Seq(Members \X Labels)] /\ skipped' \in Nat
  <2>1. byGroup \in [Groups -> Seq(Members \X Labels)] /\ skipped \in Nat
    BY <1>1 DEF TypeOK
  <2>2. CASE m[1] = NoName
    BY <2>1, <2>2 DEF ReadMember
  <2>3. CASE m[1] # NoName
    <3>1. AppendEntry(m[1], <<m, ModeOf(db.member[m])>>) /\ UNCHANGED skipped
      BY <2>3 DEF ReadMember
    <3> QED
      BY <2>1, <3>1, NewEntryFacts, AppendFacts
  <2> QED
    BY <2>2, <2>3
<1>5. TypeOK'
  BY <1>1, <1>2, <1>3, <1>4 DEF TypeOK, RowTypes
<1> QED
  BY <1>1, <1>2, <1>5 DEF BaseInv, ShapeInv, FreshInv, PositionInv, KeysInv, Read, Walk

LEMMA MembersReadBase ==
  ASSUME BaseInv, MembersRead
  PROVE  BaseInv'
<1>1. TypeOK /\ ShapeInv /\ FreshInv
  BY DEF BaseInv
<1>2. PICK s \in Redis!Ascending(names) : keys' = s
  BY DEF MembersRead
<1>3. /\ pc = "rows" /\ pc' = "group" /\ rows' = <<>> /\ index' = 1
      /\ UNCHANGED <<db, changes, kind, config, window, names, byGroup, configData, out,
                     processedMembers, skipped, changed, seen, repeated>>
  BY DEF MembersRead, outside, result, history
<1>4. names \in SUBSET Groups
  BY <1>1, TypeFacts
<1>5. /\ keys' \in Seq(Groups)
      /\ \A i, j \in 1 .. Len(keys') : keys'[i] = keys'[j] => i = j
      /\ {keys'[i] : i \in 1 .. Len(keys')} = names
  BY <1>2, <1>4, AscendingFacts
<1>6. index' \in 1 .. Len(keys') + 1
  BY <1>3, <1>5
<1>7. rows' \in RowTypes
  BY <1>3, RowTypeFacts
<1>8. TypeOK'
  BY <1>1, <1>3, <1>5, <1>6, <1>7 DEF TypeOK, RowTypes
<1> QED
  BY <1>1, <1>3, <1>5, <1>8 DEF BaseInv, ShapeInv, FreshInv, PositionInv, KeysInv, Read, Walk

LEMMA SkipGroupBase ==
  ASSUME BaseInv, SkipGroup
  PROVE  BaseInv'
<1>1. TypeOK /\ ShapeInv /\ FreshInv /\ KeysInv
  BY DEF BaseInv
<1>2. /\ pc = "group" /\ index <= Len(keys) /\ index' = index + 1 /\ skipped' = skipped + 1
      /\ UNCHANGED <<db, changes, kind, config, pc, window, names, rows, byGroup, keys,
                     configData, out, processedMembers, changed, seen, repeated>>
  BY DEF SkipGroup, Visit, outside, history
<1>3. index' \in 1 .. Len(keys) + 1 /\ skipped' \in Nat
  BY <1>1, <1>2 DEF TypeOK
<1>4. TypeOK'
  BY <1>1, <1>2, <1>3 DEF TypeOK
<1> QED
  BY <1>1, <1>2, <1>4 DEF BaseInv, ShapeInv, FreshInv, PositionInv, KeysInv, Read, Walk

LEMMA ReadConfigBase ==
  ASSUME BaseInv, ReadConfig
  PROVE  BaseInv'
<1>1. TypeOK /\ ShapeInv /\ FreshInv /\ KeysInv
  BY DEF BaseInv
<1>2. /\ pc = "group" /\ pc' = "groupAppl" /\ index <= Len(keys)
      /\ configData' = db.config[keys[index]]
      /\ UNCHANGED <<db, changes, kind, config, window, names, rows, byGroup, keys, index, out,
                     processedMembers, skipped, changed, seen, repeated>>
  BY DEF ReadConfig, Visit, outside, result, history
<1>3. configData' \in Contents.config
  <2>1. keys[index] \in Groups
    BY <1>1, <1>2 DEF TypeOK
  <2>2. db["config"] \in [Groups -> Contents["config"]]
    BY <1>1, TypeFacts, TableFacts
  <2> QED
    BY <1>2, <2>1, <2>2, TableFacts
<1>4. TypeOK'
  BY <1>1, <1>2, <1>3 DEF TypeOK
<1> QED
  BY <1>1, <1>2, <1>4 DEF BaseInv, ShapeInv, FreshInv, PositionInv, KeysInv, Read, Walk

\* The series of the group at hand, with n of its members.
LEMMA ReadApplFacts ==
  ASSUME BaseInv, ReadAppl
  PROVE  /\ pc = "groupAppl" /\ pc' = "group" /\ index <= Len(keys) /\ index' = index + 1
         /\ keys[index] \in Groups /\ keys[index] \in names
         /\ byGroup[keys[index]] \in Seq(Members \X Labels)
         /\ \E n \in Nat :
              /\ n = IF Len(byGroup[keys[index]]) <= Room THEN Len(byGroup[keys[index]]) ELSE Room
              /\ n <= Len(byGroup[keys[index]]) /\ processedMembers + n <= config.maxMembers
              /\ out'.info = out.info \cup {keys[index]}
              /\ out'.admin = [out.admin EXCEPT ![keys[index]] =
                                 AdminStatus(configData, db.appl[keys[index]])]
              /\ out'.members = [x \in Members \X Labels |->
                   out.members[x] + Cardinality({i \in 1 .. n : byGroup[keys[index]][i] = x})]
              /\ out'.gauge = [out.gauge EXCEPT ![keys[index]] = n]
              /\ processedMembers' = processedMembers + n
              /\ skipped' = skipped + (Len(byGroup[keys[index]]) - n)
         /\ out' = [info |-> out'.info, admin |-> out'.admin, members |-> out'.members,
                    gauge |-> out'.gauge]
         /\ configData' = Absent
         /\ UNCHANGED <<db, changes, kind, config, window, names, rows, byGroup, keys,
                        changed, seen, repeated>>
<1>1. TypeOK /\ PositionInv /\ KeysInv
  BY DEF BaseInv
<1>2. /\ pc = "groupAppl" /\ pc' = "group" /\ index' = index + 1 /\ configData' = Absent
      /\ UNCHANGED <<db, changes, kind, config, window, names, rows, byGroup, keys,
                     changed, seen, repeated>>
  BY DEF ReadAppl, outside, history
<1>3. index \in 1 .. Len(keys) /\ index <= Len(keys)
  BY <1>1, <1>2 DEF PositionInv, TypeOK
<1>4. keys[index] \in Groups /\ keys[index] \in names
  BY <1>1, <1>2, <1>3 DEF KeysInv, TypeOK, Walk
<1>5. byGroup[keys[index]] \in Seq(Members \X Labels)
  BY <1>1, <1>4 DEF TypeOK
<1> DEFINE g == keys[index]
           mine == byGroup[g]
           n == IF Len(mine) <= Room THEN Len(mine) ELSE Room
<1>6. /\ out' = [info    |-> out.info \cup {g},
                 admin   |-> [out.admin EXCEPT ![g] = AdminStatus(configData, db.appl[g])],
                 members |-> [x \in Members \X Labels |->
                                out.members[x] + Cardinality({i \in 1 .. n : mine[i] = x})],
                 gauge   |-> [out.gauge EXCEPT ![g] = n]]
      /\ processedMembers' = processedMembers + n
      /\ skipped' = skipped + (Len(mine) - n)
  BY DEF ReadAppl
<1>7. n \in Nat /\ n <= Len(mine) /\ processedMembers + n <= config.maxMembers
  <2>1. /\ processedMembers \in Nat /\ processedMembers <= config.maxMembers
        /\ config.maxMembers \in Nat /\ Len(mine) \in Nat
    BY <1>1, <1>5, ConfigFacts DEF TypeOK
  <2> HIDE DEF mine
  <2> QED
    BY <2>1 DEF Room
<1>8. /\ out'.info = out.info \cup {g}
      /\ out'.admin = [out.admin EXCEPT ![g] = AdminStatus(configData, db.appl[g])]
      /\ out'.members = [x \in Members \X Labels |->
                           out.members[x] + Cardinality({i \in 1 .. n : mine[i] = x})]
      /\ out'.gauge = [out.gauge EXCEPT ![g] = n]
      /\ out' = [info |-> out'.info, admin |-> out'.admin, members |-> out'.members,
                 gauge |-> out'.gauge]
  <2> HIDE DEF g, mine, n
  <2> QED
    BY <1>6
<1> QED
  BY <1>2, <1>3, <1>4, <1>5, <1>6, <1>7, <1>8, Zenon

LEMMA AdminStatusType ==
  ASSUME NEW x, NEW y
  PROVE  AdminStatus(x, y) \in Statuses \cup {Blank}
BY DEF AdminStatus

LEMMA CopiesType ==
  ASSUME NEW n \in Nat, NEW s, NEW x
  PROVE  /\ IsFiniteSet(PlacesOf(s, n, x))
         /\ Cardinality(PlacesOf(s, n, x)) \in Nat
<1>1. IsFiniteSet(1 .. n)
  BY FS_Interval
<1>2. PlacesOf(s, n, x) \in SUBSET (1 .. n)
  BY DEF PlacesOf
<1> QED
  BY <1>1, <1>2, FS_Subset, FS_CardinalityType

LEMMA ReadApplBase ==
  ASSUME BaseInv, ReadAppl
  PROVE  BaseInv'
<1>1. TypeOK /\ ShapeInv /\ FreshInv /\ KeysInv
  BY DEF BaseInv
<1>2. /\ pc = "groupAppl" /\ pc' = "group" /\ index <= Len(keys) /\ index' = index + 1
      /\ keys[index] \in Groups /\ keys[index] \in names
      /\ byGroup[keys[index]] \in Seq(Members \X Labels)
      /\ out' = [info |-> out'.info, admin |-> out'.admin, members |-> out'.members,
                 gauge |-> out'.gauge]
      /\ configData' = Absent
      /\ UNCHANGED <<db, changes, kind, config, window, names, rows, byGroup, keys,
                     changed, seen, repeated>>
  BY ReadApplFacts
<1>3. PICK n \in Nat :
        /\ n <= Len(byGroup[keys[index]]) /\ processedMembers + n <= config.maxMembers
        /\ out'.info = out.info \cup {keys[index]}
        /\ out'.admin = [out.admin EXCEPT ![keys[index]] =
                           AdminStatus(configData, db.appl[keys[index]])]
        /\ out'.members = [x \in Members \X Labels |->
             out.members[x] + Cardinality({i \in 1 .. n : byGroup[keys[index]][i] = x})]
        /\ out'.gauge = [out.gauge EXCEPT ![keys[index]] = n]
        /\ processedMembers' = processedMembers + n
        /\ skipped' = skipped + (Len(byGroup[keys[index]]) - n)
  BY ReadApplFacts
<1>4. /\ processedMembers \in 0 .. config.maxMembers /\ config.maxMembers \in Nat
      /\ skipped \in Nat /\ index \in 1 .. Len(keys) + 1 /\ Len(keys) \in Nat
      /\ Len(byGroup[keys[index]]) \in Nat
  BY <1>1, <1>2, ConfigFacts DEF TypeOK
<1>5. /\ processedMembers' \in 0 .. config.maxMembers /\ n \in 0 .. config.maxMembers
      /\ skipped' \in Nat /\ index' \in 1 .. Len(keys) + 1
  BY <1>2, <1>3, <1>4
<1>6. /\ out'.info \subseteq names
      /\ out'.admin \in [Groups -> Statuses \cup {Blank}]
      /\ out'.members \in [Members \X Labels -> Nat]
      /\ out'.gauge \in [Groups -> 0 .. config.maxMembers]
  <2>1. /\ out.info \subseteq names
        /\ out.admin \in [Groups -> Statuses \cup {Blank}]
        /\ out.members \in [Members \X Labels -> Nat]
        /\ out.gauge \in [Groups -> 0 .. config.maxMembers]
    BY <1>1 DEF TypeOK
  <2>2. out'.info \subseteq names
    BY <1>2, <1>3, <2>1
  <2>3. out'.admin \in [Groups -> Statuses \cup {Blank}]
    BY <1>2, <1>3, <2>1, AdminStatusType
  <2>4. ASSUME NEW x \in Members \X Labels
        PROVE  out.members[x] + Cardinality({i \in 1 .. n : byGroup[keys[index]][i] = x}) \in Nat
    <3>1. out.members[x] \in Nat
      BY <2>1
    <3>2. Cardinality(PlacesOf(byGroup[keys[index]], n, x)) \in Nat
      BY CopiesType
    <3>3. out.members[x] + Cardinality(PlacesOf(byGroup[keys[index]], n, x)) \in Nat
      BY <3>1, <3>2
    <3> QED
      BY <3>3 DEF PlacesOf
  <2>5. out'.members \in [Members \X Labels -> Nat]
    BY <1>3, <2>4
  <2>6. out'.gauge \in [Groups -> 0 .. config.maxMembers]
    BY <1>2, <1>3, <1>5, <2>1
  <2> QED
    BY <2>2, <2>3, <2>5, <2>6
<1>7. Absent \in Contents.config
  BY TableFacts
<1>8. TypeOK'
  BY <1>1, <1>2, <1>5, <1>6, <1>7 DEF TypeOK
<1> QED
  BY <1>1, <1>2, <1>8 DEF BaseInv, ShapeInv, FreshInv, PositionInv, KeysInv, Read, Walk

LEMMA FinishBase ==
  ASSUME BaseInv, Finish
  PROVE  BaseInv'
<1>1. TypeOK /\ ShapeInv /\ FreshInv /\ KeysInv
  BY DEF BaseInv
<1>2. /\ pc = "group" /\ pc' = "done" /\ index > Len(keys)
      /\ UNCHANGED <<outside, locals, result, history>>
  BY DEF Finish
<1>3. TypeOK'
  BY <1>1, <1>2 DEF TypeOK, outside, locals, result, history
<1> QED
  BY <1>1, <1>2, <1>3 DEF BaseInv, ShapeInv, FreshInv, PositionInv, KeysInv, Read, Walk,
                          outside, locals, result, history

LEMMA FailReturnBase ==
  ASSUME BaseInv, Fail \/ Return
  PROVE  BaseInv'
<1>1. /\ Clear /\ UNCHANGED outside /\ pc' \in {"config", "failed"}
      /\ window' \in {Redis!Opened({}), Redis!Opened(Present("config"))}
  BY DEF Fail, Return
<1> QED
  BY <1>1, WindowFacts, ClearBase

LEMMA BaseStep == BaseInv /\ [Next]_vars => BaseInv'
<1> SUFFICES ASSUME BaseInv, [Next]_vars PROVE BaseInv'
  OBVIOUS
<1>1. CASE UNCHANGED vars
  BY <1>1 DEF vars, outside, locals, result, history, BaseInv, TypeOK, ShapeInv, FreshInv,
              PositionInv, KeysInv
<1>2. CASE ScanConfig
  BY <1>2, ScanConfigBase
<1>3. CASE ScanAppl
  BY <1>3, ScanApplBase
<1>4. CASE ScanMembers
  BY <1>4, ScanMembersBase
<1>5. CASE MembersRead
  BY <1>5, MembersReadBase
<1>6. CASE \E m \in Members : ReadMember(m)
  BY <1>6, ReadMemberBase
<1>7. CASE SkipGroup
  BY <1>7, SkipGroupBase
<1>8. CASE ReadConfig
  BY <1>8, ReadConfigBase
<1>9. CASE ReadAppl
  BY <1>9, ReadApplBase
<1>10. CASE Finish
  BY <1>10, FinishBase
<1>11. CASE Fail \/ Return
  BY <1>11, FailReturnBase
<1>12. CASE \E t \in Tables : \E r \in RowsOf[t] : Change(t, r)
  BY <1>12, ChangeBase
<1> QED
  BY <1>1, <1>2, <1>3, <1>4, <1>5, <1>6, <1>7, <1>8, <1>9, <1>10, <1>11, <1>12 DEF Next

-----------------------------------------------------------------------------
(* What was seen of the tables, and the SCANs.                             *)

\* A change takes nothing from what was seen, and a row that stays is as it was.
LEMMA ChangeKeeps ==
  ASSUME BaseInv, NEW t \in Tables, NEW r \in RowsOf[t], Change(t, r)
  PROVE  /\ \A u \in Tables : \A q : WasThere(u, q) => WasThere(u, q)'
         /\ \A u \in Tables : seen[u] \subseteq seen'[u]
         /\ \A u \in Tables : \A q \in RowsOf[u] : <<q, db'[u][q]>> \in seen'[u]
         /\ \A u \in Tables : \A q \in RowsOf[u] : db'[u][q] # Absent => WasThere(u, q)'
         /\ \A u \in Tables : \A q \in RowsOf[u] :
              q \notin changed'[u] => q \notin changed[u] /\ db'[u][q] = db[u][q]
<1>1. TypeOK /\ ShapeInv
  BY DEF BaseInv
<1>2. /\ \A u \in Tables : db'[u] \in [RowsOf[u] -> Contents[u]]
      /\ \A u \in Tables : \A q \in RowsOf[u] : u # t \/ q # r => db'[u][q] = db[u][q]
      /\ \A u \in Tables : changed'[u] = IF u = t THEN changed[u] \cup {r} ELSE changed[u]
      /\ \A u \in Tables : seen[u] \subseteq seen'[u]
      /\ \A u \in Tables : \A q \in RowsOf[u] : <<q, db'[u][q]>> \in seen'[u]
  BY <1>1, ChangeFacts
<1>3. \A u \in Tables : \A q : WasThere(u, q) => WasThere(u, q)'
  BY <1>2 DEF WasThere
<1>4. ASSUME NEW u \in Tables, NEW q \in RowsOf[u], db'[u][q] # Absent
      PROVE  WasThere(u, q)'
  <2>1. db'[u][q] \in Contents[u] \ {Absent}
    BY <1>2, <1>4
  <2> QED
    BY <1>2, <2>1 DEF WasThere
<1>5. ASSUME NEW u \in Tables, NEW q \in RowsOf[u], q \notin changed'[u]
      PROVE  q \notin changed[u] /\ db'[u][q] = db[u][q]
  BY <1>2, <1>5
<1> QED
  BY <1>2, <1>3, <1>4, <1>5

\* What the other steps leave alone.
LEMMA StepKinds ==
  ASSUME [Next]_vars
  PROVE  \/ UNCHANGED <<db, kind, config, changed, seen>>
         \/ /\ Clear /\ UNCHANGED <<db, kind, config>>
            /\ pc' = "failed" \/ (pc' = "config" /\ window' = Redis!Opened(Present("config")))
         \/ \E t \in Tables : \E r \in RowsOf[t] : Change(t, r)
<1>1. CASE UNCHANGED vars
  BY <1>1 DEF vars, outside, history
<1>2. CASE ScanConfig \/ ScanAppl \/ ScanMembers \/ MembersRead
  BY <1>2 DEF ScanConfig, ScanAppl, ScanMembers, MembersRead, outside, history
<1>3. CASE \E m \in Members : ReadMember(m)
  BY <1>3 DEF ReadMember, outside, history
<1>4. CASE SkipGroup \/ ReadConfig \/ ReadAppl \/ Finish
  BY <1>4 DEF SkipGroup, ReadConfig, ReadAppl, Finish, outside, history
<1>5. CASE Fail \/ Return
  BY <1>5 DEF Fail, Return, outside
<1> QED
  BY <1>1, <1>2, <1>3, <1>4, <1>5 DEF Next

LEMMA HeldFacts ==
  \A t \in Tables : \A r \in RowsOf[t] : <<r, db[t][r]>> \in Held(db)[t]
BY DEF Held

LEMMA SeenStep ==
  ASSUME BaseInv, SeenInv, [Next]_vars
  PROVE  SeenInv'
<1>1. CASE UNCHANGED <<db, kind, config, changed, seen>>
  BY <1>1 DEF SeenInv
<1>2. CASE Clear /\ UNCHANGED <<db, kind, config>>
  BY <1>2, HeldFacts DEF SeenInv, Clear
<1>3. CASE \E t \in Tables : \E r \in RowsOf[t] : Change(t, r)
  BY <1>3, ChangeKeeps DEF SeenInv
<1> QED
  BY <1>1, <1>2, <1>3, StepKinds

\* The keys that are there when a SCAN begins were there.
LEMMA PresentWasThere ==
  ASSUME BaseInv, SeenInv, NEW t \in Tables, NEW r \in Present(t)
  PROVE  WasThere(t, r)
<1>1. r \in RowsOf[t] /\ db[t][r] # Absent
  BY DEF Present
<1>2. db[t][r] \in Contents[t] \ {Absent} /\ <<r, db[t][r]>> \in seen[t]
  BY <1>1, TypeFacts DEF SeenInv, BaseInv
<1> QED
  BY <1>2 DEF WasThere

\* The same in the next state.
LEMMA PresentWasThereNext ==
  ASSUME BaseInv', SeenInv', NEW t \in Tables, NEW r \in Present(t)'
  PROVE  WasThere(t, r)'
<1>1. r \in RowsOf[t] /\ db'[t][r] # Absent
  BY DEF Present
<1>2. \A u \in Tables : db'[u] \in [RowsOf[u] -> Contents[u]]
  BY DEF BaseInv, TypeOK
<1>3. db'[t][r] \in Contents[t] \ {Absent} /\ <<r, db'[t][r]>> \in seen'[t]
  BY <1>1, <1>2 DEF SeenInv
<1> QED
  BY <1>3 DEF WasThere

\* A SCAN that begins.
LEMMA OpenedWindow ==
  ASSUME BaseInv', SeenInv', NEW t \in Tables, pc' = t,
         window' = Redis!Opened(Present(t))', UNCHANGED db
  PROVE  WindowInv'
<1>1. window'.throughout = Present(t)' /\ window'.ever = Present(t)'
  BY DEF Redis!Opened
<1>2. \A r \in Present(t)' : WasThere(t, r)'
  BY PresentWasThereNext
<1>3. SUFFICES /\ window'.throughout \subseteq window'.ever
               /\ \A r \in window'.ever : WasThere(t, r)'
               /\ \A r \in Present(t)' : r \in window'.throughout
  BY DEF WindowInv, WasThere, Present
<1> QED
  BY <1>1, <1>2

LEMMA WindowStep ==
  ASSUME BaseInv, BaseInv', SeenInv, SeenInv', WindowInv, [Next]_vars
  PROVE  WindowInv'
<1>1. CASE UNCHANGED <<pc, window, db, changed, seen>>
  BY <1>1 DEF WindowInv, WasThere, IsStable, Present
<1>2. CASE pc' \notin Scans
  BY <1>2 DEF WindowInv
<1>3. CASE ScanConfig
  <2>1. pc' = "appl" /\ window' = Redis!Opened(Present("appl")) /\ UNCHANGED db
    BY <1>3 DEF ScanConfig, outside
  <2>2. window' = Redis!Opened(Present("appl"))'
    BY <2>1 DEF Redis!Opened, Present
  <2> QED
    BY <2>1, <2>2, OpenedWindow, TableFacts
<1>4. CASE ScanAppl
  <2>1. pc' = "member" /\ window' = Redis!Opened(Present("member")) /\ UNCHANGED db
    BY <1>4 DEF ScanAppl, outside
  <2>2. window' = Redis!Opened(Present("member"))'
    BY <2>1 DEF Redis!Opened, Present
  <2> QED
    BY <2>1, <2>2, OpenedWindow, TableFacts
<1>5. CASE Return
  <2>1. pc' = "config" /\ window' = Redis!Opened(Present("config")) /\ UNCHANGED db
    BY <1>5 DEF Return, outside
  <2>2. window' = Redis!Opened(Present("config"))'
    BY <2>1 DEF Redis!Opened, Present
  <2> QED
    BY <2>1, <2>2, OpenedWindow, TableFacts
<1>6. ASSUME NEW t \in Tables, NEW r \in RowsOf[t], Change(t, r), pc \in Scans
      PROVE  WindowInv'
  <2>1. PICK p \in Tables : p = pc
    BY <1>6, TableFacts DEF Scans
  <2>2. /\ \A u \in Tables : \A q : WasThere(u, q) => WasThere(u, q)'
        /\ \A u \in Tables : \A q \in RowsOf[u] : db'[u][q] # Absent => WasThere(u, q)'
        /\ \A u \in Tables : \A q \in RowsOf[u] :
             q \notin changed'[u] => q \notin changed[u] /\ db'[u][q] = db[u][q]
    BY <1>6, ChangeKeeps
  <2>3. /\ window' = IF t = pc THEN Redis!Noted(window, r, db'[t][r] # Absent) ELSE window
        /\ changed'[t] = changed[t] \cup {r}
        /\ pc' = pc
    BY <1>6, ChangeFacts DEF BaseInv
  <2>4. /\ window.throughout \subseteq window.ever
        /\ \A q \in window.ever : WasThere(p, q)
        /\ \A q \in Present(p) : q \notin changed[p] => q \in window.throughout
    BY <1>6, <2>1 DEF WindowInv, IsStable
  <2>5. window \in [throughout : SUBSET RowsOf[p], ever : SUBSET RowsOf[p]]
    BY <1>6, <2>1, TypeFacts, TableFacts DEF BaseInv, Scans
  <2>6. /\ window'.throughout \subseteq window'.ever
        /\ \A q \in window'.ever : WasThere(p, q)'
        /\ \A q \in RowsOf[p] : db'[p][q] # Absent /\ q \notin changed'[p] => q \in window'.throughout
    <3>1. \A q \in RowsOf[p] : db'[p][q] # Absent /\ q \notin changed'[p] => q \in window.throughout
      BY <2>2, <2>4 DEF Present
    <3>2. CASE t # p
      BY <2>1, <2>2, <2>3, <2>4, <3>1, <3>2
    <3>3. CASE t = p /\ db'[t][r] # Absent
      <4>1. window'.throughout = window.throughout /\ window'.ever = window.ever \cup {r}
        BY <2>1, <2>3, <2>5, <3>3 DEF Redis!Noted
      <4>2. WasThere(p, r)'
        BY <2>2, <3>3
      <4> QED
        BY <2>2, <2>4, <3>1, <4>1, <4>2
    <3>4. CASE t = p /\ ~(db'[t][r] # Absent)
      <4>1. window'.throughout = window.throughout \ {r} /\ window'.ever = window.ever
        BY <2>1, <2>3, <2>5, <3>4 DEF Redis!Noted
      <4>2. r \in changed'[p]
        BY <2>3, <3>4
      <4> QED
        BY <2>2, <2>4, <3>1, <4>1, <4>2
    <3> QED
      BY <3>2, <3>3, <3>4
  <2>7. pc' = p
    BY <2>1, <2>3
  <2>8. SUFFICES /\ window'.throughout \subseteq window'.ever
                 /\ \A q \in window'.ever : WasThere(p, q)'
                 /\ \A q \in RowsOf[p] :
                      db'[p][q] # Absent /\ q \notin changed'[p] => q \in window'.throughout
    BY <2>7 DEF WindowInv, WasThere, Present, IsStable
  <2> QED
    BY <2>6
<1>7. CASE UNCHANGED vars
  BY <1>1, <1>7 DEF vars, outside, locals, history
<1>8. CASE ScanMembers \/ MembersRead \/ SkipGroup \/ ReadConfig \/ ReadAppl \/ Finish \/ Fail
  BY <1>2, <1>8 DEF ScanMembers, MembersRead, SkipGroup, Visit, ReadConfig, ReadAppl, Finish,
                    Fail, Scans
<1>9. CASE \E m \in Members : ReadMember(m)
  BY <1>2, <1>9 DEF ReadMember, Scans
<1>10. ASSUME NEW t \in Tables, NEW r \in RowsOf[t], Change(t, r), pc \notin Scans
       PROVE  WindowInv'
  <2>1. pc' = pc
    BY <1>10 DEF Change
  <2> QED
    BY <1>2, <1>10, <2>1
<1> QED
  BY <1>3, <1>4, <1>5, <1>6, <1>7, <1>8, <1>9, <1>10 DEF Next

-----------------------------------------------------------------------------
(* The names of the groups.                                                *)

LEMMA NamesStep ==
  ASSUME BaseInv, SeenInv, WindowInv, NamesInv, [Next]_vars
  PROVE  NamesInv'
<1>1. CASE ScanConfig
  <2>1. /\ pc = "config" /\ pc' = "appl"
        /\ UNCHANGED <<db, changed, seen>>
    BY <1>1 DEF ScanConfig, outside, history
  <2>2. PICK f \in Redis!Counts(window) : Collected(f)
    BY <1>1 DEF ScanConfig
  <2>3. /\ window \in [throughout : SUBSET Groups, ever : SUBSET Groups]
        /\ names \subseteq Groups \ {NoName} /\ skipped \in Nat
    BY <2>1, TypeFacts DEF BaseInv
  <2>4. /\ window.throughout \subseteq window.ever
        /\ \A r \in window.ever : WasThere("config", r)
        /\ \A r \in Present("config") : IsStable("config", r) => r \in window.throughout
    BY <2>1 DEF WindowInv, Scans
  <2>5. /\ names' \subseteq names \cup window.ever
        /\ window.throughout \ {NoName} \subseteq names'
    BY <2>2, <2>3, <2>4, CollectedFacts
  <2>6. \A g \in names' : \E t \in {"config", "appl"} : WasThere(t, g)
    BY <2>4, <2>5 DEF NamesInv
  <2>7. \A g \in Present("config") \ {NoName} : IsStable("config", g) => g \in names'
    BY <2>4, <2>5
  <2> QED
    BY <2>1, <2>6, <2>7 DEF NamesInv, WasThere, IsStable, Present, Read, Walk
<1>2. CASE ScanAppl
  <2>1. /\ pc = "appl" /\ pc' = "member"
        /\ UNCHANGED <<db, changed, seen>>
    BY <1>2 DEF ScanAppl, outside, history
  <2>2. PICK f \in Redis!Counts(window) : Collected(f)
    BY <1>2 DEF ScanAppl
  <2>3. /\ window \in [throughout : SUBSET Groups, ever : SUBSET Groups]
        /\ names \subseteq Groups \ {NoName} /\ skipped \in Nat
    BY <2>1, TypeFacts DEF BaseInv
  <2>4. /\ window.throughout \subseteq window.ever
        /\ \A r \in window.ever : WasThere("appl", r)
        /\ \A r \in Present("appl") : IsStable("appl", r) => r \in window.throughout
    BY <2>1 DEF WindowInv, Scans
  <2>5. /\ names' \subseteq names \cup window.ever /\ names \subseteq names'
        /\ window.throughout \ {NoName} \subseteq names'
    BY <2>2, <2>3, <2>4, CollectedFacts
  <2>6. \A g \in names' : \E t \in {"config", "appl"} : WasThere(t, g)
    BY <2>4, <2>5 DEF NamesInv
  <2>7. \A g \in Present("config") \ {NoName} : IsStable("config", g) => g \in names'
    BY <2>1, <2>5 DEF NamesInv
  <2>8. \A g \in Present("appl") \ {NoName} : IsStable("appl", g) => g \in names'
    BY <2>4, <2>5
  <2> QED
    BY <2>1, <2>6, <2>7, <2>8 DEF NamesInv, WasThere, IsStable, Present, Read, Walk
<1>3. CASE Fail \/ Return
  <2>1. names' = {} /\ pc' \in {"failed", "config"}
    BY <1>3 DEF Fail, Return, Clear
  <2> QED
    BY <2>1 DEF NamesInv, Read, Walk
<1>4. ASSUME NEW t \in Tables, NEW r \in RowsOf[t], Change(t, r)
      PROVE  NamesInv'
  <2>1. /\ \A u \in Tables : \A q : WasThere(u, q) => WasThere(u, q)'
        /\ \A u \in Tables : \A q \in RowsOf[u] :
             q \notin changed'[u] => q \notin changed[u] /\ db'[u][q] = db[u][q]
    BY <1>4, ChangeKeeps
  <2>2. pc' = pc /\ names' = names
    BY <1>4 DEF Change
  <2>3. \A g \in names : \E u \in {"config", "appl"} : WasThere(u, g)'
    BY <2>1, TableFacts DEF NamesInv
  <2>4. \A u \in {"config", "appl"} : \A g \in Present(u)' :
          IsStable(u, g)' => g \in Present(u) /\ IsStable(u, g)
    BY <2>1, TableFacts DEF Present, IsStable
  <2> QED
    BY <2>2, <2>3, <2>4 DEF NamesInv
<1>5. CASE /\ UNCHANGED <<db, changed, seen, names>>
           /\ pc' = pc \/ pc \in {"member"} \cup Read
  BY <1>5 DEF NamesInv, WasThere, IsStable, Present
<1>6. CASE UNCHANGED vars
  BY <1>5, <1>6 DEF vars, outside, locals, history
<1>7. CASE ScanMembers \/ MembersRead
  BY <1>5, <1>7 DEF ScanMembers, MembersRead, outside, history, Read
<1>8. CASE SkipGroup \/ ReadConfig \/ ReadAppl \/ Finish
  BY <1>5, <1>8 DEF SkipGroup, Visit, ReadConfig, ReadAppl, Finish, outside, locals, history,
                    Read, Walk
<1>9. CASE \E m \in Members : ReadMember(m)
  BY <1>5, <1>9 DEF ReadMember, outside, history
<1> QED
  BY <1>1, <1>2, <1>3, <1>4, <1>6, <1>7, <1>8, <1>9 DEF Next

-----------------------------------------------------------------------------
(* The rows of the members and their entries.                              *)

\* The row that is read had what its entry says.
LEMMA ReadEntryHeld ==
  ASSUME BaseInv, SeenInv, NEW m \in Members, WasThere("member", m)
  PROVE  EntryHeld(<<m, ModeOf(db.member[m])>>)
<1>1. <<m, db.member[m]>> \in seen["member"]
  BY TableFacts DEF SeenInv
<1>2. db.member[m] \in Modes \cup {Absent, Blank}
  <2>1. db["member"] \in [Members -> Modes \cup {Absent, Blank}]
    BY TypeFacts, TableFacts DEF BaseInv
  <2> QED
    BY <2>1
<1>3. CASE db.member[m] \in Modes
  <2>1. ModeOf(db.member[m]) = db.member[m]
    BY <1>3 DEF ModeOf
  <2> QED
    BY <1>1, <1>3, <2>1 DEF EntryHeld
<1>4. CASE db.member[m] \notin Modes
  <2>1. ModeOf(db.member[m]) = Label /\ Label \notin Modes
    BY <1>4, LabelFacts DEF ModeOf
  <2>2. db.member[m] \in {Absent, Blank}
    BY <1>2, <1>4
  <2> QED
    BY <1>1, <2>1, <2>2 DEF EntryHeld
<1> QED
  BY <1>3, <1>4

\* r is s with e put in: each entry was there, or is e; each that was there still
\* is; and those of two places, neither that of e, were at two places.
Extended(s, r, e) ==
  \E i \in DOMAIN r :
    /\ r[i] = e
    /\ \A j \in DOMAIN r : j # i => \E k \in DOMAIN s : r[j] = s[k]
    /\ \A k \in DOMAIN s : \E j \in DOMAIN r : r[j] = s[k]
    /\ \A j, k \in DOMAIN r : j # i /\ k # i /\ j # k =>
         \E a, b \in DOMAIN s : a # b /\ r[j] = s[a] /\ r[k] = s[b]

LEMMA EntriesAfter ==
  ASSUME NEW S, NEW s \in Seq(S), NEW r \in Seq(S), NEW e, Len(r) = Len(s) + 1,
         NEW i \in 1 .. Len(s) + 1,
         \A j \in 1 .. Len(s) + 1 :
           r[j] = IF j < i THEN s[j] ELSE IF j = i THEN e ELSE s[j - 1]
  PROVE  Extended(s, r, e)
<1>1. DOMAIN s = 1 .. Len(s) /\ DOMAIN r = 1 .. Len(s) + 1 /\ Len(s) \in Nat
  OBVIOUS
<1>2. i \in DOMAIN r /\ r[i] = e
  BY <1>1
<1> DEFINE Old(j) == IF j < i THEN j ELSE j - 1
<1>3. \A j \in DOMAIN r : j # i => Old(j) \in DOMAIN s /\ r[j] = s[Old(j)]
  BY <1>1
<1>4. \A j, k \in DOMAIN r : j # i /\ k # i /\ j # k => Old(j) # Old(k)
  BY <1>1
<1>5. ASSUME NEW k \in DOMAIN s PROVE \E j \in DOMAIN r : r[j] = s[k]
  <2>1. CASE k < i
    <3>1. k \in DOMAIN r /\ r[k] = s[k]
      BY <1>1, <2>1
    <3> QED
      BY <3>1
  <2>2. CASE ~(k < i)
    <3>1. k + 1 \in DOMAIN r /\ r[k + 1] = s[k]
      BY <1>1, <2>2
    <3> QED
      BY <3>1
  <2> QED
    BY <2>1, <2>2
<1> HIDE DEF Old
<1> QED
  BY <1>1, <1>2, <1>3, <1>4, <1>5 DEF Extended

\* The entries after a row was read: the old ones and the new one.
LEMMA ReadMemberFacts ==
  ASSUME BaseInv, NEW m \in Members, ReadMember(m)
  PROVE  /\ pc = "rows" /\ pc' = "rows" /\ m \in DOMAIN rows /\ rows[m] > 0
         /\ rows \in RowTypes /\ rows' = [rows EXCEPT ![m] = @ - 1]
         /\ UNCHANGED <<db, kind, config, names, keys, index, configData, out, processedMembers,
                        changed, seen, repeated>>
         /\ m[1] \in Groups
         /\ m[1] = NoName => byGroup' = byGroup
         /\ m[1] # NoName =>
              /\ \A h \in Groups : h # m[1] => byGroup'[h] = byGroup[h]
              /\ Extended(byGroup[m[1]], byGroup'[m[1]], <<m, ModeOf(db.member[m])>>)
<1>1. /\ pc = "rows" /\ pc' = "rows" /\ m \in DOMAIN rows /\ rows[m] > 0
      /\ rows' = [rows EXCEPT ![m] = @ - 1]
      /\ UNCHANGED <<db, kind, config, names, keys, index, configData, out, processedMembers,
                     changed, seen, repeated>>
      /\ m[1] = NoName => byGroup' = byGroup
      /\ m[1] # NoName => AppendEntry(m[1], <<m, ModeOf(db.member[m])>>)
  BY DEF ReadMember, outside, history
<1>2. rows \in RowTypes /\ byGroup \in [Groups -> Seq(Members \X Labels)]
  BY TypeFacts DEF BaseInv
<1>3. m[1] \in Groups /\ <<m, ModeOf(db.member[m])>> \in Members \X Labels
  BY NewEntryFacts
<1>4. ASSUME m[1] # NoName
      PROVE  /\ \A h \in Groups : h # m[1] => byGroup'[h] = byGroup[h]
             /\ Extended(byGroup[m[1]], byGroup'[m[1]], <<m, ModeOf(db.member[m])>>)
  <2> DEFINE S == Members \X Labels
             e == <<m, ModeOf(db.member[m])>>
             g == m[1]
  <2>1. byGroup \in [Groups -> Seq(S)] /\ g \in Groups /\ e \in S /\ AppendEntry(g, e)
    BY <1>1, <1>2, <1>3, <1>4
  <2> HIDE DEF e, g
  <2>2. /\ byGroup' \in [Groups -> Seq(S)]
        /\ \A h \in Groups : h # g => byGroup'[h] = byGroup[h]
        /\ Len(byGroup'[g]) = Len(byGroup[g]) + 1
        /\ \E i \in 1 .. Len(byGroup[g]) + 1 :
             \A j \in 1 .. Len(byGroup[g]) + 1 :
               byGroup'[g][j] = IF j < i THEN byGroup[g][j]
                                ELSE IF j = i THEN e ELSE byGroup[g][j - 1]
    BY <2>1, AppendFacts
  <2> HIDE DEF S
  <2>3. byGroup[g] \in Seq(S) /\ byGroup'[g] \in Seq(S)
    BY <2>1, <2>2
  <2>4. Extended(byGroup[g], byGroup'[g], e)
    BY <2>2, <2>3, EntriesAfter
  <2> QED
    BY <2>2, <2>4 DEF e, g
<1> QED
  BY <1>1, <1>2, <1>3, <1>4

\* The steps that leave the rows and the entries alone.
Elsewhere ==
  ScanConfig \/ ScanAppl \/ SkipGroup \/ ReadConfig \/ ReadAppl \/ Finish \/ UNCHANGED vars

LEMMA ElsewhereFacts ==
  ASSUME Elsewhere
  PROVE  /\ UNCHANGED <<db, kind, config, rows, byGroup, keys, changed, seen, repeated>>
         /\ pc' \in Read => pc \in Read
         /\ pc' \in Walk => pc \in Walk
<1>1. CASE ScanConfig \/ ScanAppl
  BY <1>1 DEF ScanConfig, ScanAppl, outside, history, Read, Walk
<1>2. CASE SkipGroup \/ ReadConfig \/ ReadAppl \/ Finish
  BY <1>2 DEF SkipGroup, Visit, ReadConfig, ReadAppl, Finish, outside, locals, history, Read, Walk
<1>3. CASE UNCHANGED vars
  BY <1>3 DEF vars, outside, locals, history
<1> QED
  BY <1>1, <1>2, <1>3 DEF Elsewhere

LEMMA ClearFacts ==
  ASSUME Fail \/ Return
  PROVE  /\ names' = {} /\ rows' = <<>> /\ byGroup' = NoMembers /\ pc' \notin Read
         /\ pc' \notin Walk /\ seen' = Held(db) /\ UNCHANGED db
         /\ \A g \in Groups : byGroup'[g] = <<>> /\ DOMAIN byGroup'[g] = {}
BY DEF Fail, Return, Clear, Read, Walk, NoMembers, outside

LEMMA EntryStep ==
  ASSUME BaseInv, SeenInv, EntryInv, RowsInv, [Next]_vars
  PROVE  EntryInv'
<1>1. SUFFICES ASSUME NEW g \in Groups, NEW i \in DOMAIN byGroup'[g], NEW e, e = byGroup'[g][i]
               PROVE  e[1][1] = g /\ EntryHeld(e)'
  BY DEF EntryInv, EntryHeld, WasThere
<1>2. \A j \in DOMAIN byGroup[g] : byGroup[g][j][1][1] = g /\ EntryHeld(byGroup[g][j])
  BY DEF EntryInv
<1>3. CASE UNCHANGED <<seen, byGroup>>
  <2>1. i \in DOMAIN byGroup[g] /\ e = byGroup[g][i]
    BY <1>1, <1>3
  <2>2. e[1][1] = g /\ EntryHeld(e)
    BY <1>2, <2>1
  <2> QED
    BY <1>3, <2>2 DEF EntryHeld, WasThere
<1>4. CASE Fail \/ Return
  BY <1>4, ClearFacts
<1>5. ASSUME NEW t \in Tables, NEW r \in RowsOf[t], Change(t, r)
      PROVE  e[1][1] = g /\ EntryHeld(e)'
  <2>1. byGroup' = byGroup
    BY <1>5 DEF Change
  <2>2. i \in DOMAIN byGroup[g] /\ e = byGroup[g][i]
    BY <1>1, <2>1
  <2>3. e[1][1] = g /\ EntryHeld(e)
    BY <1>2, <2>2
  <2>4. seen["member"] \subseteq seen'["member"]
    BY <1>5, ChangeKeeps, TableFacts
  <2> QED
    BY <2>3, <2>4 DEF EntryHeld, WasThere
<1>6. ASSUME NEW m \in Members, ReadMember(m)
      PROVE  e[1][1] = g /\ EntryHeld(e)'
  <2>1. /\ pc = "rows" /\ m \in DOMAIN rows /\ UNCHANGED seen
        /\ m[1] = NoName => byGroup' = byGroup
    BY <1>6, ReadMemberFacts
  <2>2. CASE m[1] # g
    <3>1. byGroup'[g] = byGroup[g]
      BY <1>6, <2>1, <2>2, ReadMemberFacts
    <3>2. i \in DOMAIN byGroup[g] /\ e = byGroup[g][i]
      BY <1>1, <3>1
    <3>3. e[1][1] = g /\ EntryHeld(e)
      BY <1>2, <3>2
    <3> QED
      BY <2>1, <3>3 DEF EntryHeld, WasThere
  <2>3. CASE m[1] = NoName
    BY <1>3, <2>1, <2>3
  <2>4. CASE m[1] = g /\ m[1] # NoName
    <3> DEFINE n == <<m, ModeOf(db.member[m])>>
    <3>1. Extended(byGroup[g], byGroup'[g], n)
      BY <1>6, <2>4, ReadMemberFacts
    <3>2. n[1][1] = g /\ EntryHeld(n)
      <4>1. WasThere("member", m)
        BY <2>1 DEF RowsInv, Read
      <4>2. EntryHeld(n)
        BY <4>1, ReadEntryHeld
      <4> QED
        BY <2>4, <4>2
    <3> HIDE DEF n
    <3>3. e = n \/ \E j \in DOMAIN byGroup[g] : e = byGroup[g][j]
      BY <1>1, <3>1 DEF Extended
    <3>4. e[1][1] = g /\ EntryHeld(e)
      BY <1>2, <3>2, <3>3
    <3> QED
      BY <2>1, <3>4 DEF EntryHeld, WasThere
  <2> QED
    BY <2>2, <2>3, <2>4
<1>7. CASE Elsewhere
  BY <1>3, <1>7, ElsewhereFacts
<1>8. CASE ScanMembers \/ MembersRead
  BY <1>3, <1>8 DEF ScanMembers, MembersRead, history
<1> QED
  BY <1>4, <1>5, <1>6, <1>7, <1>8 DEF Next, Elsewhere

\* A row that stays has not changed in this step.
LEMMA StaysSame ==
  ASSUME BaseInv, NEW t \in Tables, NEW r \in RowsOf[t], Change(t, r),
         NEW m \in Members, m \in Present("member")', IsStable("member", m)'
  PROVE  m \in Present("member") /\ IsStable("member", m) /\ db'.member[m] = db.member[m]
BY ChangeKeeps, TableFacts DEF Present, IsStable

LEMMA RowsStep ==
  ASSUME BaseInv, SeenInv, WindowInv, RowsInv, [Next]_vars
  PROVE  RowsInv'
<1>1. CASE pc' \notin Read
  BY <1>1 DEF RowsInv
<1>2. CASE /\ UNCHANGED <<db, kind, rows, byGroup, changed, seen>>
           /\ pc' \in Read => pc \in Read
  BY <1>2 DEF RowsInv, WasThere, IsStable, Present, ModeOf, Label
<1>3. CASE ScanMembers
  <2>1. /\ pc = "member" /\ UNCHANGED <<db, kind, byGroup, changed, seen>>
    BY <1>3 DEF ScanMembers, outside
  <2>2. PICK f \in Redis!Counts(window) : rows' = f
    BY <1>3 DEF ScanMembers
  <2>3. /\ window.throughout \subseteq window.ever
        /\ \A r \in window.ever : WasThere("member", r)
        /\ \A r \in Present("member") : IsStable("member", r) => r \in window.throughout
    BY <2>1 DEF WindowInv, Scans
  <2>4. /\ f \in [window.ever -> 0 .. Repeats + 1]
        /\ \A k \in window.throughout : f[k] > 0
    BY <2>2, CountFacts
  <2>5. /\ \A m \in DOMAIN rows' : WasThere("member", m)
        /\ \A m \in Present("member") : IsStable("member", m) =>
             m \in DOMAIN rows' /\ rows'[m] > 0
    BY <2>2, <2>3, <2>4
  <2> QED
    BY <2>1, <2>5 DEF RowsInv, WasThere, IsStable, Present
<1>4. ASSUME NEW t \in Tables, NEW r \in RowsOf[t], Change(t, r), pc \in Read
      PROVE  RowsInv'
  <2>1. UNCHANGED <<kind, pc, rows, byGroup>>
    BY <1>4 DEF Change
  <2>2. /\ \A m \in DOMAIN rows : WasThere("member", m)
        /\ \A m \in Present("member") :
             IsStable("member", m) /\ m[1] # NoName =>
               \/ m \in DOMAIN rows /\ rows[m] > 0
               \/ \E i \in DOMAIN byGroup[m[1]] :
                    byGroup[m[1]][i] = <<m, ModeOf(db.member[m])>>
    BY <1>4 DEF RowsInv
  <2>3. \A m \in DOMAIN rows' : WasThere("member", m)'
    BY <1>4, <2>1, <2>2, ChangeKeeps, TableFacts
  <2>4. ASSUME NEW m \in Present("member")', IsStable("member", m)', m[1] # NoName
        PROVE  \/ m \in DOMAIN rows' /\ rows'[m] > 0
               \/ \E i \in DOMAIN byGroup'[m[1]] :
                    byGroup'[m[1]][i] = <<m, ModeOf(db.member[m])'>>
    <3>1. m \in Members
      BY TableFacts DEF Present
    <3>2. m \in Present("member") /\ IsStable("member", m) /\ db'.member[m] = db.member[m]
      BY <1>4, <2>4, <3>1, StaysSame
    <3>3. ModeOf(db.member[m])' = ModeOf(db.member[m])
      BY <2>1, <3>2 DEF ModeOf, Label
    <3> QED
      BY <2>1, <2>2, <2>4, <3>2, <3>3
  <2> QED
    BY <2>3, <2>4 DEF RowsInv, WasThere, ModeOf, Label
<1>5. ASSUME NEW m \in Members, ReadMember(m)
      PROVE  RowsInv'
  <2>1. /\ pc = "rows" /\ m \in DOMAIN rows /\ rows[m] > 0
        /\ rows \in RowTypes /\ rows' = [rows EXCEPT ![m] = @ - 1]
        /\ UNCHANGED <<db, kind, changed, seen>>
        /\ m[1] = NoName => byGroup' = byGroup
    BY <1>5, ReadMemberFacts
  <2>2. DOMAIN rows' = DOMAIN rows /\ \A q \in DOMAIN rows : q # m => rows'[q] = rows[q]
    BY <2>1, RowTypeFacts
  <2>3. /\ \A q \in DOMAIN rows : WasThere("member", q)
        /\ \A q \in Present("member") :
             IsStable("member", q) /\ q[1] # NoName =>
               \/ q \in DOMAIN rows /\ rows[q] > 0
               \/ \E i \in DOMAIN byGroup[q[1]] :
                    byGroup[q[1]][i] = <<q, ModeOf(db.member[q])>>
    BY <2>1 DEF RowsInv, Read
  <2>4. ASSUME NEW q \in Present("member"), IsStable("member", q), q[1] # NoName
        PROVE  \/ q \in DOMAIN rows' /\ rows'[q] > 0
               \/ \E i \in DOMAIN byGroup'[q[1]] :
                    byGroup'[q[1]][i] = <<q, ModeOf(db.member[q])>>
    <3> DEFINE g == q[1]
               x == <<q, ModeOf(db.member[q])>>
    <3>0. q \in Members /\ g \in Groups
      BY TableFacts, NameFacts DEF Present
    <3>1. CASE m[1] # g
      <4>1. byGroup'[g] = byGroup[g]
        BY <1>5, <2>1, <3>0, <3>1, ReadMemberFacts
      <4> QED
        BY <2>2, <2>3, <2>4, <3>1, <4>1
    <3>2. CASE m[1] = g
      <4> DEFINE n == <<m, ModeOf(db.member[m])>>
      <4>1. Extended(byGroup[g], byGroup'[g], n)
        BY <1>5, <2>4, <3>2, ReadMemberFacts
      <4>2. q = m => n = x
        OBVIOUS
      <4> HIDE DEF n
      <4>3. /\ \E j \in DOMAIN byGroup'[g] : byGroup'[g][j] = n
            /\ \A k \in DOMAIN byGroup[g] :
                 \E j \in DOMAIN byGroup'[g] : byGroup'[g][j] = byGroup[g][k]
        BY <4>1 DEF Extended
      <4>4. CASE q = m
        BY <4>2, <4>3, <4>4
      <4>5. CASE q # m
        <5>1. \/ q \in DOMAIN rows /\ rows[q] > 0
              \/ \E k \in DOMAIN byGroup[g] : byGroup[g][k] = x
          BY <2>3, <2>4
        <5> HIDE DEF x, g
        <5>2. q \in DOMAIN rows => q \in DOMAIN rows' /\ rows'[q] = rows[q]
          BY <2>2, <4>5
        <5>3. (\E k \in DOMAIN byGroup[g] : byGroup[g][k] = x) =>
                \E j \in DOMAIN byGroup'[g] : byGroup'[g][j] = x
          BY <4>3
        <5> QED
          BY <5>1, <5>2, <5>3 DEF x, g
      <4> QED
        BY <4>4, <4>5
    <3> QED
      BY <3>1, <3>2
  <2>5. \A q \in DOMAIN rows' : WasThere("member", q)
    BY <2>2, <2>3
  <2> QED
    BY <2>1, <2>4, <2>5 DEF RowsInv, WasThere, IsStable, Present, ModeOf, Label
<1>6. CASE MembersRead
  <2>1. /\ pc = "rows" /\ rows' = <<>> /\ \A m \in DOMAIN rows : rows[m] = 0
        /\ UNCHANGED <<db, kind, byGroup, changed, seen>>
    BY <1>6 DEF MembersRead, outside, history
  <2>4. \A m \in Present("member") :
          IsStable("member", m) /\ m[1] # NoName =>
            \/ m \in DOMAIN rows /\ rows[m] > 0
            \/ \E i \in DOMAIN byGroup[m[1]] : byGroup[m[1]][i] = <<m, ModeOf(db.member[m])>>
    BY <2>1 DEF RowsInv, Read
  <2>5. \A m \in DOMAIN rows : ~(rows[m] > 0)
    BY <2>1
  <2>2. \A m \in Present("member") :
          IsStable("member", m) /\ m[1] # NoName =>
            \E i \in DOMAIN byGroup[m[1]] : byGroup[m[1]][i] = <<m, ModeOf(db.member[m])>>
    BY <2>4, <2>5
  <2>3. DOMAIN rows' = {}
    BY <2>1, EmptyFacts
  <2> QED
    BY <2>1, <2>2, <2>3 DEF RowsInv, IsStable, Present, ModeOf, Label
<1>7. CASE Fail \/ Return
  BY <1>1, <1>7, ClearFacts
<1>8. CASE Elsewhere
  BY <1>2, <1>8, ElsewhereFacts
<1>9. ASSUME NEW t \in Tables, NEW r \in RowsOf[t], Change(t, r), pc \notin Read
      PROVE  RowsInv'
  <2>1. pc' = pc
    BY <1>9 DEF Change
  <2> QED
    BY <1>1, <1>9, <2>1
<1> QED
  BY <1>3, <1>4, <1>5, <1>6, <1>7, <1>8, <1>9 DEF Next, Elsewhere

\* The steps that leave the rows, the entries and the history alone.
LEMMA OnceKept ==
  ASSUME OnceInv, UNCHANGED <<rows, byGroup, repeated>>, pc' \in Read => pc \in Read
  PROVE  OnceInv'
BY DEF OnceInv

LEMMA OnceStep ==
  ASSUME BaseInv, EntryInv, OnceInv, [Next]_vars
  PROVE  OnceInv'
<1>1. CASE pc' \notin Read \/ repeated'
  BY <1>1 DEF OnceInv
<1>2. CASE ScanMembers /\ ~repeated'
  <2>1. /\ pc = "member" /\ UNCHANGED byGroup
    BY <1>2 DEF ScanMembers
  <2>2. PICK f \in Redis!Counts(window) : rows' = f /\ repeated' = \E m \in DOMAIN f : f[m] > 1
    BY <1>2 DEF ScanMembers
  <2>3. /\ f \in [window.ever -> 0 .. Repeats + 1] /\ window.ever \subseteq Members
    BY <2>1, <2>2, CountFacts, TypeFacts DEF BaseInv
  <2>4. \A m \in DOMAIN f : f[m] \in {0, 1}
    <3>1. \A m \in DOMAIN f : ~(f[m] > 1)
      BY <1>2, <2>2
    <3> QED
      BY <2>3, <3>1, BoundsAssumption
  <2>5. \A g \in Groups : DOMAIN byGroup'[g] = {}
    <3>1. byGroup = NoMembers
      BY <2>1 DEF BaseInv, FreshInv, Read, Walk
    <3> QED
      BY <2>1, <3>1, EmptyFacts DEF NoMembers
  <2>6. \A m \in DOMAIN rows' : m[1] \in Groups
    BY <2>2, <2>3, NameFacts
  <2> QED
    BY <2>2, <2>4, <2>5, <2>6 DEF OnceInv
<1>3. ASSUME NEW m \in Members, ReadMember(m), ~repeated
      PROVE  OnceInv'
  <2>1. /\ pc = "rows" /\ m \in DOMAIN rows /\ rows[m] > 0
        /\ rows \in RowTypes /\ rows' = [rows EXCEPT ![m] = @ - 1]
        /\ m[1] \in Groups
        /\ m[1] = NoName => byGroup' = byGroup
        /\ m[1] # NoName => /\ \A h \in Groups : h # m[1] => byGroup'[h] = byGroup[h]
                            /\ Extended(byGroup[m[1]], byGroup'[m[1]],
                                        <<m, ModeOf(db.member[m])>>)
    BY <1>3, ReadMemberFacts
  <2>2. /\ DOMAIN rows' = DOMAIN rows /\ \A q \in DOMAIN rows : q # m => rows'[q] = rows[q]
        /\ rows'[m] = rows[m] - 1 /\ DOMAIN rows \subseteq Members
    BY <2>1, RowTypeFacts
  <2>3. /\ \A q \in DOMAIN rows :
             /\ rows[q] \in {0, 1}
             /\ rows[q] = 1 => \A i \in DOMAIN byGroup[q[1]] : byGroup[q[1]][i][1] # q
        /\ \A g \in Groups : \A i, j \in DOMAIN byGroup[g] :
             byGroup[g][i][1] = byGroup[g][j][1] => i = j
    BY <1>3, <2>1 DEF OnceInv, Read
  <2>4. rows[m] = 1 /\ rows'[m] = 0
    <3>1. rows[m] = 0 \/ rows[m] = 1
      BY <2>1, <2>3
    <3>2. rows[m] = 1
      BY <2>1, <3>1
    <3> QED
      BY <2>2, <3>2
  <2>5. \A i \in DOMAIN byGroup[m[1]] : byGroup[m[1]][i][1] # m
    BY <2>1, <2>3, <2>4
  <2> DEFINE n == <<m, ModeOf(db.member[m])>>
             r == m[1]
  <2>6. n[1] = m
    OBVIOUS
  <2>7. ASSUME NEW q \in DOMAIN rows', rows'[q] = 1,
               NEW i \in DOMAIN byGroup'[q[1]]
        PROVE  byGroup'[q[1]][i][1] # q
    <3>1. q # m /\ q \in DOMAIN rows /\ rows[q] = 1 /\ q[1] \in Groups
      BY <2>2, <2>4, <2>7, NameFacts
    <3>2. \A k \in DOMAIN byGroup[q[1]] : byGroup[q[1]][k][1] # q
      BY <2>3, <3>1
    <3>3. CASE byGroup'[q[1]] = byGroup[q[1]]
      BY <2>7, <3>2, <3>3
    <3>4. CASE m[1] # NoName /\ q[1] = m[1]
      <4>1. Extended(byGroup[q[1]], byGroup'[q[1]], n)
        BY <2>1, <3>4
      <4> HIDE DEF n
      <4>2. byGroup'[q[1]][i] = n \/ \E k \in DOMAIN byGroup[q[1]] : byGroup'[q[1]][i] = byGroup[q[1]][k]
        BY <2>7, <4>1 DEF Extended
      <4> QED
        BY <2>6, <3>1, <3>2, <4>2
    <3> QED
      BY <2>1, <3>1, <3>3, <3>4
  <2>8. ASSUME NEW g \in Groups, NEW i \in DOMAIN byGroup'[g], NEW j \in DOMAIN byGroup'[g],
               byGroup'[g][i][1] = byGroup'[g][j][1], i # j
        PROVE  FALSE
    <3>1. CASE byGroup'[g] = byGroup[g]
      BY <2>3, <2>8, <3>1
    <3>2. CASE m[1] # NoName /\ g = m[1]
      <4>1. Extended(byGroup[g], byGroup'[g], n)
        BY <2>1, <3>2
      <4>2. \A k \in DOMAIN byGroup[g] : byGroup[g][k][1] # m
        BY <2>5, <3>2
      <4> HIDE DEF n
      <4>3. PICK p \in DOMAIN byGroup'[g] :
              /\ byGroup'[g][p] = n
              /\ \A x \in DOMAIN byGroup'[g] : x # p =>
                   \E k \in DOMAIN byGroup[g] : byGroup'[g][x] = byGroup[g][k]
              /\ \A x, y \in DOMAIN byGroup'[g] : x # p /\ y # p /\ x # y =>
                   \E a, b \in DOMAIN byGroup[g] :
                     a # b /\ byGroup'[g][x] = byGroup[g][a] /\ byGroup'[g][y] = byGroup[g][b]
        BY <4>1 DEF Extended
      <4>4. CASE i = p
        <5>1. PICK k \in DOMAIN byGroup[g] : byGroup'[g][j] = byGroup[g][k]
          BY <2>8, <4>3, <4>4
        <5> QED
          BY <2>6, <2>8, <4>2, <4>3, <4>4, <5>1
      <4>5. CASE j = p
        <5>1. PICK k \in DOMAIN byGroup[g] : byGroup'[g][i] = byGroup[g][k]
          BY <2>8, <4>3, <4>5
        <5> QED
          BY <2>6, <2>8, <4>2, <4>3, <4>5, <5>1
      <4>6. CASE i # p /\ j # p
        <5>1. PICK a \in DOMAIN byGroup[g], b \in DOMAIN byGroup[g] :
                a # b /\ byGroup'[g][i] = byGroup[g][a] /\ byGroup'[g][j] = byGroup[g][b]
          BY <2>8, <4>3, <4>6
        <5> QED
          BY <2>3, <2>8, <5>1
      <4> QED
        BY <4>4, <4>5, <4>6
    <3> QED
      BY <2>1, <3>1, <3>2
  <2>9. \A q \in DOMAIN rows' : rows'[q] \in {0, 1}
    BY <2>2, <2>3, <2>4
  <2> QED
    BY <2>7, <2>8, <2>9 DEF OnceInv
<1>4. CASE MembersRead
  <2>1. /\ pc = "rows" /\ DOMAIN rows' = {} /\ UNCHANGED <<byGroup, repeated>>
    BY <1>4, EmptyFacts DEF MembersRead, history
  <2> QED
    BY <2>1 DEF OnceInv, Read
<1>5. CASE Fail \/ Return
  BY <1>1, <1>5, ClearFacts
<1>6. CASE Elsewhere
  BY <1>6, ElsewhereFacts, OnceKept
<1>7. CASE \E t \in Tables : \E r \in RowsOf[t] : Change(t, r)
  BY <1>7, OnceKept DEF Change
<1>8. ASSUME NEW m \in Members, ReadMember(m), repeated
      PROVE  OnceInv'
  BY <1>1, <1>8, ReadMemberFacts
<1> QED
  BY <1>1, <1>2, <1>3, <1>4, <1>5, <1>6, <1>7, <1>8 DEF Next, Elsewhere

-----------------------------------------------------------------------------
(* The groups.                                                             *)

\* What was read of the group at hand.
LEMMA ConfigStep ==
  ASSUME BaseInv, BaseInv', SeenInv, ConfigInv, [Next]_vars
  PROVE  ConfigInv'
<1>1. CASE pc' # "groupAppl"
  BY <1>1 DEF ConfigInv
<1>2. CASE ReadConfig
  <2>1. /\ index \in 1 .. Len(keys) /\ configData' = db.config[keys[index]]
        /\ UNCHANGED <<db, keys, index, changed, seen>>
    BY <1>2, TypeFacts DEF ReadConfig, Visit, outside, history, BaseInv
  <2>2. keys[index] \in Groups
    BY <2>1, TypeFacts DEF BaseInv
  <2>3. <<keys[index], db.config[keys[index]]>> \in seen["config"]
    BY <2>2, TableFacts DEF SeenInv
  <2> QED
    BY <2>1, <2>3 DEF ConfigInv, IsStable
<1>3. ASSUME NEW t \in Tables, NEW r \in RowsOf[t], Change(t, r), pc = "groupAppl"
      PROVE  ConfigInv'
  <2>1. UNCHANGED <<pc, keys, index, configData>>
    BY <1>3 DEF Change
  <2>2. PICK g \in Groups : g = keys[index]
    <3>1. index \in 1 .. Len(keys) /\ keys \in Seq(Groups)
      BY <1>3, TypeFacts DEF BaseInv, PositionInv
    <3> QED
      BY <3>1
  <2>3. /\ <<g, configData>> \in seen["config"]
        /\ g \notin changed["config"] => configData = db.config[g]
    BY <1>3, <2>2 DEF ConfigInv, IsStable
  <2>4. /\ seen["config"] \subseteq seen'["config"]
        /\ g \notin changed'["config"] => g \notin changed["config"] /\ db'["config"][g] = db["config"][g]
    BY <1>3, ChangeKeeps, TableFacts
  <2> QED
    BY <2>1, <2>2, <2>3, <2>4 DEF ConfigInv, IsStable
<1>4. CASE UNCHANGED vars
  BY <1>4 DEF vars, outside, locals, history, ConfigInv, IsStable
<1>5. CASE ScanConfig \/ ScanAppl \/ ScanMembers \/ MembersRead \/ SkipGroup \/ ReadAppl
             \/ Finish \/ Fail \/ Return
  BY <1>1, <1>5 DEF ScanConfig, ScanAppl, ScanMembers, MembersRead, SkipGroup, Visit, ReadAppl,
                    Finish, Fail, Return
<1>6. CASE \E m \in Members : ReadMember(m)
  BY <1>1, <1>6 DEF ReadMember
<1>7. ASSUME NEW t \in Tables, NEW r \in RowsOf[t], Change(t, r), pc # "groupAppl"
      PROVE  ConfigInv'
  BY <1>1, <1>7 DEF Change
<1> QED
  BY <1>2, <1>3, <1>4, <1>5, <1>6, <1>7 DEF Next

LEMMA IntervalFacts ==
  ASSUME NEW n \in Nat
  PROVE  IsFiniteSet(1 .. n) /\ Cardinality(1 .. n) = n
BY FS_Interval

LEMMA VisitedFacts ==
  ASSUME TypeOK, KeysInv, pc \in Walk
  PROVE  /\ index \in Nat /\ index >= 1 /\ Len(keys) \in Nat
         /\ Visited \subseteq Groups
         /\ IsFiniteSet(Visited) /\ Cardinality(Visited) <= index - 1
         /\ index <= Len(keys) => keys[index] \in Groups /\ keys[index] \notin Visited
         /\ index > Len(keys) => Visited = names
<1>1. /\ index \in Nat /\ index >= 1 /\ index <= Len(keys) + 1 /\ Len(keys) \in Nat
      /\ keys \in Seq(Groups)
  BY DEF TypeOK
<1>2. Visited \subseteq Groups
  BY <1>1 DEF Visited
<1>3. IsFiniteSet(Visited) /\ Cardinality(Visited) <= index - 1
  <2> DEFINE f == [j \in 1 .. index - 1 |-> keys[j]]
  <2>1. f \in Surjection(1 .. index - 1, Visited)
    BY DEF Surjection, Visited
  <2>3. index - 1 \in Nat
    BY <1>1
  <2>2. IsFiniteSet(1 .. index - 1) /\ Cardinality(1 .. index - 1) = index - 1
    BY <2>3, IntervalFacts
  <2> HIDE DEF f
  <2> QED
    BY <2>1, <2>2, FS_Surjection
<1>4. ASSUME index <= Len(keys)
      PROVE  keys[index] \in Groups /\ keys[index] \notin Visited
  <2>1. ASSUME NEW j \in 1 .. index - 1 PROVE keys[j] # keys[index]
    BY <1>1, <1>4 DEF KeysInv
  <2> QED
    BY <1>1, <1>4, <2>1 DEF Visited
<1>5. ASSUME index > Len(keys) PROVE Visited = names
  <2>1. index - 1 = Len(keys)
    BY <1>1, <1>5
  <2> QED
    BY <2>1 DEF Visited, KeysInv
<1> QED
  BY <1>1, <1>2, <1>3, <1>4, <1>5

\* A group more.
LEMMA VisitedNext ==
  ASSUME TypeOK, UNCHANGED keys, index' = index + 1
  PROVE  Visited' = Visited \cup {keys[index]}
<1>1. index \in Nat /\ index >= 1
  BY DEF TypeOK
<1>2. 1 .. index' - 1 = (1 .. index - 1) \cup {index}
  BY <1>1
<1>3. Visited' = {keys[j] : j \in 1 .. index' - 1}
  BY DEF Visited
<1> QED
  BY <1>2, <1>3 DEF Visited

LEMMA AdminStatusFacts ==
  ASSUME NEW x, NEW y, AdminStatus(x, y) # Blank
  PROVE  AdminStatus(x, y) = x \/ AdminStatus(x, y) = y
BY DEF AdminStatus

\* The walk goes on, the series stay.
LEMMA OutKept ==
  ASSUME OutInv, UNCHANGED <<db, byGroup, out, changed, seen>>, Visited \subseteq Visited',
         pc' \in Walk => pc \in Walk
  PROVE  OutInv'
BY DEF OutInv, IsStable, AdminStatus

LEMMA OutStep ==
  ASSUME BaseInv, BaseInv', SeenInv, EntryInv, ConfigInv, OutInv, [Next]_vars
  PROVE  OutInv'
<1>1. CASE pc' \notin Walk
  BY <1>1 DEF OutInv
<1>2. CASE ScanConfig \/ ScanAppl \/ ScanMembers \/ Fail \/ Return
  BY <1>1, <1>2 DEF ScanConfig, ScanAppl, ScanMembers, Fail, Return, Walk
<1>3. CASE \E m \in Members : ReadMember(m)
  BY <1>1, <1>3 DEF ReadMember, Walk
<1>4. CASE MembersRead
  <2>1. pc = "rows" /\ out' = out
    BY <1>4 DEF MembersRead, result
  <2>2. out = NoSeries
    BY <2>1 DEF BaseInv, FreshInv, Walk
  <2>3. out'.info = {} /\ \A x \in Members \X Labels : ~(out'.members[x] > 0)
    BY <2>1, <2>2 DEF NoSeries
  <2> QED
    BY <2>3 DEF OutInv
<1>5. CASE UNCHANGED <<pc, keys, index, db, byGroup, out, changed, seen>>
  BY <1>5, OutKept DEF Visited
<1>6. CASE SkipGroup
  <2>1. /\ pc = "group" /\ index' = index + 1
        /\ UNCHANGED <<pc, keys, db, byGroup, out, changed, seen>>
    BY <1>6 DEF SkipGroup, Visit, outside, history
  <2>2. Visited \subseteq Visited'
    BY <2>1, VisitedNext DEF BaseInv
  <2> QED
    BY <2>1, <2>2, OutKept
<1>7. CASE ReadConfig \/ Finish
  <2>1. /\ pc \in Walk /\ UNCHANGED <<keys, index, db, byGroup, out, changed, seen>>
    BY <1>7 DEF ReadConfig, Finish, Visit, outside, locals, result, history, Walk
  <2> QED
    BY <2>1, OutKept DEF Visited
<1>8. CASE UNCHANGED vars
  BY <1>5, <1>8 DEF vars, outside, locals, result, history
<1>9. ASSUME NEW t \in Tables, NEW r \in RowsOf[t], Change(t, r), pc \in Walk
      PROVE  OutInv'
  <2>1. UNCHANGED <<pc, keys, index, byGroup, out>>
    BY <1>9 DEF Change, result
  <2>2. Visited' = Visited
    BY <2>1 DEF Visited
  <2>3. /\ \A u \in Tables : seen[u] \subseteq seen'[u]
        /\ \A u \in Tables : \A q \in RowsOf[u] :
             q \notin changed'[u] => q \notin changed[u] /\ db'[u][q] = db[u][q]
    BY <1>9, ChangeKeeps
  <2>4. /\ out.info \subseteq Visited
        /\ \A g \in out.info :
             /\ out.admin[g] # Blank =>
                  \E u \in {"config", "appl"} : <<g, out.admin[g]>> \in seen[u]
             /\ IsStable("config", g) /\ IsStable("appl", g) =>
                  out.admin[g] = AdminStatus(db.config[g], db.appl[g])
        /\ \A x \in Members \X Labels :
             out.members[x] > 0 =>
               /\ x[1][1] \in out.info
               /\ \E i \in DOMAIN byGroup[x[1][1]] : byGroup[x[1][1]][i] = x
    BY <1>9 DEF OutInv
  <2>5. out.info \subseteq Groups
    BY TypeFacts DEF BaseInv
  <2>6. ASSUME NEW g \in out.info
        PROVE  /\ out.admin[g] # Blank =>
                    \E u \in {"config", "appl"} : <<g, out.admin[g]>> \in seen'[u]
               /\ IsStable("config", g)' /\ IsStable("appl", g)' =>
                    out.admin[g] = AdminStatus(db.config[g], db.appl[g])'
    <3>1. out.admin[g] # Blank => \E u \in {"config", "appl"} : <<g, out.admin[g]>> \in seen'[u]
      BY <2>3, <2>4, TableFacts
    <3>2. ASSUME IsStable("config", g)', IsStable("appl", g)'
          PROVE  out.admin[g] = AdminStatus(db.config[g], db.appl[g])'
      <4>1. /\ g \notin changed["config"] /\ db'["config"][g] = db["config"][g]
            /\ g \notin changed["appl"] /\ db'["appl"][g] = db["appl"][g]
        BY <2>3, <2>5, <3>2, TableFacts DEF IsStable
      <4>2. AdminStatus(db.config[g], db.appl[g])' = AdminStatus(db.config[g], db.appl[g])
        BY <4>1 DEF AdminStatus
      <4> QED
        BY <2>4, <4>1, <4>2 DEF IsStable
    <3> QED
      BY <3>1, <3>2
  <2> QED
    BY <2>1, <2>2, <2>4, <2>6 DEF OutInv
<1>10. CASE ReadAppl
  <2>1. /\ pc = "groupAppl" /\ index' = index + 1
        /\ keys[index] \in Groups
        /\ byGroup[keys[index]] \in Seq(Members \X Labels)
        /\ UNCHANGED <<db, byGroup, keys, changed, seen>>
    BY <1>10, ReadApplFacts
  <2>2. PICK n \in Nat :
          /\ n <= Len(byGroup[keys[index]])
          /\ out'.info = out.info \cup {keys[index]}
          /\ out'.admin = [out.admin EXCEPT ![keys[index]] =
                             AdminStatus(configData, db.appl[keys[index]])]
          /\ out'.members = [x \in Members \X Labels |->
               out.members[x] + Cardinality({i \in 1 .. n : byGroup[keys[index]][i] = x})]
    BY <1>10, ReadApplFacts
  <2>3. PICK g \in Groups : g = keys[index]
    BY <2>1
  <2>4. Visited' = Visited \cup {g}
    BY <2>1, <2>3, VisitedNext DEF BaseInv
  <2>5. /\ out.info \subseteq Visited
        /\ \A h \in out.info :
             /\ out.admin[h] # Blank =>
                  \E u \in {"config", "appl"} : <<h, out.admin[h]>> \in seen[u]
             /\ IsStable("config", h) /\ IsStable("appl", h) =>
                  out.admin[h] = AdminStatus(db.config[h], db.appl[h])
        /\ \A x \in Members \X Labels :
             out.members[x] > 0 =>
               /\ x[1][1] \in out.info
               /\ \E i \in DOMAIN byGroup[x[1][1]] : byGroup[x[1][1]][i] = x
    BY <2>1 DEF OutInv, Walk
  <2>6. /\ out.admin \in [Groups -> Statuses \cup {Blank}]
        /\ out.members \in [Members \X Labels -> Nat] /\ out.info \subseteq Groups
    BY TypeFacts DEF BaseInv
  <2>7. /\ out'.admin[g] = AdminStatus(configData, db.appl[g])
        /\ \A h \in Groups : h # g => out'.admin[h] = out.admin[h]
    BY <2>2, <2>3, <2>6
  <2>8. /\ out'.admin[g] # Blank =>
             \E u \in {"config", "appl"} : <<g, out'.admin[g]>> \in seen[u]
        /\ IsStable("config", g) /\ IsStable("appl", g) =>
             out'.admin[g] = AdminStatus(db.config[g], db.appl[g])
    <3>1. <<g, db.appl[g]>> \in seen["appl"]
      BY TableFacts DEF SeenInv
    <3>2. /\ <<g, configData>> \in seen["config"]
          /\ IsStable("config", g) => configData = db.config[g]
      BY <2>1, <2>3 DEF ConfigInv
    <3>3. out'.admin[g] # Blank => out'.admin[g] = configData \/ out'.admin[g] = db.appl[g]
      BY <2>7, AdminStatusFacts
    <3> QED
      BY <2>7, <3>1, <3>2, <3>3
  <2>9. ASSUME NEW h \in out'.info
        PROVE  /\ out'.admin[h] # Blank =>
                    \E u \in {"config", "appl"} : <<h, out'.admin[h]>> \in seen[u]
               /\ IsStable("config", h) /\ IsStable("appl", h) =>
                    out'.admin[h] = AdminStatus(db.config[h], db.appl[h])
    <3>1. CASE h = g
      BY <2>8, <3>1
    <3>2. CASE h # g
      <4>1. h \in out.info /\ h \in Groups
        BY <2>2, <2>3, <2>6, <3>2
      <4>2. out'.admin[h] = out.admin[h]
        BY <2>7, <3>2, <4>1
      <4> QED
        BY <2>5, <4>1, <4>2
    <3> QED
      BY <3>1, <3>2
  <2>10. ASSUME NEW x \in Members \X Labels, out'.members[x] > 0
         PROVE  /\ x[1][1] \in out'.info
                /\ \E i \in DOMAIN byGroup[x[1][1]] : byGroup[x[1][1]][i] = x
    <3> DEFINE C == PlacesOf(byGroup[g], n, x)
    <3>1. out'.members[x] = out.members[x] + Cardinality(C)
      BY <2>2, <2>3 DEF PlacesOf
    <3>2. Cardinality(C) \in Nat /\ IsFiniteSet(C)
      BY CopiesType
    <3>3. out.members[x] \in Nat
      BY <2>6
    <3>4. CASE out.members[x] > 0
      BY <2>2, <2>5, <3>4
    <3>5. CASE C # {}
      <4>1. PICK i \in 1 .. n : byGroup[g][i] = x
        BY <3>5 DEF PlacesOf
      <4>2. i \in DOMAIN byGroup[g]
        <5>1. byGroup[g] \in Seq(Members \X Labels) /\ n <= Len(byGroup[g])
          BY <2>1, <2>2, <2>3
        <5>2. Len(byGroup[g]) \in Nat /\ DOMAIN byGroup[g] = 1 .. Len(byGroup[g])
          BY <5>1
        <5> QED
          BY <5>1, <5>2
      <4>3. x[1][1] = g
        BY <4>1, <4>2 DEF EntryInv
      <4> QED
        BY <2>2, <2>3, <4>1, <4>2, <4>3
    <3>6. CASE C = {} /\ ~(out.members[x] > 0)
      <4>1. Cardinality(C) = 0
        BY <3>6, FS_EmptySet
      <4> HIDE DEF C
      <4> QED
        BY <2>10, <3>1, <3>3, <3>6, <4>1
    <3> QED
      BY <3>4, <3>5, <3>6
  <2>11. out'.info \subseteq Visited'
    BY <2>2, <2>3, <2>4, <2>5
  <2>12. \A h \in out'.info : AdminStatus(db.config[h], db.appl[h])' = AdminStatus(db.config[h], db.appl[h])
    BY <2>1 DEF AdminStatus
  <2> QED
    BY <2>1, <2>9, <2>10, <2>11, <2>12 DEF OutInv, IsStable
<1>11. ASSUME NEW t \in Tables, NEW r \in RowsOf[t], Change(t, r), pc \notin Walk
       PROVE  OutInv'
  BY <1>1, <1>11 DEF Change
<1> QED
  BY <1>2, <1>3, <1>4, <1>6, <1>7, <1>8, <1>9, <1>10, <1>11 DEF Next

-----------------------------------------------------------------------------
(* The limits.                                                             *)

LEMMA PlacesFacts ==
  ASSUME NEW T, NEW b \in [Groups -> Seq(T)]
  PROVE  /\ \A G \in SUBSET Groups :
              /\ IsFiniteSet(Places(b, G)) /\ Cardinality(Places(b, G)) \in Nat
              /\ Cardinality(Places(b, G)) <= Cardinality(Places(b, Groups))
         /\ \A G \in SUBSET Groups : \A g \in Groups \ G :
              Cardinality(Places(b, G \cup {g})) = Cardinality(Places(b, G)) + Len(b[g])
         /\ Cardinality(Places(b, {})) = 0
<1>1. \A g \in Groups : /\ Len(b[g]) \in Nat
                        /\ IsFiniteSet({g} \X DOMAIN b[g])
                        /\ Cardinality({g} \X DOMAIN b[g]) = Len(b[g])
  <2> TAKE g \in Groups
  <2>1. Len(b[g]) \in Nat /\ DOMAIN b[g] = 1 .. Len(b[g])
    <3>1. b[g] \in Seq(T)
      OBVIOUS
    <3> QED
      BY <3>1
  <2>2. IsFiniteSet(DOMAIN b[g]) /\ Cardinality(DOMAIN b[g]) = Len(b[g])
    BY <2>1, IntervalFacts
  <2>3. IsFiniteSet({g}) /\ Cardinality({g}) = 1
    BY FS_Singleton
  <2>4. /\ IsFiniteSet({g} \X DOMAIN b[g])
        /\ Cardinality({g} \X DOMAIN b[g]) = 1 * Len(b[g])
    BY <2>2, <2>3, FS_Product
  <2>5. \A k \in Nat : 1 * k = k
    OBVIOUS
  <2> QED
    BY <2>1, <2>4, <2>5
<1>2. IsFiniteSet(Places(b, Groups))
  <2> DEFINE f == [g \in Groups |-> {g} \X DOMAIN b[g]]
             S == {{g} \X DOMAIN b[g] : g \in Groups}
  <2>1. f \in Surjection(Groups, S)
    BY DEF Surjection
  <2>2. IsFiniteSet(S)
    <3> HIDE DEF f, S
    <3> QED
      BY <2>1, NameFacts, FS_Surjection
  <2>3. \A P \in S : IsFiniteSet(P)
    BY <1>1
  <2> HIDE DEF S
  <2>4. IsFiniteSet(UNION S)
    BY <2>2, <2>3, FS_UNION
  <2> QED
    BY <2>4 DEF S, Places
<1>3. ASSUME NEW G \in SUBSET Groups
      PROVE  /\ IsFiniteSet(Places(b, G)) /\ Cardinality(Places(b, G)) \in Nat
             /\ Cardinality(Places(b, G)) <= Cardinality(Places(b, Groups))
  <2>1. Places(b, G) \in SUBSET Places(b, Groups)
    BY DEF Places
  <2> QED
    BY <1>2, <2>1, FS_Subset, FS_CardinalityType
<1>4. ASSUME NEW G \in SUBSET Groups, NEW g \in Groups \ G
      PROVE  Cardinality(Places(b, G \cup {g})) = Cardinality(Places(b, G)) + Len(b[g])
  <2> DEFINE P == Places(b, G)
             Q == {g} \X DOMAIN b[g]
  <2>1. Places(b, G \cup {g}) = P \cup Q
    BY DEF Places
  <2>2. P \cap Q = {}
    <3>1. ASSUME NEW x \in P, x \in Q PROVE FALSE
      <4>1. PICK h \in G : x \in {h} \X DOMAIN b[h]
        BY <3>1 DEF Places
      <4>2. x[1] = h /\ x[1] = g
        BY <3>1, <4>1
      <4> QED
        BY <4>2
    <3> QED
      BY <3>1
  <2>3. /\ IsFiniteSet(P) /\ IsFiniteSet(Q) /\ Cardinality(P) \in Nat
        /\ Cardinality(Q) = Len(b[g]) /\ Len(b[g]) \in Nat
    BY <1>1, <1>3
  <2> HIDE DEF P, Q
  <2>4. Cardinality(P \cup Q) = Cardinality(P) + Cardinality(Q) - Cardinality(P \cap Q)
    BY <2>3, FS_Union
  <2>5. Cardinality(P \cap Q) = 0
    BY <2>2, FS_EmptySet
  <2>6. Cardinality(P \cup Q) = Cardinality(P) + Len(b[g])
    BY <2>3, <2>4, <2>5
  <2> QED
    BY <2>1, <2>6 DEF P
<1>5. Cardinality(Places(b, {})) = 0
  <2>1. Places(b, {}) = {}
    BY DEF Places
  <2> QED
    BY <2>1, FS_EmptySet
<1> QED
  BY <1>3, <1>4, <1>5

LEMMA NoLimitFacts ==
  /\ NoLimitMet <=> /\ Len(keys) <= config.maxGroups
                    /\ Cardinality(Places(byGroup, Groups)) <= config.maxMembers
  /\ NoLimitMet' <=> /\ Len(keys') <= config'.maxGroups
                     /\ Cardinality(Places(byGroup', Groups)) <= config'.maxMembers
BY DEF NoLimitMet, Places

\* As long as no limit is met there is room for the group at hand.
LEMMA NotFull ==
  ASSUME BaseInv, OutInv, NoLimitMet, pc \in Walk, index <= Len(keys)
  PROVE  ~Full
<1>1. /\ index \in Nat /\ Len(keys) \in Nat
      /\ IsFiniteSet(Visited) /\ Cardinality(Visited) <= index - 1
  BY VisitedFacts DEF BaseInv
<1>2. out.info \in SUBSET Visited
  BY DEF OutInv
<1>3. /\ Cardinality(out.info) <= Cardinality(Visited)
      /\ Cardinality(out.info) \in Nat /\ Cardinality(Visited) \in Nat
  BY <1>1, <1>2, FS_Subset, FS_CardinalityType
<1>4. Len(keys) <= config.maxGroups /\ config.maxGroups \in Nat
  BY NoLimitFacts, ConfigFacts DEF BaseInv, TypeOK
<1>5. Cardinality(out.info) < config.maxGroups
  BY <1>1, <1>3, <1>4
<1> QED
  BY <1>3, <1>4, <1>5 DEF Full

LEMMA LimitKept ==
  ASSUME LimitInv, UNCHANGED <<config, keys, index, byGroup, out, processedMembers>>,
         pc' \in Walk => pc \in Walk
  PROVE  LimitInv'
<1>1. Visited' = Visited
  BY DEF Visited
<1>2. NoLimitMet' => NoLimitMet
  BY NoLimitFacts
<1> QED
  BY <1>1, <1>2 DEF LimitInv

LEMMA LimitStep ==
  ASSUME BaseInv, BaseInv', EntryInv, OutInv, LimitInv, [Next]_vars
  PROVE  LimitInv'
<1>1. CASE pc' \notin Walk
  BY <1>1 DEF LimitInv
<1>2. CASE ScanConfig \/ ScanAppl \/ ScanMembers \/ Fail \/ Return
  BY <1>1, <1>2 DEF ScanConfig, ScanAppl, ScanMembers, Fail, Return, Walk
<1>3. CASE \E m \in Members : ReadMember(m)
  BY <1>1, <1>3 DEF ReadMember, Walk
<1>4. CASE MembersRead
  <2>1. pc = "rows" /\ index' = 1 /\ processedMembers' = processedMembers
    BY <1>4 DEF MembersRead, result
  <2>2. processedMembers' = 0
    BY <2>1 DEF BaseInv, FreshInv, Walk
  <2>3. Visited' = {}
    <3>1. Visited' = {keys'[j] : j \in 1 .. index' - 1}
      BY DEF Visited
    <3>2. 1 .. index' - 1 = {}
      BY <2>1
    <3> QED
      BY <3>1, <3>2
  <2>4. Cardinality(Places(byGroup', {})) = 0
    <3>1. byGroup' \in [Groups -> Seq(Members \X Labels)]
      BY DEF BaseInv, TypeOK
    <3> QED
      BY <3>1, PlacesFacts
  <2> QED
    BY <2>2, <2>3, <2>4 DEF LimitInv
<1>5. CASE SkipGroup
  <2>1. /\ pc \in Walk /\ index <= Len(keys) /\ Full
        /\ UNCHANGED <<config, keys, byGroup>>
    BY <1>5 DEF SkipGroup, Visit, outside, Walk
  <2>2. ~NoLimitMet
    BY <2>1, NotFull
  <2>3. ~NoLimitMet'
    BY <2>1, <2>2, NoLimitFacts
  <2> QED
    BY <2>3 DEF LimitInv
<1>6. CASE ReadConfig \/ Finish \/ UNCHANGED vars
  <2>1. /\ UNCHANGED <<config, keys, index, byGroup, out, processedMembers>>
        /\ pc \in Walk \/ pc' = pc
    BY <1>6 DEF ReadConfig, Finish, Visit, vars, outside, locals, result, Walk
  <2> QED
    BY <2>1, LimitKept
<1>7. CASE \E t \in Tables : \E r \in RowsOf[t] : Change(t, r)
  <2>1. UNCHANGED <<config, pc, keys, index, byGroup, out, processedMembers>>
    BY <1>7 DEF Change, result
  <2> QED
    BY <2>1, LimitKept
<1>8. CASE ReadAppl
  <2>0. ASSUME NoLimitMet' PROVE
          /\ Visited' \subseteq out'.info
          /\ processedMembers' = Cardinality(Places(byGroup', Visited'))
          /\ \A x \in Members \X Labels :
               x[1][1] \in Visited' =>
                 out'.members[x] =
                   Cardinality(PlacesOf(byGroup'[x[1][1]], Len(byGroup'[x[1][1]]), x))
    <3>1. /\ pc = "groupAppl" /\ index <= Len(keys) /\ index' = index + 1
          /\ keys[index] \in Groups
          /\ byGroup[keys[index]] \in Seq(Members \X Labels)
          /\ UNCHANGED <<config, byGroup, keys>>
      BY <1>8, ReadApplFacts
    <3>2. PICK n \in Nat :
            /\ n = IF Len(byGroup[keys[index]]) <= Room THEN Len(byGroup[keys[index]]) ELSE Room
            /\ n <= Len(byGroup[keys[index]])
            /\ out'.info = out.info \cup {keys[index]}
            /\ out'.members = [x \in Members \X Labels |->
                 out.members[x] + Cardinality({i \in 1 .. n : byGroup[keys[index]][i] = x})]
            /\ processedMembers' = processedMembers + n
      BY <1>8, ReadApplFacts
    <3>3. PICK g \in Groups : g = keys[index]
      BY <3>1
    <3>4. Visited' = Visited \cup {g}
      BY <3>1, <3>3, VisitedNext DEF BaseInv
    <3>5. Visited \subseteq Groups /\ g \notin Visited
      BY <3>1, <3>3, VisitedFacts DEF BaseInv, Walk
    <3>6. /\ NoLimitMet
          /\ Cardinality(Places(byGroup, Groups)) <= config.maxMembers
      BY <2>0, <3>1, NoLimitFacts
    <3>7. /\ Visited \subseteq out.info
          /\ processedMembers = Cardinality(Places(byGroup, Visited))
          /\ \A x \in Members \X Labels :
               x[1][1] \in Visited =>
                 out.members[x] =
                   Cardinality(PlacesOf(byGroup[x[1][1]], Len(byGroup[x[1][1]]), x))
      BY <3>1, <3>6 DEF LimitInv, Walk
    <3>8. /\ Cardinality(Places(byGroup, Visited \cup {g})) =
               Cardinality(Places(byGroup, Visited)) + Len(byGroup[g])
          /\ Cardinality(Places(byGroup, Visited \cup {g})) <=
               Cardinality(Places(byGroup, Groups))
          /\ Cardinality(Places(byGroup, Groups)) \in Nat
      <4>1. byGroup \in [Groups -> Seq(Members \X Labels)]
        BY DEF BaseInv, TypeOK
      <4> QED
        BY <3>5, <4>1, PlacesFacts
    <3>9. /\ processedMembers \in Nat /\ config.maxMembers \in Nat
          /\ Len(byGroup[g]) \in Nat
      BY <3>1, <3>3, ConfigFacts DEF BaseInv, TypeOK
    <3>10. n = Len(byGroup[g])
      <4>1. Len(byGroup[g]) <= Room
        BY <3>6, <3>7, <3>8, <3>9 DEF Room
      <4> QED
        BY <3>2, <3>3, <4>1
    <3>11. processedMembers' = Cardinality(Places(byGroup', Visited'))
      BY <3>1, <3>2, <3>4, <3>7, <3>8, <3>10
    <3>12. Visited' \subseteq out'.info
      BY <3>2, <3>3, <3>4, <3>7
    <3>13. ASSUME NEW x \in Members \X Labels, x[1][1] \in Visited'
           PROVE  out'.members[x] = Cardinality(PlacesOf(byGroup[x[1][1]], Len(byGroup[x[1][1]]), x))
      <4> DEFINE C == PlacesOf(byGroup[g], n, x)
      <4>1. out'.members[x] = out.members[x] + Cardinality(C)
        BY <3>2, <3>3 DEF PlacesOf
      <4>2. Cardinality(C) \in Nat
        BY CopiesType
      <4>3. out.members[x] \in Nat
        BY TypeFacts DEF BaseInv
      <4>4. CASE x[1][1] = g
        <5>1. ~(out.members[x] > 0)
          <6>1. out.info \subseteq Visited
            BY <3>1 DEF OutInv, Walk
          <6>2. g \notin out.info
            BY <3>5, <6>1
          <6> QED
            BY <3>1, <4>4, <6>2 DEF OutInv, Walk
        <5> HIDE DEF C
        <5>2. out'.members[x] = Cardinality(C)
          BY <4>1, <4>2, <4>3, <5>1
        <5> QED
          BY <3>10, <4>4, <5>2 DEF C
      <4>5. CASE x[1][1] # g
        <5>1. C = {}
          <6>1. ASSUME NEW i \in 1 .. n, byGroup[g][i] = x PROVE FALSE
            <7>1. i \in DOMAIN byGroup[g]
              <8>1. byGroup[g] \in Seq(Members \X Labels)
                BY <3>1, <3>3
              <8>2. DOMAIN byGroup[g] = 1 .. Len(byGroup[g])
                BY <8>1
              <8> QED
                BY <3>10, <8>2
            <7>2. byGroup[g][i][1][1] = g
              BY <7>1 DEF EntryInv
            <7> QED
              BY <4>5, <6>1, <7>2
          <6> QED
            BY <6>1 DEF PlacesOf
        <5>2. Cardinality(C) = 0
          BY <5>1, FS_EmptySet
        <5> HIDE DEF C
        <5>3. out'.members[x] = out.members[x]
          BY <4>1, <4>3, <5>2
        <5>4. x[1][1] \in Visited
          BY <3>4, <3>13, <4>5
        <5> QED
          BY <3>7, <5>3, <5>4
      <4> QED
        BY <4>4, <4>5
    <3> QED
      BY <3>1, <3>11, <3>12, <3>13
  <2> QED
    BY <2>0 DEF LimitInv
<1> QED
  BY <1>2, <1>3, <1>4, <1>5, <1>6, <1>7, <1>8 DEF Next

-----------------------------------------------------------------------------
(* The invariant and what follows from it.                                 *)

LEMMA InitIInv == Init => IInv
<1> SUFFICES ASSUME Init PROVE IInv
  OBVIOUS
<1>1. /\ pc = "config" /\ window = Redis!Opened(Present("config"))
      /\ names = {} /\ byGroup = NoMembers /\ seen = Held(db)
  BY DEF Init
<1>2. BaseInv
  BY InitBase
<1>3. SeenInv
  BY <1>1, HeldFacts DEF SeenInv
<1>4. WindowInv
  <2>1. window.throughout = Present("config") /\ window.ever = Present("config")
    BY <1>1, WindowFacts
  <2>2. \A r \in Present("config") : WasThere("config", r)
    BY <1>2, <1>3, PresentWasThere, TableFacts
  <2> QED
    BY <1>1, <2>1, <2>2 DEF WindowInv
<1>5. EntryInv
  BY <1>1, EmptyFacts DEF EntryInv, NoMembers
<1> QED
  BY <1>1, <1>2, <1>3, <1>4, <1>5 DEF IInv, NamesInv, RowsInv, OnceInv, ConfigInv, OutInv,
                                      LimitInv, Read, Walk

LEMMA NextIInv == IInv /\ [Next]_vars => IInv'
<1> SUFFICES ASSUME IInv, [Next]_vars PROVE IInv'
  OBVIOUS
<1>1. /\ BaseInv /\ SeenInv /\ WindowInv /\ NamesInv
      /\ EntryInv /\ RowsInv /\ OnceInv /\ ConfigInv /\ OutInv /\ LimitInv
  BY DEF IInv
<1>2. BaseInv' /\ SeenInv'
  BY <1>1, BaseStep, SeenStep
<1>3. WindowInv' /\ NamesInv'
  BY <1>1, <1>2, WindowStep, NamesStep
<1>4. EntryInv' /\ RowsInv' /\ OnceInv'
  BY <1>1, EntryStep, RowsStep, OnceStep
<1>5. ConfigInv' /\ OutInv' /\ LimitInv'
  BY <1>1, <1>2, ConfigStep, OutStep, LimitStep
<1> QED
  BY <1>2, <1>3, <1>4, <1>5 DEF IInv

THEOREM Invariance == Spec => []IInv
<1> QED
  BY InitIInv, NextIInv, PTL DEF Spec

\* Every variable keeps its type; in particular the members of all groups
\* together never exceed the limit, and only groups that were found are reported.
THEOREM MemberTypeCorrect == Spec => []TypeOK
<1>1. IInv => TypeOK
  BY DEF IInv, BaseInv
<1> QED
  BY <1>1, Invariance, PTL

LEMMA InventedFromInv == IInv => NothingInvented
<1> SUFFICES ASSUME IInv, pc = "done" PROVE NothingInvented
  BY DEF NothingInvented
<1>1. ASSUME NEW g \in out.info
      PROVE  /\ \E t \in {"config", "appl"} :
                  \E x \in Contents[t] \ {Absent} : <<g, x>> \in seen[t]
             /\ out.admin[g] # Blank =>
                  \E t \in {"config", "appl"} : <<g, out.admin[g]>> \in seen[t]
  <2>1. g \in names
    BY TypeFacts DEF IInv, BaseInv
  <2>2. \E t \in {"config", "appl"} : WasThere(t, g)
    BY <2>1 DEF IInv, NamesInv
  <2>3. out.admin[g] # Blank => \E t \in {"config", "appl"} : <<g, out.admin[g]>> \in seen[t]
    BY DEF IInv, OutInv, Walk
  <2> QED
    BY <2>2, <2>3 DEF WasThere
<1>2. ASSUME NEW m \in Members, NEW l \in Labels, out.members[<<m, l>>] > 0
      PROVE  /\ m[1] \in out.info
             /\ \E x \in Contents.member \ {Absent} : <<m, x>> \in seen["member"]
             /\ IF l \in Modes THEN <<m, l>> \in seen["member"]
                               ELSE \E x \in {Absent, Blank} : <<m, x>> \in seen["member"]
  <2> DEFINE y == <<m, l>>
  <2>1. y \in Members \X Labels /\ y[1] = m /\ y[2] = l /\ m[1] \in Groups
    BY NameFacts
  <2>2. out.members[y] > 0
    BY <1>2
  <2> HIDE DEF y
  <2>3. /\ y[1][1] \in out.info
        /\ \E i \in DOMAIN byGroup[y[1][1]] : byGroup[y[1][1]][i] = y
    BY <2>1, <2>2 DEF IInv, OutInv, Walk
  <2>4. EntryHeld(y)
    BY <2>1, <2>3 DEF IInv, EntryInv
  <2> QED
    BY <2>1, <2>3, <2>4 DEF EntryHeld, WasThere
<1> QED
  BY <1>1, <1>2 DEF NothingInvented

\* A group, a status or a member that a scrape reports was in the tables at some
\* moment of that scrape, although the rows are read one by one while they change.
THEOREM NothingIsInvented == Spec => []NothingInvented
BY InventedFromInv, Invariance, PTL

\* The entry of a member that stays, and the series made of it.
LEMMA MemberReported ==
  ASSUME IInv, pc = "done", NoLimitMet, NEW m \in Members,
         m[1] \in Visited, m[1] # NoName, db.member[m] # Absent, m \notin changed["member"]
  PROVE  /\ out.members[<<m, ModeOf(db.member[m])>>] > 0
         /\ ~repeated => out.members[<<m, ModeOf(db.member[m])>>] = 1
<1> DEFINE x == <<m, ModeOf(db.member[m])>>
           s == byGroup[m[1]]
           C == PlacesOf(s, Len(s), x)
<1>1. x \in Members \X Labels /\ x[1] = m /\ m[1] \in Groups
  BY NewEntryFacts
<1>2. s \in Seq(Members \X Labels)
  BY <1>1, TypeFacts DEF IInv, BaseInv
<1>3. Len(s) \in Nat /\ DOMAIN s = 1 .. Len(s)
  <2> HIDE DEF s
  <2> QED
    BY <1>2
<1>4. \E i \in DOMAIN s : s[i] = x
  <2>1. m \in Present("member") /\ IsStable("member", m)
    BY TableFacts DEF Present, IsStable
  <2>2. rows = <<>>
    BY DEF IInv, BaseInv, FreshInv, Walk
  <2> QED
    BY <2>1, <2>2, EmptyFacts DEF IInv, RowsInv, Read, Walk
<1>5. out.members[x] = Cardinality(C)
  BY <1>1 DEF IInv, LimitInv, Walk
<1>6. PICK i \in DOMAIN s : s[i] = x
  BY <1>4
<1>7. i \in C
  BY <1>3, <1>6 DEF PlacesOf
<1>8. IsFiniteSet(C) /\ Cardinality(C) \in Nat
  <2> HIDE DEF s, x
  <2> QED
    BY <1>3, CopiesType
<1>9. Cardinality(C) # 0
  BY <1>7, <1>8, FS_EmptySet
<1>10. ASSUME ~repeated PROVE Cardinality(C) = 1
  <2>1. \A j, k \in DOMAIN s : s[j][1] = s[k][1] => j = k
    BY <1>1, <1>10 DEF IInv, OnceInv, Read, Walk
  <2>2. ASSUME NEW j \in C PROVE j = i
    <3>1. j \in DOMAIN s /\ s[j] = x
      BY <1>3 DEF PlacesOf
    <3> QED
      BY <1>6, <2>1, <3>1
  <2>3. C = {i}
    BY <1>7, <2>2
  <2> QED
    BY <2>3, FS_Singleton
<1> HIDE DEF C, s
<1>11. Cardinality(C) > 0
  BY <1>8, <1>9
<1> QED
  BY <1>5, <1>10, <1>11

LEMMA ReportedFromInv == IInv => StableGroupReported
<1> SUFFICES ASSUME IInv, pc = "done", NoLimitMet,
                    NEW g \in Groups \ {NoName}, NEW t \in {"config", "appl"},
                    db[t][g] # Absent, g \notin changed[t]
             PROVE  /\ g \in out.info
                    /\ g \notin changed["config"] \cup changed["appl"] =>
                         out.admin[g] = AdminStatus(db.config[g], db.appl[g])
                    /\ \A m \in Members :
                         m[1] = g /\ db.member[m] # Absent /\ m \notin changed["member"] =>
                           /\ out.members[<<m, ModeOf(db.member[m])>>] > 0
                           /\ ~repeated => out.members[<<m, ModeOf(db.member[m])>>] = 1
  BY DEF StableGroupReported
<1>1. g \in names
  BY TableFacts DEF IInv, NamesInv, Present, IsStable, Read, Walk
<1>2. g \in Visited
  <2>1. index > Len(keys)
    BY DEF IInv, BaseInv, PositionInv
  <2> QED
    BY <1>1, <2>1, VisitedFacts DEF IInv, BaseInv, Walk
<1>3. g \in out.info
  BY <1>2 DEF IInv, LimitInv, Walk
<1>4. g \notin changed["config"] \cup changed["appl"] =>
        out.admin[g] = AdminStatus(db.config[g], db.appl[g])
  BY <1>3 DEF IInv, OutInv, Walk, IsStable
<1>5. \A m \in Members :
        m[1] = g /\ db.member[m] # Absent /\ m \notin changed["member"] =>
          /\ out.members[<<m, ModeOf(db.member[m])>>] > 0
          /\ ~repeated => out.members[<<m, ModeOf(db.member[m])>>] = 1
  BY <1>2, MemberReported
<1> QED
  BY <1>3, <1>4, <1>5

\* A group that stays in one of its tables is reported as long as no limit is
\* met, with every member that stays, and once unless SCAN repeated a key.
THEOREM StableGroupsReported == Spec => []StableGroupReported
BY ReportedFromInv, Invariance, PTL

-----------------------------------------------------------------------------
(* Tables at rest, and how the groups share the limit on members: the      *)
(* invariant, inductive relative to IInv.                                  *)

\* At rest a SCAN returns only what is there, and so do the slices made of it.
RestInv ==
  changed = Unchanged =>
    /\ pc \in Scans => window.ever \subseteq Present(pc)
    /\ names \subseteq Present("config") \cup Present("appl")
    /\ DOMAIN rows \subseteq Present("member")
    /\ \A g \in Groups : \A i \in DOMAIN byGroup[g] :
         /\ byGroup[g][i][1] \in Present("member")
         /\ byGroup[g][i][2] = ModeOf(db.member[byGroup[g][i][1]])

Rising(s)  == \A i, j \in 1 .. Len(s) : i < j => s[i] < s[j]
ByPort(s)  == \A i, j \in 1 .. Len(s) : i < j => s[i][1][2] <= s[j][1][2]

\* The groups are in the order of their names, the entries in that of their ports.
SortedInv ==
  /\ pc \in Walk => Rising(keys)
  /\ \A g \in Groups : ByPort(byGroup[g])

\* The first n values of f, and that they differ.
FirstOf(f, n) == {f[i] : i \in 1 .. n}
Differ(f, n)  == \A i, j \in 1 .. n : f[i] = f[j] => i = j

\* How many groups are reported before the one at index.
Reached == IF index <= config.maxGroups THEN index - 1 ELSE config.maxGroups

InfoInv ==
  /\ pc \in Walk => out.info = FirstOf(keys, Reached)
  /\ pc = "groupAppl" => index <= config.maxGroups

Smaller(G, g) == {h \in G : h < g}
Cut(n, most)  == IF n <= most THEN n ELSE most

\* An entry is reported if and only if there is room for it behind the entries of
\* the groups before its own, and those before it in its own.
Shared(b, G, gauge, most) ==
  \A g \in G :
    /\ gauge[g] \in 0 .. Len(b[g])
    /\ \A i \in 1 .. Len(b[g]) :
         i <= gauge[g] <=> Cardinality(Places(b, Smaller(G, g))) + i <= most

ShareInv ==
  pc \in Walk =>
    /\ processedMembers = Cut(Cardinality(Places(byGroup, out.info)), config.maxMembers)
    /\ Shared(byGroup, out.info, out.gauge, config.maxMembers)
    /\ \A x \in Members \X Labels :
         out.members[x] =
           IF x[1][1] \in out.info
           THEN Cardinality(PlacesOf(byGroup[x[1][1]], out.gauge[x[1][1]], x)) ELSE 0

QuietInv == RestInv /\ SortedInv /\ InfoInv /\ ShareInv

\* Nothing that is at rest was touched.
LEMMA RestKept ==
  ASSUME RestInv, UNCHANGED <<db, kind, changed, names, rows, byGroup>>,
         pc' \notin Scans \/ UNCHANGED <<pc, window>>
  PROVE  RestInv'
BY DEF RestInv, Present, ModeOf, Label

\* A SCAN of the names: what it adds is there.
LEMMA RestScan ==
  ASSUME IInv, RestInv, NEW t \in {"config", "appl"}, pc = t,
         \E f \in Redis!Counts(window) : Collected(f),
         NEW u \in {"appl", "member"}, pc' = u, window' = Redis!Opened(Present(u)),
         UNCHANGED <<db, kind, changed, rows, byGroup>>
  PROVE  RestInv'
<1>1. window'.ever = Present(u) /\ pc' = u
  BY DEF Redis!Opened
<1>2. names' \subseteq names \cup window.ever
  <2>1. /\ window.ever \subseteq Groups /\ names \subseteq Groups \ {NoName} /\ skipped \in Nat
    BY TypeFacts DEF IInv, BaseInv
  <2> QED
    BY <2>1, CollectedFacts
<1>3. changed = Unchanged => window.ever \subseteq Present(t)
  BY DEF RestInv, Scans
<1>4. changed = Unchanged => names' \subseteq Present("config") \cup Present("appl")
  BY <1>2, <1>3 DEF RestInv
<1> QED
  BY <1>1, <1>4 DEF RestInv, Present, ModeOf, Label

LEMMA RestStep ==
  ASSUME IInv, RestInv, [Next]_vars
  PROVE  RestInv'
<1>1. CASE ScanConfig
  BY <1>1, RestScan DEF ScanConfig, outside, history
<1>2. CASE ScanAppl
  BY <1>2, RestScan DEF ScanAppl, outside, history
<1>3. CASE ScanMembers
  <2>1. PICK f \in Redis!Counts(window) : rows' = f
    BY <1>3 DEF ScanMembers
  <2>2. /\ pc = "member" /\ pc' = "rows"
        /\ UNCHANGED <<db, kind, changed, names, byGroup>>
    BY <1>3 DEF ScanMembers, outside
  <2>3. DOMAIN rows' = window.ever
    BY <2>1, CountFacts
  <2> QED
    BY <2>2, <2>3 DEF RestInv, Scans, Present, ModeOf, Label
<1>4. ASSUME NEW m \in Members, ReadMember(m) PROVE RestInv'
  <2>1. /\ pc = "rows" /\ pc' = "rows" /\ m \in DOMAIN rows /\ DOMAIN rows' = DOMAIN rows
        /\ UNCHANGED <<db, kind, names, changed>>
        /\ m[1] \in Groups
        /\ m[1] = NoName => byGroup' = byGroup
        /\ m[1] # NoName =>
             /\ \A h \in Groups : h # m[1] => byGroup'[h] = byGroup[h]
             /\ Extended(byGroup[m[1]], byGroup'[m[1]], <<m, ModeOf(db.member[m])>>)
    BY <1>4, ReadMemberFacts DEF IInv
  <2>2. ASSUME changed = Unchanged, NEW g \in Groups, NEW i \in DOMAIN byGroup'[g]
        PROVE  /\ byGroup'[g][i][1] \in Present("member")
               /\ byGroup'[g][i][2] = ModeOf(db.member[byGroup'[g][i][1]])
    <3> DEFINE e == <<m, ModeOf(db.member[m])>>
    <3>1. e[1] \in Present("member") /\ e[2] = ModeOf(db.member[e[1]])
      BY <2>1, <2>2 DEF RestInv
    <3>2. \A j \in DOMAIN byGroup[g] : /\ byGroup[g][j][1] \in Present("member")
                                       /\ byGroup[g][j][2] = ModeOf(db.member[byGroup[g][j][1]])
      BY <2>2 DEF RestInv
    <3>3. CASE byGroup'[g] = byGroup[g]
      BY <2>2, <3>2, <3>3
    <3>4. CASE g = m[1] /\ m[1] # NoName
      <4>1. Extended(byGroup[g], byGroup'[g], e)
        BY <2>1, <3>4
      <4> HIDE DEF e
      <4>2. byGroup'[g][i] = e \/ \E j \in DOMAIN byGroup[g] : byGroup'[g][i] = byGroup[g][j]
        BY <2>2, <4>1 DEF Extended
      <4> QED
        BY <3>1, <3>2, <4>2
    <3> QED
      BY <2>1, <3>3, <3>4
  <2>3. Present("config")' = Present("config") /\ Present("appl")' = Present("appl")
        /\ Present("member")' = Present("member")
    BY <2>1 DEF Present
  <2>5. ASSUME changed = Unchanged, NEW g \in Groups, NEW i \in DOMAIN byGroup'[g]
        PROVE  /\ byGroup'[g][i][1] \in Present("member")'
               /\ byGroup'[g][i][2] = ModeOf(db.member[byGroup[g][i][1]])'
    <3>1. /\ byGroup'[g][i][1] \in Present("member")
          /\ byGroup'[g][i][2] = ModeOf(db.member[byGroup'[g][i][1]])
      BY <2>2, <2>5
    <3> QED
      BY <2>1, <2>3, <3>1 DEF ModeOf, Label
  <2>6. pc' \notin Scans
    BY <2>1 DEF Scans
  <2> QED
    BY <2>1, <2>3, <2>5, <2>6 DEF RestInv
<1>5. CASE MembersRead
  <2>1. /\ pc' = "group" /\ rows' = <<>> /\ UNCHANGED <<db, kind, changed, names, byGroup>>
    BY <1>5 DEF MembersRead, outside, history
  <2> QED
    BY <2>1, EmptyFacts DEF RestInv, Scans, Present, ModeOf, Label
<1>6. CASE SkipGroup \/ ReadConfig \/ ReadAppl \/ Finish \/ UNCHANGED vars
  <2>1. /\ UNCHANGED <<db, kind, changed, names, rows, byGroup>>
        /\ pc' \notin Scans \/ UNCHANGED <<pc, window>>
    BY <1>6 DEF SkipGroup, Visit, ReadConfig, ReadAppl, Finish, vars, outside, locals, history,
                Scans
  <2> QED
    BY <2>1, RestKept
<1>7. CASE Fail \/ Return
  <2>1. /\ names' = {} /\ DOMAIN rows' = {} /\ \A g \in Groups : DOMAIN byGroup'[g] = {}
    BY <1>7, ClearFacts, EmptyFacts
  <2>2. pc' \in Scans => pc' = "config" /\ window'.ever = Present("config")'
    <3>1. CASE Fail
      BY <3>1 DEF Fail, Scans
    <3>2. CASE Return
      BY <3>2 DEF Return, Redis!Opened, outside, Present
    <3> QED
      BY <1>7, <3>1, <3>2
  <2> QED
    BY <2>1, <2>2 DEF RestInv
<1>8. ASSUME NEW t \in Tables, NEW r \in RowsOf[t], Change(t, r) PROVE RestInv'
  <2>1. r \in changed'[t]
    <3>1. TypeOK /\ ShapeInv
      BY DEF IInv, BaseInv
    <3>2. \A u \in Tables : changed'[u] = IF u = t THEN changed[u] \cup {r} ELSE changed[u]
      BY <1>8, <3>1, ChangeFacts
    <3> QED
      BY <3>2
  <2>2. changed' # Unchanged
    BY <2>1 DEF Unchanged
  <2> QED
    BY <2>2 DEF RestInv
<1> QED
  BY <1>1, <1>2, <1>3, <1>4, <1>5, <1>6, <1>7, <1>8 DEF Next

\* The insertion keeps a slice sorted.
LEMMA InsertByPort ==
  ASSUME byGroup \in [Groups -> Seq(Members \X Labels)], NEW g \in Groups,
         NEW e \in Members \X Labels, AppendEntry(g, e), ByPort(byGroup[g])
  PROVE  ByPort(byGroup'[g])
<1>1. PICK i \in 1 .. Len(byGroup[g]) + 1 :
        /\ \A j \in 1 .. i - 1 : byGroup[g][j][1][2] <= e[1][2]
        /\ \A j \in i .. Len(byGroup[g]) : e[1][2] <= byGroup[g][j][1][2]
        /\ byGroup' = [byGroup EXCEPT ![g] = InsertAt(@, i, e)]
  BY DEF AppendEntry
<1>2. PICK s \in Seq(Members \X Labels) : s = byGroup[g]
  OBVIOUS
<1>3. PICK r : r = byGroup'[g]
  OBVIOUS
<1>4. r = InsertAt(s, i, e)
  BY <1>1, <1>2, <1>3
<1>5. PICK n \in Nat : n = Len(s) /\ DOMAIN s = 1 .. n
  BY LenProperties
<1> DEFINE S == Members \X Labels
<1>6. /\ Len(r) = n + 1
      /\ \A j \in 1 .. n + 1 : r[j] = IF j < i THEN s[j] ELSE IF j = i THEN e ELSE s[j - 1]
  <2>1. s \in Seq(S) /\ e \in S /\ i \in 1 .. Len(s) + 1
    BY <1>1, <1>2
  <2> HIDE DEF S
  <2>2. /\ Len(InsertAt(s, i, e)) = Len(s) + 1
        /\ \A j \in 1 .. Len(s) + 1 :
             InsertAt(s, i, e)[j] = IF j < i THEN s[j] ELSE IF j = i THEN e ELSE s[j - 1]
    BY <2>1, InsertFacts
  <2> QED
    BY <1>4, <1>5, <2>2
<1> DEFINE p == [j \in 1 .. n |-> s[j][1][2]]
           x == e[1][2]
           q == [j \in 1 .. n + 1 |-> r[j][1][2]]
<1>7. /\ \A j \in 1 .. n : p[j] \in Nat
      /\ x \in Nat
  <2>1. \A j \in 1 .. n : s[j] \in Members \X Labels
    BY <1>5, ElementOfSeq
  <2> QED
    BY <2>1, NameFacts
<1>8. \A j \in 1 .. n + 1 : q[j] = IF j < i THEN p[j] ELSE IF j = i THEN x ELSE p[j - 1]
  BY <1>1, <1>2, <1>5, <1>6
<1>9. /\ \A j \in 1 .. i - 1 : p[j] <= x
      /\ \A j \in i .. n : x <= p[j]
      /\ \A j, k \in 1 .. n : j < k => p[j] <= p[k]
  BY <1>1, <1>2, <1>5 DEF ByPort
<1>10. i \in 1 .. n + 1
  BY <1>1, <1>2, <1>5
<1> HIDE DEF p, q, x
<1>11. ASSUME NEW j \in 1 .. n + 1, NEW k \in 1 .. n + 1, j < k PROVE q[j] <= q[k]
  <2>1. CASE k < i
    BY <1>8, <1>9, <1>10, <1>11, <2>1
  <2>2. CASE k = i
    <3>1. j < i /\ j \in 1 .. i - 1 /\ q[j] = p[j] /\ q[k] = x
      BY <1>8, <1>10, <1>11, <2>2
    <3> QED
      BY <1>9, <3>1
  <2>3. CASE k > i /\ j < i
    <3>1. q[j] = p[j] /\ q[k] = p[k - 1] /\ j \in 1 .. i - 1 /\ k - 1 \in i .. n
      BY <1>8, <1>10, <2>3
    <3>2. p[j] <= x /\ x <= p[k - 1] /\ p[j] \in Nat /\ p[k - 1] \in Nat /\ x \in Nat
      BY <1>7, <1>9, <1>10, <3>1
    <3> QED
      BY <3>1, <3>2
  <2>4. CASE k > i /\ j = i
    BY <1>8, <1>9, <1>10, <1>11, <2>4
  <2>5. CASE k > i /\ j > i
    <3>1. q[j] = p[j - 1] /\ q[k] = p[k - 1] /\ j - 1 \in 1 .. n /\ k - 1 \in 1 .. n
      BY <1>8, <1>10, <2>5
    <3> QED
      BY <1>9, <1>11, <3>1
  <2> QED
    BY <2>1, <2>2, <2>3, <2>4, <2>5, <1>10
<1> QED
  BY <1>3, <1>6, <1>11 DEF ByPort, q

LEMMA SortedStep ==
  ASSUME IInv, SortedInv, [Next]_vars
  PROVE  SortedInv'
<1>1. CASE UNCHANGED byGroup /\ UNCHANGED keys /\ (pc' \in Walk => pc \in Walk)
  BY <1>1 DEF SortedInv
<1>2. CASE Fail \/ Return
  <2>1. \A g \in Groups : byGroup'[g] = <<>>
    BY <1>2, ClearFacts
  <2>2. pc' \notin Walk
    BY <1>2, ClearFacts
  <2>3. \A g \in Groups : ByPort(byGroup'[g])
    BY <2>1, EmptyFacts DEF ByPort
  <2> QED
    BY <2>2, <2>3 DEF SortedInv
<1>3. CASE MembersRead
  <2>1. PICK s \in Redis!Ascending(names) : keys' = s
    BY <1>3 DEF MembersRead
  <2>2. UNCHANGED byGroup
    BY <1>3 DEF MembersRead
  <2>3. names \in SUBSET Groups
    BY TypeFacts DEF IInv, BaseInv
  <2>4. s \in Seq(Groups) /\ \A i, j \in DOMAIN s : i < j => s[i] < s[j]
    BY <2>1, <2>3, AscendingFacts DEF Redis!Ascending
  <2>5. Rising(s)
    BY <2>4, LenProperties DEF Rising
  <2> QED
    BY <2>1, <2>2, <2>5 DEF SortedInv
<1>4. ASSUME NEW m \in Members, ReadMember(m) PROVE SortedInv'
  <2>1. /\ pc' \notin Walk
        /\ m[1] = NoName => byGroup' = byGroup
        /\ m[1] # NoName => AppendEntry(m[1], <<m, ModeOf(db.member[m])>>)
    BY <1>4 DEF ReadMember, Walk
  <2>2. /\ m[1] \in Groups /\ <<m, ModeOf(db.member[m])>> \in Members \X Labels
        /\ byGroup \in [Groups -> Seq(Members \X Labels)]
    BY NewEntryFacts, TypeFacts DEF IInv, BaseInv
  <2>3. CASE m[1] = NoName
    BY <2>1, <2>3 DEF SortedInv
  <2>4. CASE m[1] # NoName
    <3>1. \A h \in Groups : h # m[1] => byGroup'[h] = byGroup[h]
      BY <2>1, <2>2, <2>4, AppendFacts
    <3>2. ByPort(byGroup'[m[1]])
      BY <2>1, <2>2, <2>4, InsertByPort DEF SortedInv
    <3>3. \A g \in Groups : ByPort(byGroup'[g])
      BY <3>1, <3>2 DEF SortedInv
    <3> QED
      BY <2>1, <3>3 DEF SortedInv
  <2> QED
    BY <2>3, <2>4
<1>5. CASE Elsewhere
  BY <1>1, <1>5, ElsewhereFacts
<1>6. CASE ScanMembers
  BY <1>1, <1>6 DEF ScanMembers, Walk
<1>7. ASSUME NEW t \in Tables, NEW r \in RowsOf[t], Change(t, r) PROVE SortedInv'
  BY <1>1, <1>7 DEF Change
<1> QED
  BY <1>2, <1>3, <1>4, <1>5, <1>6, <1>7 DEF Next, Elsewhere

LEMMA ImageSize ==
  ASSUME NEW n \in Nat, NEW f, Differ(f, n)
  PROVE  IsFiniteSet(FirstOf(f, n)) /\ Cardinality(FirstOf(f, n)) = n
<1> DEFINE T == FirstOf(f, n)
           g == [i \in 1 .. n |-> f[i]]
<1>1. IsFiniteSet(1 .. n) /\ Cardinality(1 .. n) = n
  BY FS_Interval
<1>2. g \in Bijection(1 .. n, T)
  BY DEF Bijection, Injection, Surjection, IsInjective, FirstOf, Differ
<1>3. ExistsBijection(1 .. n, T)
  BY <1>2 DEF ExistsBijection
<1> HIDE DEF T, g
<1>4. IsFiniteSet(T) /\ Cardinality(T) = Cardinality(1 .. n)
  BY <1>1, <1>3, FS_Bijection
<1> QED
  BY <1>1, <1>4 DEF T

\* The groups reported are as many as were visited, up to the limit.
LEMMA ReachedFacts ==
  ASSUME BaseInv, InfoInv, pc \in Walk
  PROVE  /\ index \in Nat \ {0} /\ index <= Len(keys) + 1 /\ Len(keys) \in Nat
         /\ config.maxGroups \in Nat \ {0}
         /\ Reached \in Nat /\ Reached <= index - 1
         /\ IsFiniteSet(out.info) /\ Cardinality(out.info) = Reached
<1>1. /\ index \in Nat \ {0} /\ index <= Len(keys) + 1 /\ Len(keys) \in Nat
      /\ config.maxGroups \in Nat \ {0}
  BY ConfigFacts DEF BaseInv, TypeOK
<1>2. Reached \in Nat /\ Reached <= index - 1
  BY <1>1 DEF Reached
<1>3. PICK f : f = keys
  OBVIOUS
<1>4. PICK n \in Nat : n = Reached
  BY <1>2
<1>5. \A i \in 1 .. n : i \in 1 .. Len(keys)
  BY <1>1, <1>2, <1>4
<1>6. Differ(f, n)
  BY <1>3, <1>5 DEF BaseInv, KeysInv, Differ
<1>7. out.info = FirstOf(f, n)
  BY <1>3, <1>4 DEF InfoInv
<1> QED
  BY <1>1, <1>2, <1>4, <1>6, <1>7, ImageSize

LEMMA InfoKept ==
  ASSUME InfoInv, UNCHANGED <<config, pc, keys, index, out>>
  PROVE  InfoInv'
BY DEF InfoInv, Reached

LEMMA InfoStep ==
  ASSUME IInv, InfoInv, [Next]_vars
  PROVE  InfoInv'
<1>0. BaseInv
  BY DEF IInv
<1>1. CASE pc' \notin Walk
  BY <1>1 DEF InfoInv, Walk
<1>2. CASE ScanConfig \/ ScanAppl \/ ScanMembers \/ Fail \/ Return
  BY <1>1, <1>2 DEF ScanConfig, ScanAppl, ScanMembers, Fail, Return, Walk
<1>3. CASE \E m \in Members : ReadMember(m)
  BY <1>1, <1>3 DEF ReadMember, Walk
<1>4. CASE MembersRead
  <2>1. /\ pc = "rows" /\ pc' = "group" /\ index' = 1 /\ UNCHANGED <<out, config>>
    BY <1>4 DEF MembersRead, result, outside
  <2>2. out'.info = {}
    BY <1>0, <2>1 DEF BaseInv, FreshInv, Walk, NoSeries
  <2>3. config.maxGroups \in Nat \ {0}
    BY <1>0, ConfigFacts DEF BaseInv, TypeOK
  <2>4. Reached' = 0
    BY <2>1, <2>3 DEF Reached
  <2>5. FirstOf(keys, Reached)' = {}
    BY <2>4 DEF FirstOf
  <2> QED
    BY <2>1, <2>2, <2>5 DEF InfoInv
<1>5. CASE SkipGroup
  <2>1. /\ pc = "group" /\ pc' = pc /\ Full /\ index' = index + 1
        /\ UNCHANGED <<config, keys, out>>
    BY <1>5 DEF SkipGroup, Visit, outside
  <2>2. /\ index \in Nat \ {0} /\ config.maxGroups \in Nat \ {0}
        /\ Cardinality(out.info) = Reached
    BY <1>0, <2>1, ReachedFacts DEF Walk
  <2>3. ~(index <= config.maxGroups)
    BY <2>1, <2>2 DEF Full, Reached
  <2>4. Reached' = Reached
    BY <2>1, <2>2, <2>3 DEF Reached
  <2> QED
    BY <2>1, <2>4 DEF InfoInv, Walk
<1>6. CASE ReadConfig
  <2>1. /\ pc = "group" /\ pc' = "groupAppl" /\ ~Full
        /\ UNCHANGED <<config, keys, index, out>>
    BY <1>6 DEF ReadConfig, Visit, outside, result
  <2>2. /\ index \in Nat \ {0} /\ config.maxGroups \in Nat \ {0}
        /\ Cardinality(out.info) = Reached
    BY <1>0, <2>1, ReachedFacts DEF Walk
  <2>3. index <= config.maxGroups
    BY <2>1, <2>2 DEF Full, Reached
  <2> QED
    BY <2>1, <2>3 DEF InfoInv, Walk, Reached
<1>7. CASE ReadAppl
  <2>1. /\ pc = "groupAppl" /\ pc' = "group" /\ index' = index + 1 /\ UNCHANGED <<config, keys>>
        /\ out'.info = out.info \cup {keys[index]}
    BY <1>0, <1>7, ReadApplFacts
  <2>2. /\ index \in Nat \ {0} /\ config.maxGroups \in Nat \ {0}
    BY <1>0, <2>1, ReachedFacts DEF Walk
  <2>3. index <= config.maxGroups /\ out.info = FirstOf(keys, Reached)
    BY <2>1 DEF InfoInv, Walk
  <2>4. Reached = index - 1 /\ Reached' = index
    BY <2>1, <2>2, <2>3 DEF Reached
  <2>5. 1 .. index = (1 .. index - 1) \cup {index}
    BY <2>2
  <2>6. FirstOf(keys, index) = FirstOf(keys, index - 1) \cup {keys[index]}
    BY <2>5 DEF FirstOf
  <2>7. out'.info = FirstOf(keys', Reached')
    BY <2>1, <2>3, <2>4, <2>6
  <2> QED
    BY <2>1, <2>7 DEF InfoInv
<1>8. CASE Finish
  <2>1. pc = "group" /\ pc' = "done" /\ UNCHANGED <<config, keys, index, out>>
    BY <1>8 DEF Finish, outside, locals, result
  <2> QED
    BY <2>1 DEF InfoInv, Walk, Reached
<1>9. CASE UNCHANGED vars
  BY <1>9, InfoKept DEF vars, outside, locals, result
<1>10. ASSUME NEW t \in Tables, NEW r \in RowsOf[t], Change(t, r) PROVE InfoInv'
  BY <1>10, InfoKept DEF Change, result
<1> QED
  BY <1>2, <1>3, <1>4, <1>5, <1>6, <1>7, <1>8, <1>9, <1>10 DEF Next

-----------------------------------------------------------------------------
(* The shares of the groups.                                               *)

\* What the group at hand gets of the limit: n of its entries, when those of the
\* groups before it are p.
LEMMA ShareOfGroup ==
  ASSUME NEW most \in Nat, NEW p \in Nat, NEW len \in Nat, NEW n,
         n = IF len <= most - Cut(p, most) THEN len ELSE most - Cut(p, most)
  PROVE  /\ n \in 0 .. len
         /\ \A i \in 1 .. len : i <= n <=> p + i <= most
         /\ Cut(p, most) + n = Cut(p + len, most)
BY DEF Cut

\* A group behind all others changes the share of none of them.
LEMMA SharedNext ==
  ASSUME NEW G \in SUBSET Groups, NEW g \in Groups, \A h \in G : h < g,
         NEW b, NEW gauge \in [Groups -> Nat], NEW most, NEW n \in 0 .. Len(b[g]),
         Shared(b, G, gauge, most),
         \A i \in 1 .. Len(b[g]) : i <= n <=> Cardinality(Places(b, G)) + i <= most
  PROVE  Shared(b, G \cup {g}, [gauge EXCEPT ![g] = n], most)
<1>1. g \in Nat /\ \A h \in G : h \in Nat
  BY NameFacts
<1>2. g \notin G
  BY <1>1
<1>3. Smaller(G \cup {g}, g) = G
  <2>1. ~(g < g)
    BY <1>1
  <2> QED
    BY <2>1, Zenon DEF Smaller
<1>4. \A h \in G : Smaller(G \cup {g}, h) = Smaller(G, h)
  <2> SUFFICES ASSUME NEW h \in G PROVE ~(g < h)
    BY DEF Smaller
  <2> QED
    BY <1>1
<1> DEFINE new == [gauge EXCEPT ![g] = n]
<1>5. new[g] = n /\ \A h \in G : new[h] = gauge[h]
  BY <1>2
<1> HIDE DEF new
<1>6. ASSUME NEW h \in G \cup {g}
      PROVE  /\ new[h] \in 0 .. Len(b[h])
             /\ \A i \in 1 .. Len(b[h]) :
                  i <= new[h] <=> Cardinality(Places(b, Smaller(G \cup {g}, h))) + i <= most
  <2>1. CASE h = g
    BY <1>3, <1>5, <2>1
  <2>2. CASE h \in G
    BY <1>4, <1>5, <2>2 DEF Shared
  <2> QED
    BY <2>1, <2>2
<1>7. Shared(b, G \cup {g}, new, most)
  BY <1>6 DEF Shared
<1> QED
  BY <1>7 DEF new

LEMMA ShareKept ==
  ASSUME ShareInv, UNCHANGED <<config, byGroup, out, processedMembers>>,
         pc' \in Walk => pc \in Walk
  PROVE  ShareInv'
BY DEF ShareInv

\* The group at hand comes after those that are reported.
LEMMA GroupBehind ==
  ASSUME BaseInv, OutInv, SortedInv, pc = "groupAppl", index <= Len(keys)
  PROVE  \A h \in out.info : h < keys[index]
<1>1. index \in Nat \ {0} /\ Len(keys) \in Nat
  BY DEF BaseInv, TypeOK
<1>2. Rising(keys) /\ out.info \subseteq Visited
  BY DEF SortedInv, OutInv, Walk
<1>3. ASSUME NEW j \in 1 .. index - 1 PROVE keys[j] < keys[index]
  <2>1. j \in 1 .. Len(keys) /\ index \in 1 .. Len(keys) /\ j < index
    BY <1>1
  <2> QED
    BY <1>2, <2>1 DEF Rising
<1> QED
  BY <1>2, <1>3 DEF Visited

LEMMA ReadApplShare ==
  ASSUME IInv, SortedInv, ShareInv, ReadAppl
  PROVE  ShareInv'
<1>0. BaseInv /\ EntryInv /\ OutInv
  BY DEF IInv
<1>1. /\ pc = "groupAppl" /\ index <= Len(keys) /\ keys[index] \in Groups
      /\ UNCHANGED <<config, byGroup>>
  BY <1>0, ReadApplFacts
<1>2. PICK n \in Nat :
        /\ n = IF Len(byGroup[keys[index]]) <= Room THEN Len(byGroup[keys[index]]) ELSE Room
        /\ out'.info = out.info \cup {keys[index]}
        /\ out'.members = [x \in Members \X Labels |->
             out.members[x] + Cardinality({i \in 1 .. n : byGroup[keys[index]][i] = x})]
        /\ out'.gauge = [out.gauge EXCEPT ![keys[index]] = n]
        /\ processedMembers' = processedMembers + n
  BY <1>0, ReadApplFacts
<1>3. PICK g \in Groups : g = keys[index]
  BY <1>1
<1>4. PICK b \in [Groups -> Seq(Members \X Labels)] : b = byGroup
  BY <1>0, TypeFacts DEF BaseInv
<1>5. PICK G : G = out.info
  OBVIOUS
<1>6. PICK most \in Nat : most = config.maxMembers
  BY <1>0, ConfigFacts DEF BaseInv, TypeOK
<1>7. G \in SUBSET Groups /\ (\A h \in G : h < g) /\ g \notin G
  <2>1. G \in SUBSET Groups
    BY <1>0, <1>5, TypeFacts DEF BaseInv
  <2>2. \A h \in G : h < g
    BY <1>0, <1>1, <1>3, <1>5, GroupBehind
  <2>3. ~(g < g)
    BY NameFacts
  <2> QED
    BY <2>1, <2>2, <2>3
<1>8. /\ Cardinality(Places(b, G)) \in Nat
      /\ Cardinality(Places(b, G \cup {g})) = Cardinality(Places(b, G)) + Len(b[g])
  BY <1>4, <1>7, PlacesFacts
<1>9. Len(b[g]) \in Nat /\ DOMAIN b[g] = 1 .. Len(b[g])
  <2>1. b[g] \in Seq(Members \X Labels)
    BY <1>4
  <2> QED
    BY <2>1
<1>10. /\ processedMembers = Cut(Cardinality(Places(b, G)), most)
       /\ Shared(b, G, out.gauge, most)
       /\ \A x \in Members \X Labels :
            out.members[x] =
              IF x[1][1] \in G THEN Cardinality(PlacesOf(b[x[1][1]], out.gauge[x[1][1]], x)) ELSE 0
  BY <1>1, <1>4, <1>5, <1>6 DEF ShareInv, Walk
<1>11. PICK p \in Nat : p = Cardinality(Places(b, G))
  BY <1>8
<1>12. PICK len \in Nat : len = Len(b[g])
  BY <1>9
<1>13. n = IF len <= most - Cut(p, most) THEN len ELSE most - Cut(p, most)
  BY <1>2, <1>3, <1>4, <1>6, <1>10, <1>11, <1>12 DEF Room
<1>14. /\ n \in 0 .. len
       /\ \A i \in 1 .. len : i <= n <=> p + i <= most
       /\ Cut(p, most) + n = Cut(p + len, most)
  BY <1>13, ShareOfGroup
<1>15. out.gauge \in [Groups -> Nat]
  BY <1>0, <1>6, TypeFacts DEF BaseInv
<1>16. out'.gauge = [out.gauge EXCEPT ![g] = n] /\ out'.info = G \cup {g}
  BY <1>2, <1>3, <1>5
<1>17. Shared(b, G \cup {g}, out'.gauge, most)
  <2>1. /\ n \in 0 .. Len(b[g])
        /\ \A i \in 1 .. Len(b[g]) : i <= n <=> Cardinality(Places(b, G)) + i <= most
    BY <1>11, <1>12, <1>14
  <2>2. PICK gauge \in [Groups -> Nat] : gauge = out.gauge
    BY <1>15
  <2>3. Shared(b, G, gauge, most)
    BY <1>10, <2>2
  <2>4. Shared(b, G \cup {g}, [gauge EXCEPT ![g] = n], most)
    BY <1>7, <2>1, <2>3, SharedNext
  <2> QED
    BY <1>16, <2>2, <2>4
<1>18. processedMembers' = Cut(Cardinality(Places(b, G \cup {g})), most)
  BY <1>2, <1>8, <1>10, <1>11, <1>12, <1>14
<1>19. ASSUME NEW x \in Members \X Labels
       PROVE  out'.members[x] =
                IF x[1][1] \in G \cup {g}
                THEN Cardinality(PlacesOf(b[x[1][1]], out'.gauge[x[1][1]], x)) ELSE 0
  <2> DEFINE C == PlacesOf(b[g], n, x)
  <2>1. out'.members[x] = out.members[x] + Cardinality(C)
    BY <1>2, <1>3, <1>4 DEF PlacesOf
  <2>2. Cardinality(C) \in Nat /\ out.members[x] \in Nat /\ x[1][1] \in Groups
    <3>1. Cardinality(C) \in Nat
      BY CopiesType
    <3>2. out.members[x] \in Nat
      BY <1>0, TypeFacts DEF BaseInv
    <3> QED
      BY <3>1, <3>2, NameFacts
  <2>3. CASE x[1][1] = g
    <3>1. out.members[x] = 0
      BY <1>7, <1>10, <2>3
    <3>2. out'.gauge[g] = n
      BY <1>15, <1>16
    <3> HIDE DEF C
    <3>3. out'.members[x] = Cardinality(C)
      BY <2>1, <2>2, <3>1
    <3> QED
      BY <2>3, <3>2, <3>3 DEF C
  <2>4. CASE x[1][1] # g
    <3>1. C = {}
      <4> SUFFICES ASSUME NEW i \in 1 .. n, b[g][i] = x PROVE FALSE
        BY DEF PlacesOf
      <4>1. i \in DOMAIN b[g]
        BY <1>9, <1>12, <1>14
      <4>2. b[g][i][1][1] = g
        BY <1>0, <1>4, <4>1 DEF EntryInv
      <4> QED
        BY <2>4, <4>2
    <3>2. Cardinality(C) = 0
      BY <3>1, FS_EmptySet
    <3> HIDE DEF C
    <3>3. out'.members[x] = out.members[x]
      BY <2>1, <2>2, <3>2
    <3>4. out'.gauge[x[1][1]] = out.gauge[x[1][1]]
      BY <1>15, <1>16, <2>2, <2>4
    <3> QED
      BY <1>10, <2>4, <3>3, <3>4
  <2> QED
    BY <2>3, <2>4
<1>20. byGroup' = b /\ config'.maxMembers = most
  BY <1>1, <1>4, <1>6
<1> QED
  BY <1>16, <1>17, <1>18, <1>19, <1>20 DEF ShareInv

LEMMA ShareStep ==
  ASSUME IInv, SortedInv, ShareInv, [Next]_vars
  PROVE  ShareInv'
<1>1. CASE pc' \notin Walk
  BY <1>1 DEF ShareInv
<1>2. CASE ScanConfig \/ ScanAppl \/ ScanMembers \/ Fail \/ Return
  BY <1>1, <1>2 DEF ScanConfig, ScanAppl, ScanMembers, Fail, Return, Walk
<1>3. CASE \E m \in Members : ReadMember(m)
  BY <1>1, <1>3 DEF ReadMember, Walk
<1>4. CASE MembersRead
  <2>1. /\ pc = "rows" /\ UNCHANGED <<config, byGroup, out, processedMembers>>
    BY <1>4 DEF MembersRead, result, outside
  <2>2. out = NoSeries /\ processedMembers = 0
    BY <2>1 DEF IInv, BaseInv, FreshInv, Walk
  <2>3. out'.info = {} /\ \A x \in Members \X Labels : out'.members[x] = 0
    BY <2>1, <2>2 DEF NoSeries
  <2>4. Cardinality(Places(byGroup', {})) = 0
    <3>1. byGroup' \in [Groups -> Seq(Members \X Labels)]
      BY <2>1, TypeFacts DEF IInv, BaseInv
    <3> QED
      BY <3>1, PlacesFacts
  <2>5. config'.maxMembers \in Nat
    BY <2>1, ConfigFacts DEF IInv, BaseInv, TypeOK
  <2>6. processedMembers' = Cut(0, config'.maxMembers)
    BY <2>1, <2>2, <2>5 DEF Cut
  <2>7. Shared(byGroup', {}, out'.gauge, config'.maxMembers)
    BY DEF Shared
  <2> QED
    BY <2>3, <2>4, <2>6, <2>7 DEF ShareInv
<1>5. CASE ReadAppl
  BY <1>5, ReadApplShare
<1>6. CASE SkipGroup \/ ReadConfig \/ Finish \/ UNCHANGED vars
  <2>1. /\ UNCHANGED <<config, byGroup, out, processedMembers>>
        /\ pc \in Walk \/ pc' = pc
    BY <1>6 DEF SkipGroup, ReadConfig, Finish, Visit, vars, outside, locals, result, Walk
  <2> QED
    BY <2>1, ShareKept
<1>7. CASE \E t \in Tables : \E r \in RowsOf[t] : Change(t, r)
  <2>1. UNCHANGED <<config, pc, byGroup, out, processedMembers>>
    BY <1>7 DEF Change, result
  <2> QED
    BY <2>1, ShareKept
<1> QED
  BY <1>2, <1>3, <1>4, <1>5, <1>6, <1>7 DEF Next

LEMMA QuietInvariance == Spec => [](IInv /\ QuietInv)
<1>1. Init => IInv /\ QuietInv
  <2> SUFFICES ASSUME Init PROVE IInv /\ QuietInv
    OBVIOUS
  <2>1. IInv
    BY InitIInv
  <2>2. /\ pc = "config" /\ window = Redis!Opened(Present("config"))
        /\ names = {} /\ rows = <<>> /\ byGroup = NoMembers
    BY DEF Init
  <2>3. window.ever = Present("config")
    BY <2>2, WindowFacts
  <2>4. \A g \in Groups : byGroup[g] = <<>>
    BY <2>2 DEF NoMembers
  <2>5. RestInv
    BY <2>2, <2>3, <2>4, EmptyFacts DEF RestInv
  <2>6. \A g \in Groups : ByPort(byGroup[g])
    BY <2>4, EmptyFacts DEF ByPort
  <2>7. SortedInv /\ InfoInv /\ ShareInv
    BY <2>2, <2>6 DEF SortedInv, InfoInv, ShareInv, Walk
  <2> QED
    BY <2>1, <2>5, <2>7 DEF QuietInv
<1>2. IInv /\ QuietInv /\ [Next]_vars => IInv' /\ QuietInv'
  BY NextIInv, RestStep, SortedStep, InfoStep, ShareStep DEF QuietInv
<1> QED
  BY <1>1, <1>2, PTL DEF Spec

-----------------------------------------------------------------------------
(* What a scrape of tables at rest reports.                                *)

\* In a sequence that rises, a position is one more than a rank.
LEMMA RankInRising ==
  ASSUME NEW n \in Nat, NEW f, \A i \in 1 .. n : f[i] \in Nat,
         \A i, j \in 1 .. n : i < j => f[i] < f[j], NEW j \in 1 .. n
  PROVE  Cardinality(Smaller(FirstOf(f, n), f[j])) = j - 1
<1>1. \A i \in 1 .. n : f[i] < f[j] <=> i < j
  <2> SUFFICES ASSUME NEW i \in 1 .. n, f[i] < f[j], ~(i < j) PROVE FALSE
    OBVIOUS
  <2>1. i = j \/ j < i
    OBVIOUS
  <2>2. f[i] = f[j] \/ f[j] < f[i]
    BY <2>1
  <2> QED
    BY <2>2
<1>2. PICK m \in Nat : m = j - 1 /\ m <= n
  OBVIOUS
<1>3. \A i \in 1 .. n : f[i] < f[j] <=> i \in 1 .. m
  BY <1>1, <1>2
<1>4. Smaller(FirstOf(f, n), f[j]) = FirstOf(f, m)
  <2>1. FirstOf(f, m) \subseteq FirstOf(f, n)
    BY <1>2 DEF FirstOf
  <2> QED
    BY <1>2, <1>3, <2>1 DEF FirstOf, Smaller
<1>5. Differ(f, m)
  <2> SUFFICES ASSUME NEW i \in 1 .. m, NEW k \in 1 .. m, f[i] = f[k], i # k PROVE FALSE
    BY DEF Differ
  <2>1. i \in 1 .. n /\ k \in 1 .. n /\ (i < k \/ k < i)
    BY <1>2
  <2>2. f[i] < f[k] \/ f[k] < f[i]
    BY <2>1
  <2> QED
    BY <2>1, <2>2
<1> QED
  BY <1>2, <1>4, <1>5, ImageSize

\* The groups reported are the first ones.
LEMMA InfoIsFirst ==
  ASSUME IInv, QuietInv, pc = "done", changed = Unchanged
  PROVE  out.info = FirstGroups
<1> DEFINE all == (Present("config") \cup Present("appl")) \ {NoName}
<1>1. names = all
  <2>1. \A t \in Tables : changed[t] = {}
    BY DEF Unchanged
  <2>2. \A t \in {"config", "appl"} : \A g : IsStable(t, g)
    BY <2>1, TableFacts DEF IsStable
  <2>3. all \subseteq names
    BY <2>2 DEF IInv, NamesInv, Read, Walk
  <2>4. names \subseteq all
    <3>1. NoName \notin names
      BY TypeFacts DEF IInv, BaseInv
    <3> QED
      BY <3>1 DEF QuietInv, RestInv
  <2> QED
    BY <2>3, <2>4
<1>2. /\ index \in Nat \ {0} /\ index <= Len(keys) + 1 /\ Len(keys) \in Nat
      /\ config.maxGroups \in Nat \ {0} /\ Reached \in Nat /\ index > Len(keys)
  BY ReachedFacts DEF IInv, BaseInv, PositionInv, QuietInv, Walk
<1>3. PICK n \in Nat : n = Len(keys)
  BY <1>2
<1>4. PICK f : f = keys
  OBVIOUS
<1>5. PICK most \in Nat : most = config.maxGroups
  BY <1>2
<1>6. PICK r \in Nat : r = Reached
  BY <1>2
<1>7. r <= n /\ \A j \in 1 .. n : j \in 1 .. r <=> j - 1 < most
  BY <1>2, <1>3, <1>5, <1>6 DEF Reached
<1>8. FirstOf(f, n) = all /\ out.info = FirstOf(f, r)
  BY <1>1, <1>3, <1>4, <1>6 DEF IInv, BaseInv, KeysInv, QuietInv, InfoInv, FirstOf, Walk
<1>9. /\ \A i \in 1 .. n : f[i] \in Nat
      /\ \A i, j \in 1 .. n : i < j => f[i] < f[j]
  <2>1. keys \in Seq(Groups)
    BY TypeFacts DEF IInv, BaseInv
  <2>2. \A i \in 1 .. n : f[i] \in Groups
    BY <1>3, <1>4, <2>1, ElementOfSeq
  <2> QED
    BY <1>3, <1>4, <2>2, NameFacts DEF QuietInv, SortedInv, Rising, Walk
<1>10. \A j \in 1 .. n : Cardinality(Smaller(all, f[j])) = j - 1
  BY <1>8, <1>9, RankInRising
<1>11. ASSUME NEW g \in all
       PROVE  g \in out.info <=> Cardinality(Smaller(all, g)) < most
  <2>1. PICK j \in 1 .. n : g = f[j]
    BY <1>8 DEF FirstOf
  <2>2. g \in out.info <=> j \in 1 .. r
    <3>1. ASSUME NEW i \in 1 .. r, f[i] = f[j] PROVE i = j
      <4>1. i \in 1 .. n
        BY <1>7
      <4>2. ~(i < j) /\ ~(j < i)
        BY <1>9, <3>1, <4>1
      <4> QED
        BY <4>1, <4>2
    <3> QED
      BY <1>8, <2>1, <3>1 DEF FirstOf
  <2> QED
    BY <1>7, <1>10, <2>1, <2>2
<1>12. out.info \subseteq all
  BY <1>7, <1>8 DEF FirstOf
<1>13. FirstGroups = {g \in all : Cardinality(Smaller(all, g)) < most}
  BY <1>5 DEF FirstGroups, Smaller
<1> HIDE DEF all
<1> QED
  BY <1>11, <1>12, <1>13

\* The members of the places P, and those of M before the port q of g.
MembersAt(b, P)  == {b[p[1]][p[2]][1] : p \in P}
Before(M, g, q)  == {l \in M : l[1] < g \/ (l[1] = g /\ l[2] < q)}

\* Each place of the groups G has a member of its own, in the order of the places.
Aligned(b, G) ==
  \A g \in G :
    /\ Len(b[g]) \in Nat /\ DOMAIN b[g] = 1 .. Len(b[g])
    /\ \A i \in 1 .. Len(b[g]) : b[g][i][1] \in Members /\ b[g][i][1][1] = g
    /\ \A i, j \in 1 .. Len(b[g]) : i < j => b[g][i][1][2] < b[g][j][1][2]

LEMMA SamePlace ==
  ASSUME NEW b, NEW G, Aligned(b, G), NEW g \in G,
         NEW i \in 1 .. Len(b[g]), NEW j \in 1 .. Len(b[g])
  PROVE  /\ b[g][i][1] = b[g][j][1] => i = j
         /\ b[g][i][1][2] < b[g][j][1][2] <=> i < j
<1>1. /\ Len(b[g]) \in Nat
      /\ i < j => b[g][i][1][2] < b[g][j][1][2]
      /\ j < i => b[g][j][1][2] < b[g][i][1][2]
      /\ b[g][i][1] \in Members /\ b[g][j][1] \in Members
  BY DEF Aligned
<1>2. b[g][i][1][2] \in Nat /\ b[g][j][1][2] \in Nat
  BY <1>1, NameFacts
<1>3. i < j \/ j < i \/ i = j
  BY <1>1
<1>4. CASE i < j
  BY <1>1, <1>2, <1>4
<1>5. CASE j < i
  BY <1>1, <1>2, <1>5
<1>6. CASE i = j
  BY <1>2, <1>6
<1> QED
  BY <1>3, <1>4, <1>5, <1>6

\* Before the member at a place there are as many as there are places before it.
LEMMA RankOfPlace ==
  ASSUME NEW b \in [Groups -> Seq(Members \X Labels)], NEW G \in SUBSET Groups, Aligned(b, G),
         NEW g \in G, NEW i \in 1 .. Len(b[g])
  PROVE  Cardinality(Before(MembersAt(b, Places(b, G)), g, b[g][i][1][2]))
           = Cardinality(Places(b, Smaller(G, g))) + (i - 1)
<1> DEFINE A == Places(b, Smaller(G, g))
           B == {g} \X (1 .. i - 1)
           T == Before(MembersAt(b, Places(b, G)), g, b[g][i][1][2])
           f == [p \in A \cup B |-> b[p[1]][p[2]][1]]
<1>1. g \in Nat /\ G \subseteq Nat /\ Len(b[g]) \in Nat /\ DOMAIN b[g] = 1 .. Len(b[g])
  BY NameFacts DEF Aligned
<1>2. IsFiniteSet(A) /\ Cardinality(A) \in Nat
  <2>1. Smaller(G, g) \in SUBSET Groups
    BY DEF Smaller
  <2> QED
    BY <2>1, PlacesFacts
<1>3. IsFiniteSet(B) /\ Cardinality(B) = i - 1
  <2>1. PICK m \in Nat : m = i - 1
    BY <1>1
  <2>2. IsFiniteSet(1 .. m) /\ Cardinality(1 .. m) = m
    BY IntervalFacts
  <2>3. IsFiniteSet({g}) /\ Cardinality({g}) = 1
    BY FS_Singleton
  <2>4. IsFiniteSet({g} \X (1 .. m)) /\ Cardinality({g} \X (1 .. m)) = 1 * m
    BY <2>2, <2>3, FS_Product
  <2>5. 1 * m = m
    OBVIOUS
  <2> QED
    BY <2>1, <2>4, <2>5
<1>4. \A p \in A : p[1] \in G /\ p[1] < g /\ p[2] \in 1 .. Len(b[p[1]]) /\ p = <<p[1], p[2]>>
  BY DEF Places, Smaller, Aligned
<1>5. \A p \in B : p[1] = g /\ p[2] \in 1 .. Len(b[g]) /\ p[2] < i /\ p = <<p[1], p[2]>>
  BY <1>1
<1>6. A \cap B = {}
  <2> SUFFICES ASSUME NEW p, p \in A, p \in B PROVE FALSE
    OBVIOUS
  <2>1. g < g
    BY <1>4, <1>5
  <2> QED
    BY <1>1, <2>1
<1>7. ASSUME NEW h \in G, NEW j \in 1 .. Len(b[h])
      PROVE  /\ <<h, j>> \in A \cup B <=> h < g \/ (h = g /\ j < i)
             /\ b[h][j][1] \in T <=> h < g \/ (h = g /\ j < i)
  <2>1. <<h, j>> \in A <=> h < g
    BY DEF Places, Smaller, Aligned
  <2>2. <<h, j>> \in B <=> h = g /\ j < i
    BY <1>1
  <2>3. b[h][j][1] \in MembersAt(b, Places(b, G)) /\ b[h][j][1][1] = h
    <3>1. <<h, j>> \in Places(b, G)
      BY DEF Places, Aligned
    <3> QED
      BY <3>1 DEF MembersAt, Aligned
  <2>4. h = g => (b[h][j][1][2] < b[g][i][1][2] <=> j < i)
    BY SamePlace
  <2> HIDE DEF A, B
  <2> QED
    BY <2>1, <2>2, <2>3, <2>4 DEF Before
<1>8. \A p \in A \cup B : p[1] \in G /\ p[2] \in 1 .. Len(b[p[1]]) /\ p = <<p[1], p[2]>>
  BY <1>4, <1>5
<1>9. \A l \in T : \E h \in G : \E j \in 1 .. Len(b[h]) : l = b[h][j][1]
  <2> SUFFICES ASSUME NEW l \in MembersAt(b, Places(b, G))
               PROVE  \E h \in G : \E j \in 1 .. Len(b[h]) : l = b[h][j][1]
    BY DEF Before
  <2>1. PICK p \in Places(b, G) : l = b[p[1]][p[2]][1]
    BY DEF MembersAt
  <2>2. p[1] \in G /\ p[2] \in 1 .. Len(b[p[1]])
    BY DEF Places, Aligned
  <2> QED
    BY <2>1, <2>2
<1> HIDE DEF A, B, T
<1>10. f \in [A \cup B -> T]
  <2> SUFFICES ASSUME NEW p \in A \cup B PROVE b[p[1]][p[2]][1] \in T
    OBVIOUS
  <2> QED
    BY <1>7, <1>8
<1>11. ASSUME NEW p \in A \cup B, NEW q \in A \cup B, b[p[1]][p[2]][1] = b[q[1]][q[2]][1]
       PROVE  p = q
  <2>1. p[1] = q[1]
    <3>1. \A r \in A \cup B : b[r[1]][r[2]][1][1] = r[1]
      BY <1>8 DEF Aligned
    <3>2. b[p[1]][p[2]][1][1] = b[q[1]][q[2]][1][1]
      BY <1>11
    <3> QED
      BY <3>1, <3>2, Zenon
  <2>2. p[2] = q[2]
    BY <1>8, <1>11, <2>1, SamePlace
  <2> QED
    BY <1>8, <2>1, <2>2
<1>12. ASSUME NEW l \in T PROVE \E p \in A \cup B : b[p[1]][p[2]][1] = l
  <2>1. PICK h \in G : \E j \in 1 .. Len(b[h]) : l = b[h][j][1]
    BY <1>9
  <2>2. PICK j \in 1 .. Len(b[h]) : l = b[h][j][1]
    BY <2>1
  <2>3. <<h, j>> \in A \cup B
    BY <1>7, <2>2
  <2> QED
    BY <2>2, <2>3
<1>13. f \in Bijection(A \cup B, T)
  BY <1>10, <1>11, <1>12 DEF Bijection, Injection, Surjection, IsInjective
<1>14. IsFiniteSet(A \cup B) /\ Cardinality(A \cup B) = Cardinality(A) + (i - 1)
  <2>1. /\ IsFiniteSet(A \cup B)
        /\ Cardinality(A \cup B) = Cardinality(A) + Cardinality(B) - Cardinality(A \cap B)
    BY <1>2, <1>3, FS_Union
  <2>2. Cardinality(A \cap B) = 0
    BY <1>6, FS_EmptySet
  <2> QED
    BY <1>1, <1>2, <1>3, <2>1, <2>2
<1>15. Cardinality(T) = Cardinality(A \cup B)
  <2>1. ExistsBijection(A \cup B, T)
    BY <1>13 DEF ExistsBijection
  <2> HIDE DEF f
  <2> QED
    BY <1>14, <2>1, FS_Bijection
<1> QED
  BY <1>14, <1>15 DEF A, T

\* At rest the entries are the rows, one for each, in order.
LEMMA EntriesAtRest ==
  ASSUME IInv, QuietInv, pc = "done", changed = Unchanged, ~repeated
  PROVE  /\ Aligned(byGroup, Groups)
         /\ \A g \in Groups : \A i \in 1 .. Len(byGroup[g]) :
              /\ byGroup[g][i][1] \in Present("member")
              /\ byGroup[g][i] = <<byGroup[g][i][1], ModeOf(db.member[byGroup[g][i][1]])>>
         /\ \A m \in Present("member") :
              m[1] # NoName => \E i \in 1 .. Len(byGroup[m[1]]) : byGroup[m[1]][i][1] = m
<1>0. ~repeated
  BY Zenon
<1>1. \A g \in Groups : /\ byGroup[g] \in Seq(Members \X Labels)
                        /\ Len(byGroup[g]) \in Nat
                        /\ DOMAIN byGroup[g] = 1 .. Len(byGroup[g])
  <2> TAKE g \in Groups
  <2>1. byGroup[g] \in Seq(Members \X Labels)
    BY TypeFacts DEF IInv, BaseInv
  <2> QED
    BY <2>1, LenProperties
<1>2. ASSUME NEW g \in Groups, NEW i \in 1 .. Len(byGroup[g])
      PROVE  /\ byGroup[g][i][1] \in Present("member")
             /\ byGroup[g][i] = <<byGroup[g][i][1], ModeOf(db.member[byGroup[g][i][1]])>>
             /\ byGroup[g][i][1] \in Members /\ byGroup[g][i][1][1] = g
  <2>1. byGroup[g][i] \in Members \X Labels
    BY <1>1, ElementOfSeq
  <2>2. /\ byGroup[g][i][1] \in Present("member")
        /\ byGroup[g][i][2] = ModeOf(db.member[byGroup[g][i][1]])
    BY <1>1 DEF QuietInv, RestInv
  <2>3. byGroup[g][i][1][1] = g
    BY <1>1 DEF IInv, EntryInv
  <2> QED
    BY <2>1, <2>2, <2>3
<1>3. ASSUME NEW g \in Groups, NEW i \in 1 .. Len(byGroup[g]), NEW j \in 1 .. Len(byGroup[g]),
             i < j
      PROVE  byGroup[g][i][1][2] < byGroup[g][j][1][2]
  <2>1. PICK k : k = byGroup[g][i][1]
    OBVIOUS
  <2>2. PICK l : l = byGroup[g][j][1]
    OBVIOUS
  <2>3. k \in Members /\ l \in Members /\ k[1] = g /\ l[1] = g
    BY <1>2, <2>1, <2>2
  <2>4. k[2] <= l[2]
    BY <1>3, <2>1, <2>2 DEF QuietInv, SortedInv, ByPort
  <2>5. k # l
    <3>1. i \in DOMAIN byGroup[g] /\ j \in DOMAIN byGroup[g] /\ i # j
      BY <1>1, <1>3
    <3> QED
      BY <1>0, <2>1, <2>2, <3>1 DEF IInv, OnceInv, Read, Walk
  <2>6. k = <<k[1], k[2]>> /\ l = <<l[1], l[2]>> /\ k[2] \in Nat /\ l[2] \in Nat
    BY <2>3, NamesAssumption
  <2>7. k[2] # l[2]
    BY <2>3, <2>5, <2>6
  <2>8. k[2] < l[2]
    BY <2>4, <2>6, <2>7
  <2> QED
    BY <2>1, <2>2, <2>8
<1>4. ASSUME NEW m \in Present("member"), m[1] # NoName
      PROVE  \E i \in 1 .. Len(byGroup[m[1]]) : byGroup[m[1]][i][1] = m
  <2>1. IsStable("member", m)
    BY TableFacts DEF Unchanged, IsStable
  <2>2. rows = <<>> /\ DOMAIN rows = {}
    BY EmptyFacts DEF IInv, BaseInv, FreshInv, Walk
  <2>3. PICK i \in DOMAIN byGroup[m[1]] : byGroup[m[1]][i] = <<m, ModeOf(db.member[m])>>
    BY <1>4, <2>1, <2>2 DEF IInv, RowsInv, Read, Walk
  <2>4. m[1] \in Groups
    BY WindowFacts, TableFacts, NameFacts
  <2> QED
    BY <1>1, <2>3, <2>4
<1> QED
  BY <1>1, <1>2, <1>3, <1>4 DEF Aligned

LEMMA ShownIsFirst ==
  ASSUME IInv, QuietInv, pc = "done", changed = Unchanged, ~repeated
  PROVE  /\ \A g \in FirstGroups : \A i \in 1 .. Len(byGroup[g]) :
              byGroup[g][i][1] \in FirstMembers <=> i <= out.gauge[g]
         /\ \A m \in FirstMembers :
              /\ m \in Members /\ m[1] \in FirstGroups
              /\ \E i \in 1 .. Len(byGroup[m[1]]) : byGroup[m[1]][i][1] = m
<1> DEFINE all == {m \in Present("member") : m[1] \in FirstGroups}
<1>1. /\ Aligned(byGroup, Groups)
      /\ \A g \in Groups : \A i \in 1 .. Len(byGroup[g]) : byGroup[g][i][1] \in Present("member")
      /\ \A m \in Present("member") :
           m[1] # NoName => \E i \in 1 .. Len(byGroup[m[1]]) : byGroup[m[1]][i][1] = m
  BY EntriesAtRest, Zenon
<1>2. PICK b \in [Groups -> Seq(Members \X Labels)] : b = byGroup
  BY TypeFacts DEF IInv, BaseInv
<1>3. PICK G \in SUBSET (Groups \ {NoName}) : G = FirstGroups /\ G = out.info
  <2>1. out.info \in SUBSET (Groups \ {NoName})
    BY TypeFacts DEF IInv, BaseInv
  <2> QED
    BY <2>1, InfoIsFirst
<1>4. Aligned(b, G)
  BY <1>1, <1>2, <1>3 DEF Aligned
<1>5. MembersAt(b, Places(b, G)) = all
  <2>1. ASSUME NEW m \in all PROVE m \in MembersAt(b, Places(b, G))
    <3>1. PICK i \in 1 .. Len(b[m[1]]) : b[m[1]][i][1] = m
      BY <1>1, <1>2, <1>3
    <3>2. <<m[1], i>> \in Places(b, G)
      BY <1>3, <1>4 DEF Places, Aligned
    <3> QED
      BY <3>1, <3>2 DEF MembersAt
  <2>2. ASSUME NEW p \in Places(b, G) PROVE b[p[1]][p[2]][1] \in all
    <3>1. p[1] \in G /\ p[2] \in 1 .. Len(b[p[1]])
      BY <1>4 DEF Places, Aligned
    <3> QED
      BY <1>1, <1>2, <1>3, <1>4, <3>1 DEF Aligned
  <2> HIDE DEF all
  <2> QED
    BY <2>1, <2>2 DEF MembersAt
<1>6. PICK most \in Nat : most = config.maxMembers
  BY ConfigFacts DEF IInv, BaseInv, TypeOK
<1>7. FirstMembers = {m \in all : Cardinality(Before(all, m[1], m[2])) < most}
  BY <1>6 DEF FirstMembers, Before
<1>8. Shared(b, G, out.gauge, most)
  BY <1>2, <1>3, <1>6 DEF QuietInv, ShareInv, Walk
<1>9. ASSUME NEW g \in G, NEW i \in 1 .. Len(b[g])
      PROVE  b[g][i][1] \in FirstMembers <=> i <= out.gauge[g]
  <2>1. b[g][i][1] \in all /\ b[g][i][1][1] = g
    BY <1>1, <1>2, <1>3, <1>4 DEF Aligned
  <2>2. PICK n : n = Cardinality(Places(b, Smaller(G, g)))
    OBVIOUS
  <2>3. PICK r : r = Cardinality(Before(all, g, b[g][i][1][2]))
    OBVIOUS
  <2>4. r = n + (i - 1)
    <3>1. G \in SUBSET Groups
      BY <1>3
    <3>2. Cardinality(Before(MembersAt(b, Places(b, G)), g, b[g][i][1][2]))
            = Cardinality(Places(b, Smaller(G, g))) + (i - 1)
      BY <1>4, <3>1, RankOfPlace
    <3> QED
      BY <1>5, <2>2, <2>3, <3>2
  <2>5. i <= out.gauge[g] <=> n + i <= most
    BY <1>8, <2>2 DEF Shared
  <2>6. n \in Nat
    <3>1. Smaller(G, g) \in SUBSET Groups
      BY <1>3 DEF Smaller
    <3> QED
      BY <2>2, <3>1, PlacesFacts
  <2>8. b[g][i][1] \in FirstMembers <=> r < most
    BY <1>7, <2>1, <2>3
  <2> QED
    BY <2>4, <2>5, <2>6, <2>8
<1>10. ASSUME NEW m \in FirstMembers
       PROVE  /\ m \in Members /\ m[1] \in G
              /\ \E i \in 1 .. Len(b[m[1]]) : b[m[1]][i][1] = m
  <2>1. m \in Present("member") /\ m[1] \in G
    BY <1>3, <1>7
  <2> QED
    BY <1>1, <1>2, <1>3, <2>1, WindowFacts, TableFacts
<1> HIDE DEF all
<1> QED
  BY <1>2, <1>3, <1>9, <1>10

\* Of a member that is shown there is one entry, of another none.
LEMMA OneEntry ==
  ASSUME IInv, QuietInv, pc = "done", changed = Unchanged, ~repeated,
         NEW m \in Members, NEW l \in Labels
  PROVE  out.members[<<m, l>>] =
           IF m \in FirstMembers /\ l = ModeOf(db.member[m]) THEN 1 ELSE 0
<1> DEFINE x == <<m, l>>
           g == m[1]
           C == PlacesOf(byGroup[g], out.gauge[g], x)
<1>1. /\ Aligned(byGroup, Groups)
      /\ \A h \in Groups : \A i \in 1 .. Len(byGroup[h]) :
           byGroup[h][i] = <<byGroup[h][i][1], ModeOf(db.member[byGroup[h][i][1]])>>
  BY EntriesAtRest, Zenon
<1>2. /\ \A h \in FirstGroups : \A i \in 1 .. Len(byGroup[h]) :
           byGroup[h][i][1] \in FirstMembers <=> i <= out.gauge[h]
      /\ \A k \in FirstMembers :
           /\ k[1] \in FirstGroups
           /\ \E i \in 1 .. Len(byGroup[k[1]]) : byGroup[k[1]][i][1] = k
  BY ShownIsFirst, Zenon
<1>3. out.info = FirstGroups /\ g \in Groups /\ x \in Members \X Labels
  BY InfoIsFirst, NameFacts
<1>4. out.members[x] = IF g \in FirstGroups THEN Cardinality(C) ELSE 0
  BY <1>3 DEF QuietInv, ShareInv, Walk
<1>5. CASE g \notin FirstGroups
  BY <1>2, <1>4, <1>5
<1>6. CASE g \in FirstGroups
  <2>1. PICK n \in Nat : n = out.gauge[g] /\ n <= Len(byGroup[g]) /\ Len(byGroup[g]) \in Nat
    BY <1>1, <1>3, <1>6 DEF QuietInv, ShareInv, Shared, Walk, Aligned
  <2>2. \A i \in 1 .. n :
          byGroup[g][i] = x <=> byGroup[g][i][1] = m /\ l = ModeOf(db.member[m])
    BY <1>1, <1>3, <2>1
  <2>3. CASE m \in FirstMembers /\ l = ModeOf(db.member[m])
    <3>1. PICK i \in 1 .. Len(byGroup[g]) : byGroup[g][i][1] = m
      BY <1>2, <2>3
    <3>2. i \in 1 .. n
      BY <1>2, <1>6, <2>1, <2>3, <3>1
    <3>3. \A j \in 1 .. n : byGroup[g][j][1] = m => j = i
      BY <1>1, <1>3, <2>1, <3>1, SamePlace
    <3>4. C = {i}
      BY <2>1, <2>2, <2>3, <3>1, <3>2, <3>3 DEF PlacesOf
    <3>5. Cardinality(C) = 1
      BY <3>4, FS_Singleton
    <3> QED
      BY <1>4, <1>6, <2>3, <3>5
  <2>4. CASE ~(m \in FirstMembers /\ l = ModeOf(db.member[m]))
    <3>1. ASSUME NEW i \in 1 .. n, byGroup[g][i][1] = m PROVE m \in FirstMembers
      BY <1>2, <1>6, <2>1, <3>1
    <3>2. C = {}
      BY <2>1, <2>2, <2>4, <3>1 DEF PlacesOf
    <3>3. Cardinality(C) = 0
      BY <3>2, FS_EmptySet
    <3> QED
      BY <1>4, <1>6, <2>4, <3>3
  <2> QED
    BY <2>3, <2>4
<1> QED
  BY <1>5, <1>6

\* The gauge counts the members that are shown.
LEMMA GaugeIsCount ==
  ASSUME IInv, QuietInv, pc = "done", changed = Unchanged, ~repeated, NEW g \in FirstGroups
  PROVE  out.gauge[g] = Cardinality({m \in FirstMembers : m[1] = g})
<1>1. Aligned(byGroup, Groups)
  BY EntriesAtRest, Zenon
<1>2. /\ \A i \in 1 .. Len(byGroup[g]) : byGroup[g][i][1] \in FirstMembers <=> i <= out.gauge[g]
      /\ \A m \in FirstMembers : \E i \in 1 .. Len(byGroup[m[1]]) : byGroup[m[1]][i][1] = m
  BY ShownIsFirst, Zenon
<1>3. out.info = FirstGroups /\ g \in Groups
  <2>1. out.info \subseteq Groups
    BY TypeFacts DEF IInv, BaseInv
  <2> QED
    BY <2>1, InfoIsFirst
<1>4. PICK n \in Nat : n = out.gauge[g] /\ n <= Len(byGroup[g]) /\ Len(byGroup[g]) \in Nat
  BY <1>1, <1>3 DEF QuietInv, ShareInv, Shared, Walk, Aligned
<1> DEFINE f == [i \in 1 .. n |-> byGroup[g][i][1]]
<1>5. Differ(f, n)
  BY <1>1, <1>3, <1>4, SamePlace DEF Differ
<1>6. FirstOf(f, n) = {m \in FirstMembers : m[1] = g}
  <2>1. ASSUME NEW i \in 1 .. n PROVE f[i] \in FirstMembers /\ f[i][1] = g
    BY <1>1, <1>2, <1>3, <1>4 DEF Aligned
  <2>2. ASSUME NEW m \in FirstMembers, m[1] = g PROVE m \in FirstOf(f, n)
    <3>1. PICK i \in 1 .. Len(byGroup[g]) : byGroup[g][i][1] = m
      BY <1>2, <2>2
    <3>2. i \in 1 .. n
      BY <1>2, <1>4, <3>1
    <3> QED
      BY <3>1, <3>2 DEF FirstOf
  <2> HIDE DEF f
  <2> QED
    BY <2>1, <2>2 DEF FirstOf
<1> HIDE DEF f
<1> QED
  BY <1>4, <1>5, <1>6, ImageSize

\* A scrape of tables at rest reports exactly the first groups by name, and of
\* their members exactly the first by group and port, each once and with its mode:
\* the groups share one limit, and it is met at the same member every time.
THEOREM QuietMembersAreExact == Spec => []QuietScrapeIsExact
<1>1. IInv /\ QuietInv => QuietScrapeIsExact
  <2> SUFFICES ASSUME IInv, QuietInv, pc = "done", changed = Unchanged, ~repeated
               PROVE  /\ out.info = FirstGroups
                      /\ \A m \in Members, l \in Labels :
                           out.members[<<m, l>>] =
                             IF m \in FirstMembers /\ l = ModeOf(db.member[m]) THEN 1 ELSE 0
                      /\ \A g \in FirstGroups :
                           out.gauge[g] = Cardinality({m \in FirstMembers : m[1] = g})
    BY DEF QuietScrapeIsExact
  <2> QED
    BY InfoIsFirst, OneEntry, GaugeIsCount, Zenon
<1> QED
  BY <1>1, QuietInvariance, PTL
=============================================================================
