------------------------- MODULE TableScrapesProofs -------------------------
(***************************************************************************)
(* Proofs about the scrapes of tables, for every content of the tables,    *)
(* every limit and any number of changes while a scrape is under way.  The *)
(* invariant relates the rows exported to the keys that were looked at so  *)
(* far (Done); it follows the program at hand, whichever it is, of which   *)
(* only IsProgram is used.                                                 *)
(***************************************************************************)
EXTENDS TableScrapes, FiniteSetTheorems, SequenceTheorems, TLAPS

\* The databases and the results are functions of the tables.
ShapeInv ==
  /\ db = [t \in Tables |-> db[t]]
  /\ keys = [t \in Walked |-> keys[t]]
  /\ out = [t \in Tables |-> out[t]]

AtWalk == step <= Len(Program[collector]) /\ Op = "walk"

\* The position in the walk, and in the hashes of the port at hand, whose row
\* is the last one exported.
PositionInv ==
  /\ AtWalk =>
       /\ index <= Len(keys[Table]) + 1
       /\ Len(out[Table]) <= IF detail > 0 THEN index ELSE index - 1
  /\ detail > 0 =>
       /\ AtWalk
       /\ index <= Len(keys[Table]) /\ detail <= Len(DetailsOf(Table))
       /\ out[Table] # <<>> /\ out[Table][Len(out[Table])][1] = Key

\* A SCAN in progress knows the keys that were there all the time.
WindowInv ==
  step <= Len(Program[collector]) /\ Op = "scan" /\ outcome = "running" =>
    \A k \in Present(Table) : <<Table, k>> \in changed \/ k \in window.throughout

Injective(s) == \A i, j \in DOMAIN s : s[i] = s[j] => i = j

\* A list that was read holds the keys that did not change.
KeysInv ==
  /\ \A i \in 1 .. step - 1 :
       Program[collector][i].op \in {"scan", "list"} =>
         LET t == Program[collector][i].table
         IN  \A k \in Present(Source(t)) : IsStable(t, k) => \E p \in DOMAIN keys[t] : keys[t][p] = k
  /\ ~repeated => \A t \in Walked : Injective(keys[t])

\* The keys of t that were looked at.
Done(t) ==
  IF AtWalk /\ Table = t
  THEN {p \in DOMAIN keys[t] : p < index \/ (p = index /\ detail > 0)}
  ELSE IF IsWalked(t) THEN DOMAIN keys[t] ELSE {}

\* No two rows of a key.
OncePerKey(s) == \A i, j \in DOMAIN s : s[i][1] = s[j][1] => i = j

\* The rows of t are those of keys that were looked at; a key that is an entry
\* and did not change has one, with its label.
ExportOf(t) ==
  /\ \A i \in DOMAIN out[t] : \E p \in Done(t) : keys[t][p] = out[t][i][1]
  /\ Injective(keys[t]) => OncePerKey(out[t])
  /\ truncated = 0 =>
       \A p \in Done(t) :
         IsEntry(t, keys[t][p]) /\ IsStable(t, keys[t][p]) =>
           \E i \in DOMAIN out[t] : out[t][i][1] = keys[t][p]
  /\ \A i \in DOMAIN out[t] :
       IsStable(t, out[t][i][1]) => out[t][i][2] = Label(t, db[t][out[t][i][1]])

ExportInv == \A t \in Walked : ExportOf(t)

\* The hash n of the row at hand is still to be read.
Ahead(t, n) == AtWalk /\ Table = t /\ detail > 0 /\ n >= detail

\* The field of the hash d that goes with the key k can be exported as it is now.
IsKept(d, k) ==
  /\ db[d][k] \in Values /\ <<d, k>> \notin changed
  /\ db[JoinedTo[d]][k] # Absent /\ <<JoinedTo[d], k>> \notin changed

\* The same for the hash n that goes with a row of t: it is made of keys that
\* were looked at, and each row of t that it was read for has its field.
DetailLooked(t, n) ==
  \A j \in DOMAIN out[DetailsOf(t)[n]] :
    \E p \in Done(t) : keys[t][p] = out[DetailsOf(t)[n]][j][1] /\ (Ahead(t, n) => p < index)

DetailOnce(t, n) == Injective(keys[t]) => OncePerKey(out[DetailsOf(t)[n]])

DetailThere(t, n) ==
  \A i \in DOMAIN out[t] :
    (Ahead(t, n) => i < Len(out[t])) /\ IsKept(DetailsOf(t)[n], out[t][i][1]) =>
      \E j \in DOMAIN out[DetailsOf(t)[n]] :
        out[DetailsOf(t)[n]][j] = <<out[t][i][1], db[DetailsOf(t)[n]][out[t][i][1]]>>

DetailOf(t, n) == DetailLooked(t, n) /\ DetailOnce(t, n) /\ DetailThere(t, n)

DetailInv == \A t \in Walked : \A n \in DOMAIN DetailsOf(t) : DetailOf(t, n)

\* What was read of the row at hand is what is there, unless it changed.
FlagsInv ==
  detail > 0 =>
    \A m \in 1 .. detail - 1 :
      LET d == DetailsOf(Table)[m]
      IN  <<d, Key>> \notin changed => flags[d] = db[d][Key]

\* Nothing of the tables to come; no field of a hash twice.
LaterInv ==
  /\ \A i \in step + 1 .. Len(Program[collector]) : out[Program[collector][i].table] = <<>>
  /\ \A t \in Hashes : OncePerKey(out[t])

FailedInv ==
  outcome = "failed" /\ collector \notin ScrapeTime => \A t \in Tables : out[t] = <<>>

IInv ==
  /\ TypeOK /\ ShapeInv /\ PositionInv /\ WindowInv /\ KeysInv
  /\ ExportInv /\ DetailInv /\ FlagsInv /\ LaterInv /\ FailedInv

-----------------------------------------------------------------------------
(* The programs.                                                           *)

IsCommand(x) ==
  \/ \E t \in Scanned : x = Scan(t)
  \/ \E t \in Listed : x = List(t)
  \/ \E t \in Walked : x = Walk(t)
  \/ \E t \in Hashes : x = Read(t)

Instructions ==
  [op : {"scan", "list", "walk", "read"}, table : Walked \cup Hashes]

\* A program: every table is listed or scanned once, then walked once.
IsProgram(P) ==
  /\ P \in Seq(Instructions)
  /\ \A i \in DOMAIN P : IsCommand(P[i])
  /\ \A i, j \in DOMAIN P : P[i] = P[j] => i = j
  /\ \A i \in DOMAIN P : P[i].op = "walk" =>
       \E j \in DOMAIN P : j < i /\ P[j].op \in {"scan", "list"} /\ P[j].table = P[i].table
  /\ \A i \in DOMAIN P : P[i].op \in {"scan", "list"} =>
       \E j \in DOMAIN P : P[j] = Walk(P[i].table)
  /\ \A i, j \in DOMAIN P :
       P[i].op \in {"walk", "read"} /\ P[j].table = P[i].table => j <= i

LEMMA ThermalProgram == IsProgram(Thermal)
BY DEF IsProgram, Instructions, Thermal, IsCommand, Scan, List, Walk, Read, Walked, Scanned, Listed, Hashes

LEMMA RoutingProgram == IsProgram(Routing)
BY DEF IsProgram, Instructions, Routing, IsCommand, Scan, List, Walk, Read, Walked, Scanned, Listed, Hashes

LEMMA HealthProgram == IsProgram(Health)
BY DEF IsProgram, Instructions, Health, IsCommand, Scan, List, Walk, Read, Walked, Scanned, Listed, Hashes

\* Programs put together from those of parts.
LEMMA Join12 ==
  ASSUME NEW S, NEW a \in S, NEW b \in S, NEW c \in S
  PROVE  <<a>> \o <<b, c>> = <<a, b, c>>
<1>1. <<a>> \in Seq(S) /\ <<b, c>> \in Seq(S) /\ <<a, b, c>> \in Seq(S)
  OBVIOUS
<1>2. Len(<<a>>) = 1 /\ Len(<<b, c>>) = 2 /\ Len(<<a, b, c>>) = 3
  OBVIOUS
<1>3. /\ <<a>> \o <<b, c>> \in Seq(S) /\ Len(<<a>> \o <<b, c>>) = 3
      /\ \A i \in 1 .. 3 : (<<a>> \o <<b, c>>)[i] = <<a, b, c>>[i]
  BY <1>1, <1>2, ConcatProperties
<1> QED
  BY <1>1, <1>2, <1>3, SeqEqual

LEMMA Join31 ==
  ASSUME NEW S, NEW a \in S, NEW b \in S, NEW c \in S, NEW d \in S
  PROVE  <<a, b, c>> \o <<d>> = <<a, b, c, d>>
<1>1. <<a, b, c>> \in Seq(S) /\ <<d>> \in Seq(S) /\ <<a, b, c, d>> \in Seq(S)
  OBVIOUS
<1>2. Len(<<a, b, c>>) = 3 /\ Len(<<d>>) = 1 /\ Len(<<a, b, c, d>>) = 4
  OBVIOUS
<1>3. /\ <<a, b, c>> \o <<d>> \in Seq(S) /\ Len(<<a, b, c>> \o <<d>>) = 4
      /\ \A i \in 1 .. 4 : (<<a, b, c>> \o <<d>>)[i] = <<a, b, c, d>>[i]
  BY <1>1, <1>2, ConcatProperties
<1> QED
  BY <1>1, <1>2, <1>3, SeqEqual

LEMMA Join22 ==
  ASSUME NEW S, NEW a \in S, NEW b \in S, NEW c \in S, NEW d \in S
  PROVE  <<a, b>> \o <<c, d>> = <<a, b, c, d>>
<1>1. <<a, b>> \in Seq(S) /\ <<c, d>> \in Seq(S) /\ <<a, b, c, d>> \in Seq(S)
  OBVIOUS
<1>2. Len(<<a, b>>) = 2 /\ Len(<<c, d>>) = 2 /\ Len(<<a, b, c, d>>) = 4
  OBVIOUS
<1>3. /\ <<a, b>> \o <<c, d>> \in Seq(S) /\ Len(<<a, b>> \o <<c, d>>) = 4
      /\ \A i \in 1 .. 4 : (<<a, b>> \o <<c, d>>)[i] = <<a, b, c, d>>[i]
  BY <1>1, <1>2, ConcatProperties
<1> QED
  BY <1>1, <1>2, <1>3, SeqEqual

LEMMA Join42 ==
  ASSUME NEW S, NEW a \in S, NEW b \in S, NEW c \in S, NEW d \in S, NEW e \in S, NEW f \in S
  PROVE  <<a, b, c, d>> \o <<e, f>> = <<a, b, c, d, e, f>>
<1>1. <<a, b, c, d>> \in Seq(S) /\ <<e, f>> \in Seq(S) /\ <<a, b, c, d, e, f>> \in Seq(S)
  OBVIOUS
<1>2. Len(<<a, b, c, d>>) = 4 /\ Len(<<e, f>>) = 2 /\ Len(<<a, b, c, d, e, f>>) = 6
  OBVIOUS
<1>3. /\ <<a, b, c, d>> \o <<e, f>> \in Seq(S) /\ Len(<<a, b, c, d>> \o <<e, f>>) = 6
      /\ \A i \in 1 .. 6 : (<<a, b, c, d>> \o <<e, f>>)[i] = <<a, b, c, d, e, f>>[i]
  BY <1>1, <1>2, ConcatProperties
<1> QED
  BY <1>1, <1>2, <1>3, SeqEqual

LEMMA InstructionTypes ==
  /\ \A t \in Scanned : Scan(t) \in Instructions
  /\ \A t \in Listed : List(t) \in Instructions
  /\ \A t \in Walked : Walk(t) \in Instructions
  /\ \A t \in Hashes : Read(t) \in Instructions
BY DEF Instructions, Scan, List, Walk, Read, Walked

LEMMA TransceiverCommands ==
  Transceiver = <<Scan("status"), Scan("identity"), Walk("identity"), Walk("status")>>
<1>1. /\ Scan("status") \in Instructions /\ Scan("identity") \in Instructions
      /\ Walk("identity") \in Instructions /\ Walk("status") \in Instructions
  BY InstructionTypes DEF Walked, Scanned
<1>2. <<Scan("status")>> \o Identity = <<Scan("status"), Scan("identity"), Walk("identity")>>
  BY <1>1, Join12 DEF Identity
<1> QED
  BY <1>1, <1>2, Join31 DEF Transceiver

LEMMA TransceiverProgram == IsProgram(Transceiver)
BY TransceiverCommands
DEF IsProgram, Instructions, IsCommand, Scan, List, Walk, Read, Walked, Scanned, Listed, Hashes

LEMMA HwCommands ==
  Hw = <<List("psu"), Walk("psu"), List("fan"), Walk("fan"), List("chassis"), Walk("chassis")>>
<1>1. /\ List("psu") \in Instructions /\ List("fan") \in Instructions
      /\ List("chassis") \in Instructions /\ Walk("psu") \in Instructions
      /\ Walk("fan") \in Instructions /\ Walk("chassis") \in Instructions
  BY InstructionTypes DEF Walked, Listed
<1>2. Psu \o Fan = <<List("psu"), Walk("psu"), List("fan"), Walk("fan")>>
  BY <1>1, Join22 DEF Psu, Fan
<1> QED
  BY <1>1, <1>2, Join42 DEF Hw, Chassis

LEMMA HwProgram == IsProgram(Hw)
BY HwCommands
DEF IsProgram, Instructions, IsCommand, Scan, List, Walk, Read, Walked, Scanned, Listed, Hashes

LEMMA CrmCommands == Crm = <<Read("crm"), List("acl"), Walk("acl")>>
<1>1. /\ Read("crm") \in Instructions
      /\ List("acl") \in Instructions /\ Walk("acl") \in Instructions
  BY InstructionTypes DEF Walked, Listed, Hashes
<1> QED
  BY <1>1, Join12 DEF Crm, AclStats

LEMMA CrmProgram == IsProgram(Crm)
BY CrmCommands
DEF IsProgram, Instructions, IsCommand, Scan, List, Walk, Read, Walked, Scanned, Listed, Hashes

LEMMA QueueProgram == IsProgram(Queue)
BY DEF Queue, IsProgram, Instructions, IsCommand, Scan, List, Walk, Read, Walked, Scanned, Listed, Hashes

LEMMA SwitchProgram == IsProgram(Switch)
BY DEF Switch, IsProgram, Instructions, IsCommand, Scan, List, Walk, Read, Walked, Scanned, Listed, Hashes

LEMMA Programs == \A c \in DOMAIN Program : IsProgram(Program[c])
BY ThermalProgram, RoutingProgram, HealthProgram, TransceiverProgram, HwProgram, CrmProgram,
   QueueProgram, SwitchProgram
DEF Program

\* The ACL groups and the temperatures are read by one collector each.
LEMMA OneReader ==
  ASSUME NEW c \in DOMAIN Program, NEW i \in DOMAIN Program[c]
  PROVE  /\ Program[c][i].table = "acl" => c = "crm"
         /\ Program[c][i].table = "asic" => c = "thermal"
<1>1. CASE c = "routing"
  BY <1>1 DEF Program, Routing, Scan, List, Walk, Read
<1>2. CASE c = "switch"
  BY <1>2 DEF Program, Switch, Scan, List, Walk, Read
<1>3. CASE c = "transceiver"
  BY <1>3, TransceiverCommands DEF Program, Scan, List, Walk, Read
<1>4. CASE c = "health"
  BY <1>4 DEF Program, Health, Scan, List, Walk, Read
<1>5. CASE c = "hw"
  BY <1>5, HwCommands DEF Program, Scan, List, Walk, Read
<1>6. CASE c = "queue"
  BY <1>6 DEF Program, Queue, Scan, List, Walk, Read
<1>7. CASE c = "crm"
  BY <1>7, CrmCommands DEF Program, Scan, List, Walk, Read
<1>8. CASE c = "thermal"
  BY <1>8 DEF Program, Thermal, Scan, List, Walk, Read
<1> QED
  BY <1>1, <1>2, <1>3, <1>4, <1>5, <1>6, <1>7, <1>8 DEF Program

LEMMA ThermalCommands == Program["thermal"] = <<Read("asic"), Read("sfp")>>
BY DEF Program, Thermal

-----------------------------------------------------------------------------
(* Tables and the step at hand.                                            *)

LEMMA TableFacts ==
  /\ Walked \subseteq Tables /\ Hashes \subseteq Tables /\ AllDetails \subseteq Tables
  /\ Scanned \subseteq Walked /\ Listed \subseteq Walked
  /\ Walked \cap Hashes = {} /\ AllDetails \cap Walked = {} /\ AllDetails \cap Hashes = {}
  /\ \A t \in Tables : Source(t) \in Tables
  /\ \A t \in Scanned \cup AllDetails : Source(t) = t
<1>1. ToSet(Watermarks) = {"user", "persistent", "periodic"}
  BY DEF Watermarks, ToSet
<1>2. /\ Walked \subseteq Tables /\ Hashes \subseteq Tables /\ AllDetails \subseteq Tables
      /\ Scanned \subseteq Walked /\ Listed \subseteq Walked
  BY DEF Tables, Walked
<1>3. /\ Walked \cap Hashes = {}
      /\ {"user", "persistent", "periodic"} \cap (Walked \cup Hashes) = {}
  BY DEF Walked, Scanned, Listed, Hashes
<1>4. AllDetails \cap Walked = {} /\ AllDetails \cap Hashes = {}
  BY <1>1, <1>3, DetailsAssumption DEF AllDetails
<1>5. "queue" \in Listed /\ "queuemap" \in Hashes /\ "queue" \notin Scanned
  BY DEF Listed, Hashes, Scanned
<1> QED
  BY <1>2, <1>3, <1>4, <1>5 DEF Source

LEMMA DetailsOfFacts ==
  /\ \A t \in Walked :
       /\ DetailsOf(t) \in Seq(AllDetails)
       /\ Len(DetailsOf(t)) <= Len(Details) + Len(Watermarks)
       /\ \A n \in DOMAIN DetailsOf(t) :
            /\ DetailsOf(t)[n] \in AllDetails /\ JoinedTo[DetailsOf(t)[n]] \in AllDetails
            /\ \E m \in 1 .. n : JoinedTo[DetailsOf(t)[n]] = DetailsOf(t)[m]
  /\ \A t, u \in Walked : \A n \in DOMAIN DetailsOf(t), m \in DOMAIN DetailsOf(u) :
       DetailsOf(t)[n] = DetailsOf(u)[m] => t = u /\ n = m
<1>1. /\ Details \in Seq(AllDetails) /\ Len(Details) \in Nat
      /\ \A n \in DOMAIN Details : Details[n] \in AllDetails /\ Details[n] \in ToSet(Details)
  BY DetailsAssumption DEF ToSet
<1>2. /\ Watermarks \in Seq(AllDetails) /\ Len(Watermarks) = 3
      /\ \A n \in DOMAIN Watermarks :
           Watermarks[n] \in AllDetails /\ Watermarks[n] \in ToSet(Watermarks)
      /\ \A i, j \in DOMAIN Watermarks : Watermarks[i] = Watermarks[j] => i = j
  BY DEF AllDetails, Watermarks, ToSet
<1>3. <<>> \in Seq(AllDetails) /\ Len(<<>>) = 0 /\ DOMAIN <<>> = {}
  OBVIOUS
<1>4. /\ DetailsOf("status") = Details /\ DetailsOf("queue") = Watermarks
      /\ \A t \in Walked : t \notin {"status", "queue"} => DetailsOf(t) = <<>>
  BY DEF DetailsOf
<1>5. \A n \in DOMAIN Details : \E m \in 1 .. n : JoinedTo[Details[n]] = Details[m]
  BY DetailsAssumption
<1>6. ASSUME NEW n \in DOMAIN Watermarks
      PROVE  \E m \in 1 .. n : JoinedTo[Watermarks[n]] = Watermarks[m]
  <2>1. n \in 1 .. n
    BY <1>2
  <2> QED
    BY <2>1, <1>2, DetailsAssumption
<1>7. ASSUME NEW t \in Walked
      PROVE  /\ DetailsOf(t) \in Seq(AllDetails)
             /\ Len(DetailsOf(t)) <= Len(Details) + Len(Watermarks)
             /\ \A n \in DOMAIN DetailsOf(t) :
                  /\ DetailsOf(t)[n] \in AllDetails
                  /\ \E m \in 1 .. n : JoinedTo[DetailsOf(t)[n]] = DetailsOf(t)[m]
  <2>1. CASE t = "status"
    BY <2>1, <1>1, <1>2, <1>4, <1>5
  <2>2. CASE t = "queue"
    <3>1. DetailsOf(t) = Watermarks
      BY <2>2, <1>4
    <3>2. Len(Watermarks) <= Len(Details) + Len(Watermarks)
      BY <1>1, <1>2
    <3> QED
      BY <3>1, <3>2, <1>2, <1>6
  <2>3. CASE t \notin {"status", "queue"}
    <3>1. DetailsOf(t) = <<>>
      BY <2>3, <1>4
    <3>2. 0 <= Len(Details) + Len(Watermarks)
      BY <1>1, <1>2
    <3> QED
      BY <3>1, <3>2, <1>3
  <2> QED
    BY <2>1, <2>2, <2>3
<1>8. \A n \in DOMAIN Details, m \in DOMAIN Watermarks : Details[n] # Watermarks[m]
  BY <1>1, <1>2, DetailsAssumption
<1>9. \A n, m \in DOMAIN Details : Details[n] = Details[m] => n = m
  BY DetailsAssumption
<1>10. ASSUME NEW t \in Walked, NEW u \in Walked,
              NEW n \in DOMAIN DetailsOf(t), NEW m \in DOMAIN DetailsOf(u),
              DetailsOf(t)[n] = DetailsOf(u)[m]
       PROVE  t = u /\ n = m
  <2>1. t \in {"status", "queue"} /\ u \in {"status", "queue"}
    BY <1>3, <1>4, <1>10
  <2> QED
    BY <2>1, <1>2, <1>4, <1>8, <1>9, <1>10
<1> QED
  BY <1>7, <1>10, NamesAssumption

LEMMA StepFacts ==
  ASSUME TypeOK
  PROVE  /\ collector \in DOMAIN Program /\ IsProgram(Program[collector])
         /\ Len(Program[collector]) \in Nat /\ step \in Nat \ {0}
         /\ DOMAIN Program[collector] = 1 .. Len(Program[collector])
<1>1. collector \in DOMAIN Program /\ step \in 1 .. Len(Program[collector]) + 1
  BY NamesAssumption DEF TypeOK
<1>2. IsProgram(Program[collector])
  BY <1>1, Programs
<1>3. Program[collector] \in Seq(Instructions)
  BY <1>2 DEF IsProgram
<1> QED
  BY <1>1, <1>2, <1>3

\* What the command at hand is applied to.
LEMMA TableAtHand ==
  ASSUME TypeOK, step <= Len(Program[collector])
  PROVE  /\ step \in DOMAIN Program[collector]
         /\ Op \in {"scan", "list", "walk", "read"}
         /\ Op = "scan" => Table \in Scanned
         /\ Op = "list" => Table \in Listed
         /\ Op = "walk" => Table \in Walked
         /\ Op = "read" => Table \in Hashes
         /\ Op \in {"scan", "list", "walk"} => Table \in Walked
         /\ Table \in Tables
<1>1. step \in DOMAIN Program[collector]
  BY StepFacts
<1>2. IsCommand(Program[collector][step])
  BY <1>1, StepFacts DEF IsProgram
<1>3. CASE \E t \in Scanned : Program[collector][step] = Scan(t)
  BY <1>1, <1>3, TableFacts DEF Scan, Op, Table
<1>4. CASE \E t \in Listed : Program[collector][step] = List(t)
  BY <1>1, <1>4, TableFacts DEF List, Op, Table
<1>5. CASE \E t \in Walked : Program[collector][step] = Walk(t)
  BY <1>1, <1>5, TableFacts DEF Walk, Op, Table
<1>6. CASE \E t \in Hashes : Program[collector][step] = Read(t)
  BY <1>1, <1>6, TableFacts DEF Read, Op, Table
<1> QED
  BY <1>2, <1>3, <1>4, <1>5, <1>6 DEF IsCommand

\* The command at hand is the only one of its kind on its table, and a walk or a
\* read the last one of all.
LEMMA OnlyHere ==
  ASSUME TypeOK, step <= Len(Program[collector]), NEW i \in DOMAIN Program[collector],
         Program[collector][i].table = Table
  PROVE  /\ Program[collector][i].op = Op => i = step
         /\ Op \in {"walk", "read"} => i <= step
         /\ Program[collector][i].op \in {"walk", "read"} => step <= i
<1>1. /\ step \in DOMAIN Program[collector] /\ IsProgram(Program[collector])
      /\ Program[collector][i] \in Instructions /\ Program[collector][step] \in Instructions
  BY StepFacts, TableAtHand DEF IsProgram
<1>2. Program[collector][i].op = Op => Program[collector][i] = Program[collector][step]
  BY <1>1 DEF Instructions, Op, Table
<1> QED
  BY <1>1, <1>2 DEF IsProgram, Op, Table

-----------------------------------------------------------------------------
(* What the commands give.                                                 *)

LEMMA SliceType ==
  ASSUME NEW S, NEW T, S \subseteq T, NEW n \in Nat, NEW s \in [1 .. n -> S]
  PROVE  s \in Seq(T) /\ Len(s) = n /\ DOMAIN s = 1 .. n
<1>1. s \in [1 .. n -> T]
  OBVIOUS
<1> QED
  BY <1>1, SeqDef

\* The instance counts as the module itself does.
LEMMA SameCardinality == \A S : Redis!Cardinality(S) = Cardinality(S)
BY DEF Redis!Cardinality, Cardinality

LEMMA ScanFacts ==
  ASSUME NEW w \in Redis!Windows, NEW s \in Redis!SortedLists(w)
  PROVE  /\ s \in Seq(Keys)
         /\ \A k \in w.throughout : \E p \in DOMAIN s : s[p] = k
         /\ ~Redis!IsRepeated(s) => Injective(s)
<1>1. w.ever \subseteq Keys /\ IsFiniteSet(w.ever) /\ Cardinality(w.ever) \in Nat
  BY DatabasesAssumption, FS_Subset, FS_CardinalityType DEF Redis!Windows
<1>2. s \in Redis!Lists(w)
  BY DEF Redis!SortedLists
<1>3. \E n \in Nat : s \in [1 .. n -> w.ever]
  BY <1>1, <1>2, BoundsAssumption, SMT DEF Redis!Lists
<1>4. PICK n \in Nat : s \in [1 .. n -> w.ever]
  BY <1>3
<1>5. s \in Seq(Keys) /\ Len(s) = n /\ DOMAIN s = 1 .. n
  BY <1>1, <1>4, SliceType
<1>6. \A k \in w.throughout : \E p \in DOMAIN s : s[p] = k
  BY <1>2 DEF Redis!Lists, Redis!Listed
<1>7. ASSUME ~Redis!IsRepeated(s) PROVE Injective(s)
  <2> DEFINE L == Redis!Listed(s)
  <2>1. s \in Surjection(1 .. n, L)
    BY <1>5 DEF Redis!Listed, Surjection
  <2>2. IsFiniteSet(1 .. n) /\ Cardinality(1 .. n) = n
    BY <1>4, FS_Interval
  <2>3. IsFiniteSet(L) /\ Cardinality(L) <= n /\ Cardinality(L) \in Nat
    BY <2>1, <2>2, FS_Surjection, FS_CardinalityType
  <2>4. ~(n > Cardinality(L))
    BY <1>5, <1>7, SameCardinality DEF Redis!IsRepeated
  <2>5. Cardinality(1 .. n) = Cardinality(L)
    BY <2>2, <2>3, <2>4
  <2>6. s \in Injection(1 .. n, L)
    BY <2>1, <2>2, <2>5, FS_SurjSameCardinalityImpliesInj
  <2> QED
    BY <1>5, <2>6 DEF Injection, IsInjective, Injective
<1> QED
  BY <1>5, <1>6, <1>7

LEMMA ListFacts ==
  ASSUME NEW S \in SUBSET Keys, NEW s \in SetToSeqs(S)
  PROVE  /\ s \in Seq(Keys)
         /\ \A k \in S : \E p \in DOMAIN s : s[p] = k
         /\ Injective(s)
<1>1. IsFiniteSet(S) /\ Cardinality(S) \in Nat
  BY DatabasesAssumption, FS_Subset, FS_CardinalityType
<1>2. /\ s \in [1 .. Cardinality(S) -> S]
      /\ \A i, j \in 1 .. Cardinality(S) : i # j => s[i] # s[j]
  BY DEF SetToSeqs
<1>3. s \in Seq(Keys) /\ DOMAIN s = 1 .. Cardinality(S)
  BY <1>1, <1>2, SliceType
<1>4. s \in Injection(1 .. Cardinality(S), S)
  BY <1>2 DEF Injection, IsInjective
<1>5. Cardinality(1 .. Cardinality(S)) = Cardinality(S)
  BY <1>1, FS_Interval
<1>6. s \in Surjection(1 .. Cardinality(S), S)
  BY <1>1, <1>4, <1>5, FS_Injection
<1> QED
  BY <1>2, <1>3, <1>6 DEF Surjection, Injective

LEMMA AscendingFacts ==
  ASSUME NEW S \in SUBSET Keys, NEW s \in Redis!Ascending(S)
  PROVE  s \in Seq(S) /\ s \in Seq(Keys) /\ Injective(s)
<1>1. Cardinality(S) \in Nat
  BY DatabasesAssumption, FS_Subset, FS_CardinalityType
<1>2. /\ s \in [1 .. Cardinality(S) -> S]
      /\ \A i, j \in DOMAIN s : i < j => s[i] < s[j]
  BY SameCardinality DEF Redis!Ascending
<1>3. s \in Seq(S) /\ s \in Seq(Keys) /\ DOMAIN s = 1 .. Cardinality(S)
  BY <1>1, <1>2, SliceType
<1>4. ASSUME NEW i \in DOMAIN s, NEW j \in DOMAIN s, s[i] = s[j] PROVE i = j
  <2>1. i \in Nat /\ j \in Nat /\ s[i] \in S /\ s[j] \in S
    BY <1>1, <1>2, <1>3
  <2>2. s[i] \in Nat /\ s[j] \in Nat
    BY <2>1, NamesAssumption
  <2>3. ~(i < j) /\ ~(j < i)
    BY <1>2, <1>4, <2>2
  <2> QED
    BY <2>1, <2>3
<1> QED
  BY <1>3, <1>4 DEF Injective

LEMMA WindowType ==
  ASSUME NEW i
  PROVE  WindowAt(i) \in Redis!Windows
<1>1. /\ \A t \in Tables : Present(t) \subseteq Keys
      /\ Present(Program[collector][i].table) \subseteq Keys
  BY DEF Present
<1> QED
  BY <1>1 DEF WindowAt, Redis!Opened, Redis!Windows

-----------------------------------------------------------------------------
(* Types.                                                                  *)

Rows2 == Keys \X (Values \cup {Unknown, Blank})

LEMMA EmptyTypes ==
  /\ \A t \in Walked : [u \in Walked |-> <<>>][t] \in Seq(Keys)
  /\ \A t \in Tables : [u \in Tables |-> <<>>][t] \in Seq(Rows2)
  /\ Len(<<>>) = 0 /\ DOMAIN <<>> = {}
  /\ NoDetail \in [AllDetails -> Contents]
BY DEF NoDetail, Contents

LEMMA InitTypes == Init => TypeOK /\ ShapeInv
<1> SUFFICES ASSUME Init PROVE TypeOK /\ ShapeInv
  OBVIOUS
<1>1. /\ db \in Databases /\ changes = 0 /\ collector \in Collectors /\ max \in Limits
      /\ step = 1 /\ outcome = "running" /\ window = WindowAt(1)
      /\ keys = [t \in Walked |-> <<>>] /\ index = 1
      /\ detail = 0 /\ flags = NoDetail
      /\ out = [t \in Tables |-> <<>>] /\ skipped = 0 /\ truncated = 0
      /\ changed = {} /\ repeated = FALSE
  BY DEF Init, Fresh
<1>2. db \in [Tables -> [Keys -> Contents]]
  BY <1>1, DatabasesAssumption
<1>3. /\ changes \in 0 .. MaxChanges /\ index \in Nat \ {0} /\ skipped \in Nat
      /\ truncated \in {0, 1}
  BY <1>1, BoundsAssumption
<1>4. step \in 1 .. Len(Program[collector]) + 1
  <2>1. collector \in DOMAIN Program
    BY <1>1, NamesAssumption
  <2>2. Program[collector] \in Seq(Instructions)
    BY <2>1, Programs DEF IsProgram
  <2> QED
    BY <1>1, <2>2
<1>5. window \in Redis!Windows
  BY <1>1, WindowType
<1>6. detail \in 0 .. Len(Details) + Len(Watermarks)
  <2>1. Len(Details) \in Nat /\ Len(Watermarks) \in Nat
    BY DetailsAssumption DEF Watermarks
  <2> QED
    BY <1>1, <2>1
<1>7. \A t \in Scanned : Len(out[t]) <= max[t]
  BY <1>1, LimitsAssumption, TableFacts, EmptyTypes
<1>8. repeated \in BOOLEAN /\ changed \subseteq Tables \X Keys
      /\ outcome \in {"running", "done", "failed"}
  BY <1>1, Zenon
<1>9. TypeOK
  BY <1>1, <1>2, <1>3, <1>4, <1>5, <1>6, <1>7, <1>8, EmptyTypes DEF TypeOK, Rows2
<1>10. ShapeInv
  BY <1>1, <1>2 DEF ShapeInv
<1> QED
  BY <1>9, <1>10

\* The next command of the program.
LEMMA NextStepType ==
  ASSUME TypeOK, step <= Len(Program[collector]), NextStep, UNCHANGED collector
  PROVE  /\ step' \in 1 .. Len(Program[collector']) + 1
         /\ window' \in Redis!Windows
         /\ index' \in Nat \ {0}
<1>1. step' = step + 1 /\ window' = WindowAt(step + 1) /\ index' = 1
  BY DEF NextStep
<1> QED
  BY <1>1, StepFacts, WindowType

LEMMA ListingTypes ==
  ASSUME TypeOK, ShapeInv, ScanKeys \/ ListKeys
  PROVE  TypeOK' /\ ShapeInv'
<1>1. step <= Len(Program[collector]) /\ Op \in {"scan", "list"} /\ outcome = "running"
  BY DEF ScanKeys, ListKeys, Running
<1>2. Table \in Walked
  BY <1>1, TableAtHand
<1>3. /\ NextStep /\ repeated' \in BOOLEAN
      /\ UNCHANGED <<outside, outcome, detail, flags, result, changed>>
  <2>1. CASE ScanKeys
    BY <2>1 DEF ScanKeys, TypeOK
  <2>2. CASE ListKeys
    BY <2>2 DEF ListKeys, history, TypeOK
  <2> QED
    BY <2>1, <2>2
<1>4. PICK s \in Seq(Keys) : keys' = [keys EXCEPT ![Table] = s]
  <2>1. CASE ScanKeys
    BY <2>1, ScanFacts DEF ScanKeys, TypeOK
  <2>2. CASE ListKeys
    BY <2>2, ListFacts DEF ListKeys, Present
  <2> QED
    BY <2>1, <2>2
<1>5. keys' = [t \in Walked |-> keys'[t]] /\ \A t \in Walked : keys'[t] \in Seq(Keys)
  BY <1>2, <1>4 DEF ShapeInv, TypeOK
<1>6. UNCHANGED <<db, changes, collector, max, outcome, detail, flags, out, skipped, truncated, changed>>
  BY <1>3 DEF outside, result
<1>7. /\ step' \in 1 .. Len(Program[collector']) + 1
      /\ window' \in Redis!Windows
      /\ index' \in Nat \ {0}
  BY <1>1, <1>3, <1>6, NextStepType
<1> QED
  BY <1>3, <1>5, <1>6, <1>7 DEF TypeOK, ShapeInv

-----------------------------------------------------------------------------
(* What the steps of a walk do.                                            *)

\* A key is passed over or skipped: it is no entry, or the result is cut.
LEMMA PassOverEffect ==
  ASSUME TypeOK, Pass \/ CutOne \/ Skip \/ FindGone
  PROVE  /\ step <= Len(Program[collector]) /\ Op = "walk" /\ outcome = "running"
         /\ detail = 0 /\ index <= Len(keys[Table])
         /\ index' = index + 1
         /\ UNCHANGED <<db, changes, collector, max, step, outcome, window, keys, detail,
                        flags, out, changed, repeated>>
         /\ skipped' \in Nat /\ truncated' \in {0, 1}
         /\ truncated' = 0 => truncated = 0 /\ ~IsEntry(Table, Key)
<1>1. /\ step <= Len(Program[collector]) /\ Op = "walk" /\ outcome = "running"
      /\ detail = 0 /\ index <= Len(keys[Table])
  BY DEF Pass, CutOne, Skip, FindGone, Visit, Running
<1>2. /\ index' = index + 1
      /\ UNCHANGED <<db, changes, collector, max, step, outcome, window, keys, detail,
                     flags, out, changed, repeated>>
  BY DEF Pass, CutOne, Skip, FindGone, outside, result, history
<1>3. skipped' \in Nat /\ truncated' \in {0, 1}
  BY DEF Pass, CutOne, Skip, FindGone, result, TypeOK
<1>4. ASSUME truncated' = 0 PROVE truncated = 0 /\ ~IsEntry(Table, Key)
  <2>1. CASE Pass
    BY <1>4, <2>1 DEF Pass, result, IsEntry
  <2>2. CASE Skip
    BY <1>4, <2>2 DEF Skip, IsEntry
  <2>3. CASE FindGone
    BY <1>4, <2>3 DEF FindGone, result, IsEntry, Source
  <2>4. CASE CutOne
    BY <1>4, <2>4 DEF CutOne
  <2> QED
    BY <2>1, <2>2, <2>3, <2>4
<1> QED
  BY <1>1, <1>2, <1>3, <1>4

\* The walk over a table ends, at its last key or at the limit.
LEMMA WalkEndsEffect ==
  ASSUME TypeOK, CutRest \/ EndOfKeys
  PROVE  /\ step <= Len(Program[collector]) /\ Op = "walk" /\ outcome = "running"
         /\ detail = 0
         /\ NextStep
         /\ UNCHANGED <<db, changes, collector, max, outcome, keys, detail, flags, out,
                        changed, repeated>>
         /\ skipped' \in Nat /\ truncated' \in {0, 1}
         /\ truncated' = 0 => truncated = 0 /\ index > Len(keys[Table])
<1>1. /\ step <= Len(Program[collector]) /\ Op = "walk" /\ outcome = "running"
      /\ detail = 0 /\ NextStep
  BY DEF CutRest, EndOfKeys, Visit, Running
<1>2. UNCHANGED <<db, changes, collector, max, outcome, keys, detail, flags, out,
                  changed, repeated>>
  BY DEF CutRest, EndOfKeys, outside, result, history
<1>3. skipped' \in Nat /\ truncated' \in {0, 1}
  <2>1. CASE CutRest
    <3>1. Table \in Walked
      BY <1>1, TableAtHand
    <3>2. Len(keys[Table]) \in Nat /\ index \in Nat /\ index <= Len(keys[Table])
      BY <2>1, <3>1 DEF CutRest, Visit, TypeOK
    <3> QED
      BY <2>1, <3>2 DEF CutRest, TypeOK
  <2>2. CASE EndOfKeys
    BY <2>2 DEF EndOfKeys, result, TypeOK
  <2> QED
    BY <2>1, <2>2
<1>4. truncated' = 0 => truncated = 0 /\ index > Len(keys[Table])
  BY DEF CutRest, EndOfKeys, result
<1> QED
  BY <1>1, <1>2, <1>3, <1>4

LEMMA LabelType ==
  ASSUME NEW t, NEW x \in Contents
  PROVE  Label(t, x) \in Values \cup {Unknown, Blank}
BY DEF Label, Contents

\* An entry is exported.
LEMMA ExportEffect ==
  ASSUME TypeOK, Export
  PROVE  /\ step <= Len(Program[collector]) /\ Op = "walk" /\ outcome = "running"
         /\ Table \in Walked
         /\ detail = 0 /\ index <= Len(keys[Table]) /\ Key \in Keys
         /\ out' = [out EXCEPT ![Table] = Append(@, <<Key, Label(Table, db[Table][Key])>>)]
         /\ <<Key, Label(Table, db[Table][Key])>> \in Rows2
         /\ \/ /\ 1 \in DOMAIN DetailsOf(Table) /\ detail' = 1 /\ index' = index
            \/ /\ DetailsOf(Table) = <<>> /\ detail' = 0 /\ index' = index + 1
         /\ UNCHANGED <<db, changes, collector, max, step, outcome, window, keys, flags,
                        skipped, truncated, changed, repeated>>
<1>1. /\ step <= Len(Program[collector]) /\ Op = "walk" /\ outcome = "running"
      /\ detail = 0 /\ index <= Len(keys[Table])
  BY DEF Export, Visit, Running
<1>2. Table \in Walked
  BY <1>1, TableAtHand
<1>3. index \in DOMAIN keys[Table] /\ Key \in Keys
  BY <1>1, <1>2 DEF TypeOK, Key
<1>4. db[Table][Key] \in Contents
  BY <1>2, <1>3, TableFacts DEF TypeOK
<1>5. <<Key, Label(Table, db[Table][Key])>> \in Rows2
  BY <1>3, <1>4, LabelType DEF Rows2
<1>6. DetailsOf(Table) # <<>> => 1 \in DOMAIN DetailsOf(Table)
  BY <1>2, DetailsOfFacts
<1> QED
  BY <1>1, <1>2, <1>3, <1>5, <1>6 DEF Export, outside, history

\* The hash at hand of the port, and what becomes of it.
DetailAtHand == DetailsOf(Table)[detail]

LEMMA ReadDetailEffect ==
  ASSUME TypeOK, PositionInv, ReadDetail
  PROVE  /\ step <= Len(Program[collector]) /\ Op = "walk" /\ outcome = "running"
         /\ Table \in Walked /\ index <= Len(keys[Table]) /\ Key \in Keys
         /\ detail \in DOMAIN DetailsOf(Table) /\ DetailAtHand \in AllDetails
         /\ LET x      == db[DetailAtHand][Key]
                joined == IF JoinedTo[DetailAtHand] = DetailAtHand
                          THEN x ELSE flags[JoinedTo[DetailAtHand]]
            IN  /\ x \in Contents
                /\ out' = IF x \in Values /\ joined # Absent
                          THEN [out EXCEPT ![DetailAtHand] = Append(@, <<Key, x>>)] ELSE out
                /\ \/ /\ detail < Len(DetailsOf(Table))
                      /\ detail' = detail + 1 /\ index' = index
                      /\ flags' = [flags EXCEPT ![DetailAtHand] = x]
                   \/ /\ detail = Len(DetailsOf(Table))
                      /\ detail' = 0 /\ index' = index + 1
                      /\ flags' = NoDetail
         /\ UNCHANGED <<db, changes, collector, max, step, outcome, window, keys,
                        skipped, truncated, changed, repeated>>
<1>1. /\ step <= Len(Program[collector]) /\ Op = "walk" /\ outcome = "running" /\ detail > 0
  BY DEF ReadDetail, Running
<1>2. Table \in Walked
  BY <1>1, TableAtHand
<1>3. index <= Len(keys[Table]) /\ detail <= Len(DetailsOf(Table))
  BY <1>1 DEF PositionInv
<1>4. index \in DOMAIN keys[Table] /\ Key \in Keys
  BY <1>2, <1>3 DEF TypeOK, Key
<1>5. detail \in DOMAIN DetailsOf(Table)
  <2>1. detail \in Nat /\ DetailsOf(Table) \in Seq(AllDetails)
    BY <1>2, DetailsOfFacts, DetailsAssumption DEF TypeOK, Watermarks
  <2> QED
    BY <1>1, <1>3, <2>1
<1>6. DetailAtHand \in AllDetails
  BY <1>2, <1>5, DetailsOfFacts DEF DetailAtHand
<1>7. db[DetailAtHand][Key] \in Contents
  BY <1>4, <1>6, TableFacts DEF TypeOK
<1>8. ~(detail < Len(DetailsOf(Table))) => detail = Len(DetailsOf(Table))
  <2>1. detail \in Nat /\ Len(DetailsOf(Table)) \in Nat
    BY <1>2, <1>5, DetailsOfFacts
  <2> QED
    BY <1>3, <2>1
<1> QED
  BY <1>1, <1>2, <1>3, <1>4, <1>5, <1>6, <1>7, <1>8
  DEF ReadDetail, DetailAtHand, outside, history

-----------------------------------------------------------------------------
(* What the other steps do.                                                *)

\* The rows made of some fields of a hash.
LEMMA HashRows ==
  ASSUME TypeOK, NEW t \in Hashes, NEW S \in SUBSET Fields(t), NEW s \in Redis!Ascending(S)
  PROVE  LET r == [i \in DOMAIN s |-> <<s[i], db[t][s[i]]>>]
         IN  r \in Seq(Rows2) /\ OncePerKey(r)
<1> DEFINE r == [i \in DOMAIN s |-> <<s[i], db[t][s[i]]>>]
<1>1. S \subseteq Keys
  BY DEF Fields
<1>2. s \in Seq(S) /\ Injective(s)
  BY <1>1, AscendingFacts
<1>3. \A k \in S : k \in Keys /\ db[t][k] \in Values \cup {Blank}
  BY TableFacts DEF Fields, TypeOK, Contents
<1>4. Len(s) \in Nat /\ DOMAIN s = 1 .. Len(s) /\ \A i \in DOMAIN s : s[i] \in S
  BY <1>2
<1>5. \A i \in DOMAIN s : <<s[i], db[t][s[i]]>> \in Rows2
  BY <1>3, <1>4 DEF Rows2
<1>6. r \in [1 .. Len(s) -> Rows2]
  BY <1>4, <1>5
<1>7. r \in Seq(Rows2)
  BY <1>4, <1>6, SeqDef
<1>8. OncePerKey(r)
  BY <1>2 DEF OncePerKey, Injective
<1> QED
  BY <1>7, <1>8

LEMMA ReadHashEffect ==
  ASSUME TypeOK, ReadHash
  PROVE  /\ step <= Len(Program[collector]) /\ Op = "read" /\ outcome = "running"
         /\ Table \in Hashes
         /\ \E r \in Seq(Rows2) : OncePerKey(r) /\ out' = [out EXCEPT ![Table] = r]
         /\ NextStep
         /\ skipped' \in Nat
         /\ UNCHANGED <<db, changes, collector, max, outcome, keys, detail, flags,
                        truncated, changed, repeated>>
<1>1. step <= Len(Program[collector]) /\ Op = "read" /\ outcome = "running"
  BY DEF ReadHash, Running
<1>2. Table \in Hashes
  BY <1>1, TableAtHand
<1>3. PICK s \in Redis!Ascending(Fields(Table)) :
        out' = [out EXCEPT ![Table] = [i \in DOMAIN s |-> <<s[i], db[Table][s[i]]>>]]
  BY DEF ReadHash
<1>4. \E r \in Seq(Rows2) : OncePerKey(r) /\ out' = [out EXCEPT ![Table] = r]
  BY <1>2, <1>3, HashRows
<1>5. Unparsed(Table) \subseteq Keys
  BY DEF Unparsed
<1>6. Cardinality(Unparsed(Table)) \in Nat
  BY <1>5, DatabasesAssumption, FS_Subset, FS_CardinalityType
<1>7. skipped' \in Nat
  BY <1>6 DEF ReadHash, TypeOK
<1> QED
  BY <1>1, <1>2, <1>4, <1>7 DEF ReadHash, outside, history

LEMMA FailInCollectEffect ==
  ASSUME TypeOK, FailInCollect
  PROVE  /\ outcome = "running" /\ collector \in ScrapeTime /\ outcome' = "failed"
         /\ window' \in Redis!Windows
         /\ \/ out' = out
            \/ /\ step <= Len(Program[collector]) /\ Op = "read" /\ Table \in Hashes
               /\ \E r \in Seq(Rows2) : OncePerKey(r) /\ out' = [out EXCEPT ![Table] = r]
         /\ UNCHANGED <<db, changes, collector, max, step, keys, index, detail, flags,
                        skipped, truncated, changed, repeated>>
<1>1. collector \in ScrapeTime /\ outcome = "running" /\ outcome' = "failed"
  BY DEF FailInCollect, Commands, Reads, Visit, Running
<1>2. window' \in Redis!Windows
  BY DEF FailInCollect, Redis!Opened, Redis!Windows
<1>3. PICK S \in Appended : \E s \in Redis!Ascending(S) :
        out' = IF S = {} THEN out
               ELSE [out EXCEPT ![Table] = [i \in DOMAIN s |-> <<s[i], db[Table][s[i]]>>]]
  BY DEF FailInCollect
<1>4. ASSUME out' # out
      PROVE  /\ step <= Len(Program[collector]) /\ Op = "read" /\ Table \in Hashes
             /\ \E r \in Seq(Rows2) : OncePerKey(r) /\ out' = [out EXCEPT ![Table] = r]
  <2>1. PICK s \in Redis!Ascending(S) :
          /\ S # {}
          /\ out' = [out EXCEPT ![Table] = [i \in DOMAIN s |-> <<s[i], db[Table][s[i]]>>]]
    BY <1>3, <1>4
  <2>2. Running("read") /\ S \in SUBSET Fields(Table)
    BY <2>1 DEF Appended
  <2>3. step <= Len(Program[collector]) /\ Op = "read" /\ Table \in Hashes
    BY <2>2, TableAtHand DEF Running
  <2> QED
    BY <2>1, <2>2, <2>3, HashRows
<1>5. UNCHANGED <<db, changes, collector, max, step, keys, index, detail, flags,
                  skipped, truncated, changed, repeated>>
  BY DEF FailInCollect, outside, history
<1> QED
  BY <1>1, <1>2, <1>4, <1>5

\* Fail and Return leave an empty result.
LEMMA ClearEffect ==
  ASSUME TypeOK, Fail \/ Return
  PROVE  /\ keys' = [t \in Walked |-> <<>>] /\ index' = 1
         /\ detail' = 0 /\ flags' = NoDetail
         /\ out' = [t \in Tables |-> <<>>] /\ skipped' = 0 /\ truncated' = 0
         /\ changed' = {} /\ repeated' = FALSE
         /\ UNCHANGED <<db, changes, collector, max>>
         /\ step' = 1 /\ window' \in Redis!Windows
         /\ \/ outcome' = "failed"
            \/ outcome' = "running" /\ window' = WindowAt(1)
<1>1. Redis!Opened({}) \in Redis!Windows
  BY DEF Redis!Opened, Redis!Windows
<1>2. CASE Fail
  BY <1>1, <1>2 DEF Fail, Clear, outside
<1>3. CASE Return
  BY <1>3, WindowType DEF Return, Clear, outside
<1> QED
  BY <1>2, <1>3

LEMMA MineTables == ASSUME TypeOK PROVE Mine \subseteq Tables
<1>1. ASSUME NEW i \in DOMAIN Program[collector], NEW u,
             u \in {Program[collector][i].table, Source(Program[collector][i].table)}
                   \cup ToSet(DetailsOf(Program[collector][i].table))
      PROVE  u \in Tables
  <2>1. Program[collector][i] \in Instructions
    BY StepFacts DEF IsProgram
  <2>2. Program[collector][i].table \in Walked \cup Hashes
    BY <2>1 DEF Instructions
  <2>3. CASE u \in ToSet(DetailsOf(Program[collector][i].table))
    <3>1. PICK n \in DOMAIN DetailsOf(Program[collector][i].table) :
            u = DetailsOf(Program[collector][i].table)[n]
      BY <2>3 DEF ToSet
    <3>2. CASE Program[collector][i].table \in Walked
      BY <3>1, <3>2, DetailsOfFacts, TableFacts
    <3>3. CASE Program[collector][i].table \in Hashes
      <4>1. DetailsOf(Program[collector][i].table) = <<>>
        BY <3>3 DEF DetailsOf, Hashes
      <4> QED
        BY <3>1, <4>1
    <3> QED
      BY <2>2, <3>2, <3>3
  <2> QED
    BY <1>1, <2>2, <2>3, TableFacts
<1> QED
  BY <1>1 DEF Mine

LEMMA ChangeEffect ==
  ASSUME TypeOK, ShapeInv, NEW t \in Mine, NEW k \in Keys, Change(t, k)
  PROVE  /\ t \in Tables
         /\ changes' \in 0 .. MaxChanges
         /\ \E x \in Contents :
              /\ db' = [db EXCEPT ![t][k] = x]
              /\ window' = IF Running("scan") /\ t = Table
                           THEN Redis!Noted(window, k, x # Absent) ELSE window
         /\ changed' = changed \cup {<<t, k>>}
         /\ window' \in Redis!Windows
         /\ db' = [u \in Tables |-> db'[u]]
         /\ \A u \in Tables : \A j \in Keys :
              db'[u][j] \in Contents /\ (<<u, j>> # <<t, k>> => db'[u][j] = db[u][j])
         /\ db' \in [Tables -> [Keys -> Contents]]
         /\ UNCHANGED <<collector, max, step, outcome, keys, index, detail, flags, out, skipped,
                        truncated, repeated>>
<1>1. t \in Tables
  BY MineTables
<1>2. changes' \in 0 .. MaxChanges
  BY BoundsAssumption DEF Change, TypeOK
<1>3. PICK x \in Contents :
        /\ db' = [db EXCEPT ![t][k] = x]
        /\ window' = IF Running("scan") /\ t = Table
                     THEN Redis!Noted(window, k, x # Absent) ELSE window
  BY DEF Change
<1>4. window' \in Redis!Windows
  BY <1>3 DEF TypeOK, Redis!Windows, Redis!Noted
<1>5. db' \in [Tables -> [Keys -> Contents]]
  BY <1>1, <1>3 DEF TypeOK
<1>6. \A u \in Tables : \A j \in Keys : <<u, j>> # <<t, k>> => db'[u][j] = db[u][j]
  BY <1>1, <1>3 DEF TypeOK
<1>7. changed' = changed \cup {<<t, k>>}
      /\ UNCHANGED <<collector, max, step, outcome, keys, index, detail, flags, out, skipped,
                     truncated, repeated>>
  BY DEF Change, result
<1> QED
  BY <1>1, <1>2, <1>3, <1>4, <1>5, <1>6, <1>7

LEMMA WalkTypes ==
  ASSUME TypeOK, ShapeInv, Pass \/ CutOne \/ Skip \/ FindGone \/ CutRest \/ EndOfKeys
  PROVE  TypeOK' /\ ShapeInv'
<1>1. CASE Pass \/ CutOne \/ Skip \/ FindGone
  <2>1. /\ index' \in Nat \ {0} /\ skipped' \in Nat /\ truncated' \in {0, 1}
        /\ UNCHANGED <<db, changes, collector, max, step, outcome, window, keys, detail,
                       flags, out, changed, repeated>>
    BY <1>1, PassOverEffect DEF TypeOK
  <2> QED
    BY <2>1 DEF TypeOK, ShapeInv
<1>2. CASE CutRest \/ EndOfKeys
  <2>1. /\ step <= Len(Program[collector]) /\ NextStep
        /\ skipped' \in Nat /\ truncated' \in {0, 1}
        /\ UNCHANGED <<db, changes, collector, max, outcome, keys, detail, flags, out,
                       changed, repeated>>
    BY <1>2, WalkEndsEffect
  <2>2. /\ step' \in 1 .. Len(Program[collector']) + 1
        /\ window' \in Redis!Windows
        /\ index' \in Nat \ {0}
    BY <2>1, NextStepType
  <2> QED
    BY <2>1, <2>2 DEF TypeOK, ShapeInv
<1> QED
  BY <1>1, <1>2

\* A row is appended to the result of one table.
LEMMA AppendType ==
  ASSUME TypeOK, ShapeInv, NEW t \in Tables, NEW r \in Rows2,
         out' = [out EXCEPT ![t] = Append(@, r)]
  PROVE  /\ out' = [u \in Tables |-> out'[u]]
         /\ \A u \in Tables : out'[u] \in Seq(Rows2)
         /\ \A u \in Tables : u # t => out'[u] = out[u]
         /\ Len(out[t]) \in Nat /\ DOMAIN out[t] = 1 .. Len(out[t])
         /\ Len(out'[t]) = Len(out[t]) + 1 /\ DOMAIN out'[t] = 1 .. Len(out[t]) + 1
         /\ \A i \in DOMAIN out[t] : out'[t][i] = out[t][i]
         /\ out'[t][Len(out[t]) + 1] = r
<1>1. out = [u \in Tables |-> out[u]] /\ out[t] \in Seq(Rows2)
  BY DEF ShapeInv, TypeOK, Rows2
<1>2. out'[t] = Append(out[t], r) /\ \A u \in Tables : u # t => out'[u] = out[u]
  BY <1>1
<1>3. Append(out[t], r) \in Seq(Rows2)
  BY <1>1
<1>4. out' = [u \in Tables |-> out'[u]] /\ \A u \in Tables : out'[u] \in Seq(Rows2)
  BY <1>1, <1>2, <1>3 DEF TypeOK, Rows2
<1>5. /\ Len(out'[t]) = Len(out[t]) + 1 /\ Len(out[t]) \in Nat
      /\ \A i \in 1 .. Len(out[t]) : out'[t][i] = out[t][i]
      /\ out'[t][Len(out[t]) + 1] = r
  BY <1>1, <1>2, AppendProperties
<1> QED
  BY <1>1, <1>2, <1>4, <1>5

\* The limit of the table at hand leaves room for the row.
LEMMA RoomToExport ==
  ASSUME TypeOK, PositionInv, Export, Table \in Scanned
  PROVE  Len(out[Table]) + 1 <= max[Table]
<1>1. /\ step <= Len(Program[collector]) /\ Op = "walk" /\ detail = 0 /\ ~AtLimit
  BY ExportEffect DEF Export
<1>2. Len(out[Table]) <= index - 1
  BY <1>1 DEF PositionInv, AtWalk
<1>3. max[Table] \in Nat /\ index \in Nat /\ Len(out[Table]) \in Nat
  BY LimitsAssumption, TableFacts DEF TypeOK
<1>4. CASE Table \in CountsEntries
  BY <1>1, <1>3, <1>4 DEF AtLimit
<1>5. CASE Table \notin CountsEntries
  BY <1>1, <1>2, <1>3, <1>5 DEF AtLimit
<1> QED
  BY <1>4, <1>5

LEMMA ExportTypes ==
  ASSUME TypeOK, ShapeInv, PositionInv, Export
  PROVE  TypeOK' /\ ShapeInv'
<1>1. /\ Table \in Walked /\ Table \in Tables
      /\ out' = [out EXCEPT ![Table] = Append(@, <<Key, Label(Table, db[Table][Key])>>)]
      /\ <<Key, Label(Table, db[Table][Key])>> \in Rows2
      /\ UNCHANGED <<db, changes, collector, max, step, outcome, window, keys, flags,
                     skipped, truncated, changed, repeated>>
  BY ExportEffect, TableFacts
<1>2. detail' \in 0 .. Len(Details) + Len(Watermarks)
  <2>1. /\ Len(Details) \in Nat /\ Len(Watermarks) = 3 
    BY DetailsAssumption DEF Watermarks
  <2> QED
    BY <2>1, ExportEffect
<1>3. index' \in Nat \ {0}
  BY ExportEffect DEF TypeOK
<1>4. /\ out' = [u \in Tables |-> out'[u]] /\ \A u \in Tables : out'[u] \in Seq(Rows2)
      /\ \A u \in Tables : u # Table => out'[u] = out[u]
      /\ Len(out'[Table]) = Len(out[Table]) + 1
  BY <1>1, AppendType
<1>5. \A t \in Scanned : Len(out'[t]) <= max'[t]
  BY <1>1, <1>4, RoomToExport, TableFacts DEF TypeOK
<1> QED
  BY <1>1, <1>2, <1>3, <1>4, <1>5 DEF TypeOK, ShapeInv, Rows2

LEMMA ReadDetailTypes ==
  ASSUME TypeOK, ShapeInv, PositionInv, ReadDetail
  PROVE  TypeOK' /\ ShapeInv'
<1> DEFINE x == db[DetailAtHand][Key]
<1>1. /\ Table \in Walked /\ DetailAtHand \in AllDetails /\ Key \in Keys /\ x \in Contents
      /\ UNCHANGED <<db, changes, collector, max, step, outcome, window, keys,
                     skipped, truncated, changed, repeated>>
  BY ReadDetailEffect
<1>2. DetailAtHand \in Tables /\ DetailAtHand \notin Scanned
  BY <1>1, TableFacts
<1>3. /\ out' = [u \in Tables |-> out'[u]] /\ \A u \in Tables : out'[u] \in Seq(Rows2)
      /\ \A u \in Tables : u # DetailAtHand => out'[u] = out[u]
  <2>1. CASE out' = out
    BY <2>1 DEF ShapeInv, TypeOK, Rows2
  <2>2. CASE x \in Values /\ out' = [out EXCEPT ![DetailAtHand] = Append(@, <<Key, x>>)]
    <3>1. <<Key, x>> \in Rows2
      BY <1>1, <2>2 DEF Rows2
    <3> QED
      BY <1>2, <2>2, <3>1, AppendType
  <2> QED
    BY <2>1, <2>2, ReadDetailEffect
<1>4. /\ detail' \in 0 .. Len(Details) + Len(Watermarks) /\ index' \in Nat \ {0}
      /\ flags' \in [AllDetails -> Contents]
  <2>1. /\ Len(Details) \in Nat /\ Len(Watermarks) = 3 /\ index \in Nat \ {0}
        /\ Len(DetailsOf(Table)) <= Len(Details) + Len(Watermarks)
        /\ Len(DetailsOf(Table)) \in Nat /\ detail \in DOMAIN DetailsOf(Table)
        /\ DOMAIN DetailsOf(Table) = 1 .. Len(DetailsOf(Table))
    BY <1>1, ReadDetailEffect, DetailsOfFacts, DetailsAssumption DEF Watermarks, TypeOK
  <2>2. /\ \/ detail < Len(DetailsOf(Table)) /\ detail' = detail + 1
           \/ detail' = 0
        /\ index' = index \/ index' = index + 1
        /\ flags' = [flags EXCEPT ![DetailAtHand] = x] \/ flags' = NoDetail
    BY ReadDetailEffect
  <2>3. flags' \in [AllDetails -> Contents]
    BY <1>1, <2>2, EmptyTypes DEF TypeOK
  <2>4. detail' \in 0 .. Len(Details) + Len(Watermarks)
    BY <2>1, <2>2
  <2>5. index' \in Nat \ {0}
    BY <2>1, <2>2
  <2> QED
    BY <2>3, <2>4, <2>5
<1>5. \A t \in Scanned : Len(out'[t]) <= max'[t]
  BY <1>1, <1>2, <1>3, TableFacts DEF TypeOK
<1> QED
  BY <1>1, <1>3, <1>4, <1>5 DEF TypeOK, ShapeInv, Rows2

\* The result of one hash.
LEMMA HashType ==
  ASSUME TypeOK, ShapeInv, NEW t \in Hashes, NEW r \in Seq(Rows2), out' = [out EXCEPT ![t] = r]
  PROVE  /\ out' = [u \in Tables |-> out'[u]] /\ \A u \in Tables : out'[u] \in Seq(Rows2)
         /\ out'[t] = r
         /\ \A u \in Tables : u # t => out'[u] = out[u]
         /\ \A u \in Scanned : Len(out'[u]) <= max[u]
<1>1. t \in Tables /\ t \notin Scanned
  BY TableFacts
<1> QED
  BY <1>1, TableFacts DEF TypeOK, ShapeInv, Rows2

LEMMA HashTypes ==
  ASSUME TypeOK, ShapeInv, ReadHash \/ FailInCollect
  PROVE  TypeOK' /\ ShapeInv'
<1>1. CASE ReadHash
  <2>1. /\ step <= Len(Program[collector]) /\ NextStep /\ skipped' \in Nat
        /\ UNCHANGED <<db, changes, collector, max, outcome, keys, detail, flags,
                       truncated, changed, repeated>>
    BY <1>1, ReadHashEffect
  <2>2. /\ step' \in 1 .. Len(Program[collector']) + 1
        /\ window' \in Redis!Windows /\ index' \in Nat \ {0}
    BY <2>1, NextStepType
  <2>3. /\ out' = [u \in Tables |-> out'[u]] /\ \A u \in Tables : out'[u] \in Seq(Rows2)
        /\ \A u \in Scanned : Len(out'[u]) <= max[u]
    BY <1>1, ReadHashEffect, HashType
  <2> QED
    BY <2>1, <2>2, <2>3 DEF TypeOK, ShapeInv, Rows2
<1>2. CASE FailInCollect
  <2>1. /\ outcome' = "failed" /\ window' \in Redis!Windows
        /\ UNCHANGED <<db, changes, collector, max, step, keys, index, detail, flags,
                       skipped, truncated, changed, repeated>>
    BY <1>2, FailInCollectEffect
  <2>2. /\ out' = [u \in Tables |-> out'[u]] /\ \A u \in Tables : out'[u] \in Seq(Rows2)
        /\ \A u \in Scanned : Len(out'[u]) <= max[u]
    <3>1. CASE out' = out
      BY <3>1 DEF TypeOK, ShapeInv, Rows2
    <3>2. CASE Table \in Hashes /\ \E r \in Seq(Rows2) : out' = [out EXCEPT ![Table] = r]
      BY <3>2, HashType
    <3> QED
      BY <1>2, <3>1, <3>2, FailInCollectEffect
  <2> QED
    BY <2>1, <2>2 DEF TypeOK, ShapeInv, Rows2
<1> QED
  BY <1>1, <1>2

LEMMA ClearTypes ==
  ASSUME TypeOK, ShapeInv, Fail \/ Return
  PROVE  TypeOK' /\ ShapeInv'
<1>1. /\ keys' = [t \in Walked |-> <<>>] /\ index' = 1
      /\ detail' = 0 /\ flags' = NoDetail
      /\ out' = [t \in Tables |-> <<>>] /\ skipped' = 0 /\ truncated' = 0
      /\ changed' = {} /\ repeated' = FALSE
      /\ UNCHANGED <<db, changes, collector, max>>
      /\ step' = 1 /\ window' \in Redis!Windows
      /\ outcome' \in {"running", "failed"}
  BY ClearEffect
<1>2. step' \in 1 .. Len(Program[collector']) + 1
  BY <1>1, StepFacts
<1>3. detail' \in 0 .. Len(Details) + Len(Watermarks)
  BY <1>1, DetailsAssumption DEF Watermarks
<1>4. \A t \in Scanned : Len(out'[t]) <= max'[t]
  BY <1>1, LimitsAssumption, TableFacts, EmptyTypes DEF TypeOK
<1>5. repeated' \in BOOLEAN /\ changed' \subseteq Tables \X Keys
      /\ outcome' \in {"running", "done", "failed"}
  BY <1>1, Zenon
<1>6. /\ \A t \in Walked : keys'[t] \in Seq(Keys)
      /\ \A t \in Tables : out'[t] \in Seq(Rows2)
      /\ flags' \in [AllDetails -> Contents]
  BY <1>1, EmptyTypes
<1>7. TypeOK'
  BY <1>1, <1>2, <1>3, <1>4, <1>5, <1>6 DEF TypeOK, Rows2
<1>8. ShapeInv'
  BY <1>1 DEF ShapeInv
<1> QED
  BY <1>7, <1>8

LEMMA ChangeTypes ==
  ASSUME TypeOK, ShapeInv, NEW t \in Mine, NEW k \in Keys, Change(t, k)
  PROVE  TypeOK' /\ ShapeInv'
<1>1. /\ changes' \in 0 .. MaxChanges /\ window' \in Redis!Windows
      /\ changed' \subseteq Tables \X Keys
      /\ db' \in [Tables -> [Keys -> Contents]] /\ db' = [u \in Tables |-> db'[u]]
      /\ UNCHANGED <<collector, max, step, outcome, keys, index, detail, flags, out, skipped,
                     truncated, repeated>>
  BY ChangeEffect DEF TypeOK
<1> QED
  BY <1>1 DEF TypeOK, ShapeInv

LEMMA FinishEffect ==
  ASSUME TypeOK, Finish
  PROVE  /\ step > Len(Program[collector]) /\ outcome' = "done"
         /\ UNCHANGED <<db, changes, collector, max, step, window, keys, index, detail, flags,
                        out, skipped, truncated, changed, repeated>>
BY DEF Finish, outside, walk, result, history

LEMMA TypeStep ==
  ASSUME TypeOK, ShapeInv, PositionInv, [Next]_vars
  PROVE  TypeOK' /\ ShapeInv'
<1>1. CASE Finish
  BY <1>1, FinishEffect DEF TypeOK, ShapeInv
<1>2. CASE UNCHANGED vars
  BY <1>2 DEF TypeOK, ShapeInv, vars, outside, walk, result, history
<1> QED
  BY <1>1, <1>2, ListingTypes, WalkTypes, ExportTypes, ReadDetailTypes, HashTypes, ClearTypes,
     ChangeTypes
  DEF Next

-----------------------------------------------------------------------------
(* Which keys were looked at.                                              *)

\* The walk over t is under way, or over.
LEMMA DoneFacts ==
  ASSUME TypeOK, NEW t \in Walked
  PROVE  /\ Done(t) \subseteq DOMAIN keys[t]
         /\ AtWalk /\ Table = t =>
              Done(t) = {p \in DOMAIN keys[t] : p < index \/ (p = index /\ detail > 0)}
         /\ IsWalked(t) => Done(t) = DOMAIN keys[t] /\ ~(AtWalk /\ Table = t)
         /\ ~IsWalked(t) /\ ~(AtWalk /\ Table = t) => Done(t) = {}
<1>1. ASSUME IsWalked(t), AtWalk, Table = t PROVE FALSE
  <2>1. PICK i \in 1 .. step - 1 : Program[collector][i] = Walk(t)
    BY <1>1 DEF IsWalked
  <2>2. i \in DOMAIN Program[collector] /\ step \in Nat /\ i # step
    BY <2>1, StepFacts DEF TypeOK
  <2>3. Program[collector][i].op = "walk" /\ Program[collector][i].table = Table
    BY <1>1, <2>1 DEF Walk
  <2>4. step <= Len(Program[collector]) /\ Op = "walk"
    BY <1>1 DEF AtWalk
  <2> QED
    BY <2>2, <2>3, <2>4, OnlyHere
<1> QED
  BY <1>1 DEF Done

\* A walk was begun with a list of the keys.
LEMMA ListedBefore ==
  ASSUME TypeOK, NEW i \in DOMAIN Program[collector], NEW t, Program[collector][i] = Walk(t)
  PROVE  \E j \in DOMAIN Program[collector] :
           j < i /\ Program[collector][j].op \in {"scan", "list"} /\ Program[collector][j].table = t
<1>1. Program[collector][i].op = "walk" /\ Program[collector][i].table = t
  BY DEF Walk
<1> QED
  BY <1>1, StepFacts DEF IsProgram

\* A step of the walk at hand changes nothing about the other tables.
LEMMA DoneSame ==
  ASSUME NEW t, UNCHANGED <<collector, step, keys>>,
         UNCHANGED <<index, detail>> \/ ~(AtWalk /\ Table = t)
  PROVE  Done(t)' = Done(t)
<1>1. IsWalked(t)' = IsWalked(t)
  BY DEF IsWalked
<1>2. AtWalk' = AtWalk /\ Table' = Table
  BY DEF AtWalk, Op, Table
<1> QED
  BY <1>1, <1>2 DEF Done

\* The next command: the table whose walk is over was looked at to the end, a
\* list that was just read not at all.
LEMMA DoneNext ==
  ASSUME TypeOK, TypeOK', step <= Len(Program[collector]), NextStep, UNCHANGED <<collector, detail>>,
         detail = 0, NEW t \in Walked
  PROVE  /\ Op = "walk" /\ Table = t => Done(t)' = DOMAIN keys'[t]
         /\ Op \in {"scan", "list"} /\ Table = t => Done(t) = {} /\ Done(t)' = {}
         /\ ~(Op = "walk" /\ Table = t) /\ keys'[t] = keys[t] => Done(t)' = Done(t)
<1>1. /\ step' = step + 1 /\ index' = 1 /\ step \in DOMAIN Program[collector]
      /\ step \in Nat
  BY StepFacts, TableAtHand DEF NextStep
<1>2. IsWalked(t)' <=> IsWalked(t) \/ Program[collector][step] = Walk(t)
  BY <1>1 DEF IsWalked
<1>3. Program[collector][step] = Walk(t) <=> Op = "walk" /\ Table = t
  <2>1. Program[collector][step] \in Instructions
    BY <1>1, StepFacts DEF IsProgram
  <2> QED
    BY <2>1 DEF Instructions, Walk, Op, Table
<1>4. CASE Op = "walk" /\ Table = t
  <2>1. IsWalked(t)'
    BY <1>2, <1>3, <1>4
  <2>2. ~(AtWalk /\ Table = t)'
    <3>1. SUFFICES ASSUME AtWalk', Table' = t PROVE FALSE
      OBVIOUS
    <3>2. /\ step + 1 \in DOMAIN Program[collector]
          /\ Program[collector][step + 1].op = "walk" /\ Program[collector][step + 1].table = Table
      BY <1>1, <1>4, <3>1, StepFacts DEF AtWalk, Op, Table
    <3> QED
      BY <1>1, <1>4, <3>2, OnlyHere
  <2> QED
    BY <1>4, <2>1, <2>2 DEF Done
<1>5. CASE ~(Op = "walk" /\ Table = t)
  <2>1. IsWalked(t)' <=> IsWalked(t)
    BY <1>2, <1>3, <1>5
  <2>2. AtWalk' /\ Table' = t => ~IsWalked(t)' /\ Done(t)' = {}
    <3>1. SUFFICES ASSUME AtWalk', Table' = t PROVE ~IsWalked(t)' /\ Done(t)' = {}
      OBVIOUS
    <3>2. Done(t)' = {p \in DOMAIN keys'[t] : p < 1 \/ (p = 1 /\ 0 > 0)}
      BY <1>1, <3>1 DEF Done
    <3>3. DOMAIN keys'[t] \subseteq Nat \ {0}
      BY DEF TypeOK
    <3>4. Done(t)' = {}
      BY <3>2, <3>3
    <3>5. ~IsWalked(t)'
      <4>1. SUFFICES ASSUME IsWalked(t)' PROVE FALSE
        OBVIOUS
      <4>2. PICK i \in 1 .. step : Program[collector][i] = Walk(t)
        BY <1>1, <4>1 DEF IsWalked
      <4>3. Program[collector][step + 1] \in Instructions /\ step + 1 \in DOMAIN Program[collector]
        BY <1>1, <3>1, StepFacts DEF AtWalk, IsProgram
      <4>4. Program[collector][step + 1] = Walk(t)
        BY <1>1, <3>1, <4>3 DEF AtWalk, Op, Table, Walk, Instructions
      <4>5. i \in DOMAIN Program[collector] /\ i # step + 1
        BY <1>1, <4>2, <4>3, StepFacts
      <4> QED
        BY <4>2, <4>3, <4>4, <4>5, StepFacts DEF IsProgram
    <3> QED
      BY <3>4, <3>5
  <2>3. Done(t)' = IF IsWalked(t) THEN DOMAIN keys'[t] ELSE {}
    BY <2>1, <2>2 DEF Done
  <2>4. Done(t) = IF IsWalked(t) THEN DOMAIN keys[t] ELSE {}
    BY <1>5, DoneFacts DEF AtWalk
  <2>5. ASSUME Op \in {"scan", "list"}, Table = t PROVE ~IsWalked(t)
    <3>1. SUFFICES ASSUME NEW i \in 1 .. step - 1, Program[collector][i] = Walk(t) PROVE FALSE
      BY DEF IsWalked
    <3>2. /\ i \in DOMAIN Program[collector] /\ i < step
          /\ Program[collector][i].op = "walk" /\ Program[collector][i].table = Table
      BY <1>1, <2>5, <3>1, StepFacts DEF Walk
    <3> QED
      BY <3>2, <1>1, OnlyHere
  <2> QED
    BY <1>5, <2>3, <2>4, <2>5
<1> QED
  BY <1>4, <1>5

-----------------------------------------------------------------------------
(* Positions.                                                              *)

LEMMA WalkOfTable ==
  ASSUME NEW c \in DOMAIN Program, NEW i \in DOMAIN Program[c]
  PROVE  /\ Program[c][i].op = "walk" => Program[c][i].table \in Walked
         /\ Program[c][i].op = "scan" => Program[c][i].table \in Scanned
         /\ Program[c][i].op = "list" => Program[c][i].table \in Listed
         /\ Program[c][i].table \in Walked \cup Hashes
<1>1. IsCommand(Program[c][i])
  BY Programs DEF IsProgram
<1>2. CASE \E t \in Scanned : Program[c][i] = Scan(t)
  BY <1>2, TableFacts DEF Scan
<1>3. CASE \E t \in Listed : Program[c][i] = List(t)
  BY <1>3, TableFacts DEF List
<1>4. CASE \E t \in Walked : Program[c][i] = Walk(t)
  BY <1>4 DEF Walk
<1>5. CASE \E t \in Hashes : Program[c][i] = Read(t)
  BY <1>5 DEF Read
<1> QED
  BY <1>1, <1>2, <1>3, <1>4, <1>5 DEF IsCommand

\* Nothing was exported of the table whose walk begins.
LEMMA PositionNext ==
  ASSUME TypeOK, TypeOK', step <= Len(Program[collector]), NextStep, UNCHANGED <<collector, detail>>,
         detail = 0, LaterInv,
         \A t \in Walked : out'[t] = out[t]
  PROVE  PositionInv'
<1>1. step' = step + 1 /\ index' = 1 /\ detail' = 0 /\ step \in Nat
  BY StepFacts DEF NextStep
<1>2. SUFFICES ASSUME AtWalk'
               PROVE  index' <= Len(keys'[Table']) + 1 /\ Len(out'[Table']) <= index' - 1
  BY <1>1 DEF PositionInv
<1>3. /\ step + 1 <= Len(Program[collector]) /\ Op' = "walk"
      /\ Table' = Program[collector][step + 1].table
  BY <1>1, <1>2 DEF AtWalk, Table
<1>4. Table' \in Walked
  <2>1. step + 1 \in DOMAIN Program[collector] /\ Program[collector][step + 1].op = "walk"
    BY <1>1, <1>3, StepFacts DEF Op
  <2> QED
    BY <1>3, <2>1, StepFacts, WalkOfTable
<1>5. out[Table'] = <<>>
  <2>1. step + 1 \in step + 1 .. Len(Program[collector])
    BY <1>1, <1>3, StepFacts
  <2> QED
    BY <1>3, <2>1 DEF LaterInv
<1>6. out'[Table'] = <<>> /\ Len(keys'[Table']) \in Nat
  BY <1>4, <1>5 DEF TypeOK
<1> QED
  BY <1>1, <1>6, EmptyTypes

LEMMA PositionStep ==
  ASSUME IInv, TypeOK', [Next]_vars
  PROVE  PositionInv'
<1> USE DEF IInv
<1>1. ASSUME Pass \/ CutOne \/ Skip \/ FindGone PROVE PositionInv'
  <2>1. /\ step <= Len(Program[collector]) /\ Op = "walk" /\ detail = 0 /\ index <= Len(keys[Table])
        /\ index' = index + 1
        /\ UNCHANGED <<collector, step, keys, detail, out>>
    BY <1>1, PassOverEffect
  <2>2. Table \in Walked
    BY <2>1, TableAtHand
  <2>3. index \in Nat /\ Len(keys[Table]) \in Nat /\ Len(out[Table]) \in Nat
    BY <2>2, TableFacts DEF TypeOK
  <2>4. Len(out[Table]) <= index - 1
    BY <2>1 DEF PositionInv, AtWalk
  <2>5. Table' = Table /\ AtWalk' = AtWalk
    BY <2>1 DEF Table, Op, AtWalk
  <2> QED
    BY <2>1, <2>3, <2>4, <2>5 DEF PositionInv
<1>2. ASSUME CutRest \/ EndOfKeys PROVE PositionInv'
  BY <1>2, WalkEndsEffect, PositionNext
<1>3. ASSUME ScanKeys \/ ListKeys PROVE PositionInv'
  <2>1. /\ step <= Len(Program[collector]) /\ Op \in {"scan", "list"} /\ NextStep
        /\ UNCHANGED <<collector, detail, out>>
    BY <1>3 DEF ScanKeys, ListKeys, Running, outside, result
  <2>2. detail = 0
    BY <2>1 DEF PositionInv, AtWalk, TypeOK
  <2> QED
    BY <2>1, <2>2, PositionNext
<1>4. ASSUME ReadHash PROVE PositionInv'
  <2>1. /\ step <= Len(Program[collector]) /\ Op = "read" /\ Table \in Hashes /\ NextStep
        /\ UNCHANGED <<collector, detail>>
        /\ \E r \in Seq(Rows2) : out' = [out EXCEPT ![Table] = r]
    BY <1>4, ReadHashEffect
  <2>2. detail = 0
    BY <2>1 DEF PositionInv, AtWalk, TypeOK
  <2>3. \A t \in Walked : out'[t] = out[t]
    BY <2>1, HashType, TableFacts
  <2> QED
    BY <2>1, <2>2, <2>3, PositionNext
<1>5. ASSUME Export PROVE PositionInv'
  <2>1. /\ step <= Len(Program[collector]) /\ Op = "walk" /\ Table \in Walked /\ Table \in Tables
        /\ detail = 0 /\ index <= Len(keys[Table])
        /\ out' = [out EXCEPT ![Table] = Append(@, <<Key, Label(Table, db[Table][Key])>>)]
        /\ <<Key, Label(Table, db[Table][Key])>> \in Rows2
        /\ \/ /\ 1 \in DOMAIN DetailsOf(Table) /\ detail' = 1 /\ index' = index
           \/ /\ DetailsOf(Table) = <<>> /\ detail' = 0 /\ index' = index + 1
        /\ UNCHANGED <<collector, step, keys>>
    BY <1>5, ExportEffect, TableFacts
  <2>2. Table' = Table /\ AtWalk' = AtWalk /\ AtWalk
    BY <2>1 DEF Table, Op, AtWalk
  <2>3. /\ Len(out[Table]) \in Nat /\ Len(out'[Table]) = Len(out[Table]) + 1
        /\ out'[Table][Len(out[Table]) + 1] = <<Key, Label(Table, db[Table][Key])>>
    BY <2>1, AppendType
  <2>4. Len(out[Table]) <= index - 1 /\ index \in Nat /\ Len(keys[Table]) \in Nat
    BY <2>1, <2>2 DEF PositionInv, TypeOK
  <2>5. CASE 1 \in DOMAIN DetailsOf(Table) /\ detail' = 1 /\ index' = index
    <3>1. Key' = Key
      BY <2>1, <2>2, <2>5 DEF Key
    <3>2. 1 <= Len(DetailsOf(Table))
      BY <2>1, <2>5, DetailsOfFacts
    <3>3. out'[Table] # <<>>
      BY <2>3, EmptyTypes
    <3>4. out'[Table][Len(out'[Table])][1] = Key'
      BY <2>3, <3>1
    <3> QED
      BY <2>1, <2>2, <2>3, <2>4, <2>5, <3>2, <3>3, <3>4 DEF PositionInv
  <2>6. CASE detail' = 0 /\ index' = index + 1
    BY <2>1, <2>2, <2>3, <2>4, <2>6 DEF PositionInv
  <2> QED
    BY <2>1, <2>5, <2>6
<1>6. ASSUME ReadDetail PROVE PositionInv'
  <2>1. /\ step <= Len(Program[collector]) /\ Op = "walk" /\ Table \in Walked
        /\ index <= Len(keys[Table]) /\ Key \in Keys
        /\ detail \in DOMAIN DetailsOf(Table) /\ DetailAtHand \in AllDetails
        /\ \/ /\ detail < Len(DetailsOf(Table)) /\ detail' = detail + 1 /\ index' = index
           \/ /\ detail' = 0 /\ index' = index + 1
        /\ UNCHANGED <<collector, step, keys>>
    BY <1>6, ReadDetailEffect
  <2>2. Table' = Table /\ AtWalk' = AtWalk /\ AtWalk
    BY <2>1 DEF Table, Op, AtWalk
  <2>3. out'[Table] = out[Table]
    <3>1. Table # DetailAtHand /\ Table \in Tables /\ DetailAtHand \in Tables
      BY <2>1, TableFacts
    <3> QED
      BY <1>6, <2>1, <3>1, ReadDetailEffect DEF ShapeInv
  <2>4. /\ detail \in Nat /\ detail > 0 /\ index \in Nat /\ Len(keys[Table]) \in Nat
        /\ Len(DetailsOf(Table)) \in Nat /\ Len(out[Table]) \in Nat
    BY <2>1, DetailsOfFacts, TableFacts DEF TypeOK
  <2>5. /\ Len(out[Table]) <= index
        /\ out[Table] # <<>> /\ out[Table][Len(out[Table])][1] = Key
    BY <2>2, <2>4 DEF PositionInv
  <2>6. CASE detail < Len(DetailsOf(Table)) /\ detail' = detail + 1 /\ index' = index
    <3>1. Key' = Key
      BY <2>1, <2>2, <2>6 DEF Key
    <3> QED
      BY <2>1, <2>2, <2>3, <2>4, <2>5, <2>6, <3>1 DEF PositionInv
  <2>7. CASE detail' = 0 /\ index' = index + 1
    BY <2>1, <2>2, <2>3, <2>4, <2>5, <2>7 DEF PositionInv
  <2> QED
    BY <2>1, <2>6, <2>7
<1>7. ASSUME Fail \/ Return PROVE PositionInv'
  <2>1. /\ keys' = [t \in Walked |-> <<>>] /\ out' = [t \in Tables |-> <<>>]
        /\ index' = 1 /\ detail' = 0
    BY <1>7, ClearEffect
  <2>2. AtWalk' => Table' \in Walked
    <3>1. SUFFICES ASSUME AtWalk' PROVE Table' \in Walked
      OBVIOUS
    <3>2. step' = 1 /\ collector' = collector
      BY <1>7, ClearEffect
    <3>3. 1 \in DOMAIN Program[collector] /\ Program[collector][1].op = "walk"
      BY <3>1, <3>2, StepFacts DEF AtWalk, Op
    <3> QED
      BY <3>2, <3>3, StepFacts, WalkOfTable DEF Table
  <2> QED
    BY <2>1, <2>2, TableFacts, EmptyTypes DEF PositionInv
<1>8. ASSUME UNCHANGED <<collector, step, keys, index, detail>>, \A t \in Walked : out'[t] = out[t]
      PROVE PositionInv'
  <2>1. Table' = Table /\ AtWalk' = AtWalk
    BY <1>8 DEF Table, Op, AtWalk
  <2>2. AtWalk => out'[Table] = out[Table]
    BY <1>8, TableAtHand DEF AtWalk
  <2>3. Key' = Key
    BY <1>8, <2>1 DEF Key
  <2> QED
    BY <1>8, <2>1, <2>2, <2>3 DEF PositionInv
<1>9. ASSUME FailInCollect PROVE PositionInv'
  <2>1. \A t \in Walked : out'[t] = out[t]
    BY <1>9, FailInCollectEffect, HashType, TableFacts
  <2> QED
    BY <1>8, <1>9, <2>1, FailInCollectEffect
<1>10. ASSUME Finish PROVE PositionInv'
  BY <1>8, <1>10, FinishEffect
<1>11. ASSUME NEW t \in Mine, NEW k \in Keys, Change(t, k) PROVE PositionInv'
  BY <1>8, <1>11, ChangeEffect
<1>12. ASSUME UNCHANGED vars PROVE PositionInv'
  BY <1>8, <1>12 DEF vars, outside, walk, result
<1> QED
  BY <1>1, <1>2, <1>3, <1>4, <1>5, <1>6, <1>7, <1>9, <1>10, <1>11, <1>12 DEF Next

-----------------------------------------------------------------------------
(* Lists.                                                                  *)

LEMMA WindowOpens ==
  ASSUME TypeOK, TypeOK', UNCHANGED <<db, collector>>, window' = WindowAt(step')
  PROVE  WindowInv'
<1>1. SUFFICES ASSUME step' <= Len(Program[collector]), Op' = "scan",
                      NEW k \in Keys, db[Table'][k] # Absent
               PROVE  k \in window'.throughout
  BY DEF WindowInv, Present
<1>2. /\ step' \in DOMAIN Program[collector] /\ Program[collector][step'].op = "scan"
      /\ Table' = Program[collector][step'].table
  BY <1>1, StepFacts DEF TypeOK, Op, Table
<1>3. window' = Redis!Opened(Present(Program[collector][step'].table))
  BY <1>2 DEF WindowAt
<1> QED
  BY <1>1, <1>2, <1>3 DEF Redis!Opened, Present

LEMMA WindowStep ==
  ASSUME IInv, TypeOK', [Next]_vars
  PROVE  WindowInv'
<1> USE DEF IInv
<1>1. ASSUME NextStep, UNCHANGED <<db, collector>> PROVE WindowInv'
  BY <1>1, WindowOpens DEF NextStep
<1>2. ASSUME outcome' # "running" PROVE WindowInv'
  BY <1>2 DEF WindowInv
<1>3. ASSUME UNCHANGED <<db, collector, step, outcome, window, changed>> PROVE WindowInv'
  BY <1>3 DEF WindowInv, Op, Table, Present
<1>4. CASE ScanKeys \/ ListKeys
  BY <1>1, <1>4 DEF ScanKeys, ListKeys, outside
<1>5. CASE Pass \/ CutOne \/ Skip \/ FindGone
  BY <1>3, <1>5, PassOverEffect
<1>6. CASE CutRest \/ EndOfKeys
  BY <1>1, <1>6, WalkEndsEffect
<1>7. CASE Export
  BY <1>3, <1>7, ExportEffect
<1>8. CASE ReadDetail
  BY <1>3, <1>8, ReadDetailEffect
<1>9. CASE ReadHash
  BY <1>1, <1>9, ReadHashEffect
<1>10. CASE Finish \/ FailInCollect
  BY <1>2, <1>10, FinishEffect, FailInCollectEffect
<1>11. CASE Fail \/ Return
  <2>1. CASE outcome' = "failed"
    BY <1>2, <2>1
  <2>2. CASE window' = WindowAt(1)
    BY <1>11, <2>2, ClearEffect, WindowOpens
  <2> QED
    BY <1>11, <2>1, <2>2, ClearEffect
<1>12. CASE \E t \in Mine, k \in Keys : Change(t, k)
  <2>1. PICK t \in Mine, k \in Keys : Change(t, k)
    BY <1>12
  <2>2. PICK x \in Contents :
          /\ db' = [db EXCEPT ![t][k] = x]
          /\ window' = IF Running("scan") /\ t = Table
                       THEN Redis!Noted(window, k, x # Absent) ELSE window
    BY <2>1, ChangeEffect
  <2>3. /\ changed' = changed \cup {<<t, k>>} /\ UNCHANGED <<collector, step, outcome>>
        /\ \A u \in Tables : \A j \in Keys : <<u, j>> # <<t, k>> => db'[u][j] = db[u][j]
    BY <2>1, ChangeEffect
  <2>4. SUFFICES ASSUME step <= Len(Program[collector]), Op = "scan", outcome = "running",
                        NEW j \in Keys, db'[Table][j] # Absent, <<Table, j>> \notin changed'
                 PROVE  j \in window'.throughout
    BY <2>3 DEF WindowInv, Op, Table, Present
  <2>5. Table \in Tables /\ <<Table, j>> # <<t, k>> /\ <<Table, j>> \notin changed
    BY <2>3, <2>4, TableAtHand
  <2>6. db[Table][j] # Absent
    BY <2>3, <2>4, <2>5
  <2>7. j \in window.throughout
    BY <2>4, <2>5, <2>6 DEF WindowInv, Present
  <2>8. CASE t = Table
    BY <2>2, <2>5, <2>7, <2>8 DEF Redis!Noted, TypeOK, Redis!Windows
  <2>9. CASE t # Table
    BY <2>2, <2>7, <2>9
  <2> QED
    BY <2>8, <2>9
<1>13. CASE UNCHANGED vars
  BY <1>3, <1>13 DEF vars, outside, walk, history
<1> QED
  BY <1>4, <1>5, <1>6, <1>7, <1>8, <1>9, <1>10, <1>11, <1>12, <1>13 DEF Next

\* The list of the table at hand holds what was there all the time.
LEMMA ListedKeys ==
  ASSUME TypeOK, ShapeInv, WindowInv, ScanKeys \/ ListKeys
  PROVE  /\ step <= Len(Program[collector]) /\ Op \in {"scan", "list"} /\ outcome = "running"
         /\ Table \in Walked
         /\ \A t \in Walked : t # Table => keys'[t] = keys[t]
         /\ \A k \in Present(Source(Table)) :
              IsStable(Table, k) => \E p \in DOMAIN keys'[Table] : keys'[Table][p] = k
         /\ ~repeated' => ~repeated /\ Injective(keys'[Table])
         /\ NextStep
         /\ UNCHANGED <<db, changes, collector, max, outcome, detail, flags, out, skipped,
                        truncated, changed>>
<1>1. /\ step <= Len(Program[collector]) /\ Op \in {"scan", "list"} /\ outcome = "running"
      /\ NextStep
      /\ UNCHANGED <<db, changes, collector, max, outcome, detail, flags, out, skipped,
                     truncated, changed>>
  BY DEF ScanKeys, ListKeys, Running, outside, result, history
<1>2. Table \in Walked
  BY <1>1, TableAtHand
<1>3. CASE ScanKeys
  <2>1. PICK s \in Redis!SortedLists(window) :
          /\ keys' = [keys EXCEPT ![Table] = s]
          /\ repeated' = (repeated \/ Redis!IsRepeated(s))
    BY <1>3 DEF ScanKeys
  <2>2. /\ \A k \in window.throughout : \E p \in DOMAIN s : s[p] = k
        /\ ~Redis!IsRepeated(s) => Injective(s)
    BY ScanFacts DEF TypeOK
  <2>3. Op = "scan" /\ Table \in Scanned /\ Source(Table) = Table
    BY <1>1, <1>3, TableAtHand, TableFacts DEF ScanKeys, Running
  <2>4. \A k \in Present(Source(Table)) : IsStable(Table, k) => k \in window.throughout
    BY <1>1, <2>3 DEF WindowInv, IsStable
  <2>5. keys'[Table] = s /\ \A t \in Walked : t # Table => keys'[t] = keys[t]
    BY <1>2, <2>1 DEF ShapeInv
  <2> QED
    BY <1>1, <1>2, <2>1, <2>2, <2>4, <2>5
<1>4. CASE ListKeys
  <2>1. PICK s \in SetToSeqs(Present(Source(Table))) : keys' = [keys EXCEPT ![Table] = s]
    BY <1>4 DEF ListKeys
  <2>2. (\A k \in Present(Source(Table)) : \E p \in DOMAIN s : s[p] = k) /\ Injective(s)
    BY ListFacts DEF Present
  <2>3. keys'[Table] = s /\ \A t \in Walked : t # Table => keys'[t] = keys[t]
    BY <1>2, <2>1 DEF ShapeInv
  <2>4. repeated' = repeated
    BY <1>4 DEF ListKeys, history
  <2> QED
    BY <1>1, <1>2, <2>2, <2>3, <2>4
<1> QED
  BY <1>3, <1>4

LEMMA KeysSame ==
  ASSUME KeysInv, UNCHANGED <<collector, keys, repeated>>,
         \A i \in step .. step' - 1 : Program[collector][i].op \notin {"scan", "list"},
         step \in Nat, step' \in Nat,
         \A i \in 1 .. step' - 1 :
           Program[collector][i].op \in {"scan", "list"} =>
             LET t == Program[collector][i].table
             IN  \A k \in Keys : db'[Source(t)][k] # Absent /\ IsStable(t, k)' =>
                   db[Source(t)][k] # Absent /\ IsStable(t, k)
  PROVE  KeysInv'
<1>1. SUFFICES ASSUME NEW i \in 1 .. step' - 1, Program[collector][i].op \in {"scan", "list"},
                      NEW k \in Keys, db'[Source(Program[collector][i].table)][k] # Absent,
                      IsStable(Program[collector][i].table, k)'
               PROVE  \E p \in DOMAIN keys[Program[collector][i].table] :
                        keys[Program[collector][i].table][p] = k
  BY DEF KeysInv, Present
<1>2. i \in 1 .. step - 1
  <2>1. ~(i \in step .. step' - 1)
    BY <1>1
  <2> QED
    BY <2>1
<1>3. k \in Present(Source(Program[collector][i].table)) /\ IsStable(Program[collector][i].table, k)
  BY <1>1 DEF Present
<1> QED
  BY <1>1, <1>2, <1>3 DEF KeysInv

LEMMA OneStep ==
  ASSUME NEW a \in Nat, NEW b \in Nat, b = a \/ b = a + 1, NEW i \in a .. b - 1
  PROVE  i = a /\ b = a + 1
OBVIOUS

LEMMA KeysStep ==
  ASSUME IInv, TypeOK', [Next]_vars
  PROVE  KeysInv'
<1> USE DEF IInv
<1>1. step \in Nat /\ step' \in Nat
  BY StepFacts DEF TypeOK
<1>2. ASSUME UNCHANGED <<collector, keys, repeated, db, changed>>,
             step' = step \/ (step' = step + 1 /\ Op \notin {"scan", "list"})
      PROVE  KeysInv'
  <2>1. \A i \in step .. step' - 1 : Program[collector][i].op \notin {"scan", "list"}
    <3>1. SUFFICES ASSUME NEW i \in step .. step' - 1
                   PROVE  Program[collector][i].op \notin {"scan", "list"}
      OBVIOUS
    <3>2. i = step /\ step' = step + 1
      BY <1>1, <1>2, <3>1, OneStep
    <3> QED
      BY <1>1, <1>2, <3>2 DEF Op
  <2>2. \A t, k : IsStable(t, k)' = IsStable(t, k)
    BY <1>2 DEF IsStable
  <2> QED
    BY <1>1, <1>2, <2>1, <2>2, KeysSame
<1>3. CASE ScanKeys \/ ListKeys
  <2>1. /\ step <= Len(Program[collector]) /\ Op \in {"scan", "list"}
        /\ Table \in Walked
        /\ \A t \in Walked : t # Table => keys'[t] = keys[t]
        /\ \A k \in Present(Source(Table)) :
             IsStable(Table, k) => \E p \in DOMAIN keys'[Table] : keys'[Table][p] = k
        /\ ~repeated' => ~repeated /\ Injective(keys'[Table])
        /\ step' = step + 1 /\ UNCHANGED <<db, collector, changed>>
    BY <1>3, ListedKeys DEF NextStep
  <2>2. ASSUME NEW i \in 1 .. step' - 1, Program[collector][i].op \in {"scan", "list"},
               NEW k \in Present(Source(Program[collector][i].table)),
               IsStable(Program[collector][i].table, k)
        PROVE  \E p \in DOMAIN keys'[Program[collector][i].table] :
                 keys'[Program[collector][i].table][p] = k
    <3>1. i \in DOMAIN Program[collector] /\ collector \in DOMAIN Program
      BY <1>1, <2>1, StepFacts
    <3>2. CASE i = step
      BY <2>1, <2>2, <3>2 DEF Table
    <3>3. CASE i # step
      <4>1. i \in 1 .. step - 1
        BY <1>1, <2>1, <3>3
      <4>2. Program[collector][i].table \in Walked
        BY <2>2, <3>1, WalkOfTable, TableFacts
      <4>3. Program[collector][i].table # Table
        <5>1. SUFFICES ASSUME Program[collector][i].table = Table PROVE FALSE
          OBVIOUS
        <5>2. Program[collector][i].op = "scan" => Table \in Scanned
          BY <3>1, <5>1, WalkOfTable
        <5>3. Program[collector][i].op = "list" => Table \in Listed
          BY <3>1, <5>1, WalkOfTable
        <5>4. Program[collector][i].op = Op
          BY <2>1, <2>2, <5>2, <5>3, TableAtHand DEF Scanned, Listed
        <5> QED
          BY <2>1, <3>1, <3>3, <5>1, <5>4, OnlyHere
      <4>4. \E p \in DOMAIN keys[Program[collector][i].table] :
              keys[Program[collector][i].table][p] = k
        BY <2>2, <4>1 DEF KeysInv
      <4> QED
        BY <2>1, <4>2, <4>3, <4>4
    <3> QED
      BY <3>2, <3>3
  <2>3. ~repeated' => \A t \in Walked : Injective(keys'[t])
    BY <2>1 DEF KeysInv
  <2> QED
    BY <2>1, <2>2, <2>3 DEF KeysInv, Present, IsStable, Injective
<1>4. CASE Pass \/ CutOne \/ Skip \/ FindGone
  BY <1>2, <1>4, PassOverEffect
<1>5. CASE CutRest \/ EndOfKeys
  BY <1>2, <1>5, WalkEndsEffect DEF NextStep
<1>6. CASE Export
  BY <1>2, <1>6, ExportEffect
<1>7. CASE ReadDetail
  BY <1>2, <1>7, ReadDetailEffect
<1>8. CASE ReadHash
  BY <1>2, <1>8, ReadHashEffect DEF NextStep
<1>9. CASE Finish \/ FailInCollect
  BY <1>2, <1>9, FinishEffect, FailInCollectEffect
<1>10. CASE Fail \/ Return
  <2>1. step' = 1 /\ keys' = [t \in Walked |-> <<>>]
    BY <1>10, ClearEffect
  <2> QED
    BY <2>1, EmptyTypes DEF KeysInv, Injective
<1>11. CASE \E t \in Mine, k \in Keys : Change(t, k)
  <2>1. PICK t \in Mine, k \in Keys : Change(t, k)
    BY <1>11
  <2>2. /\ changed' = changed \cup {<<t, k>>}
        /\ UNCHANGED <<collector, step, keys, repeated>>
        /\ \A u \in Tables : \A j \in Keys : <<u, j>> # <<t, k>> => db'[u][j] = db[u][j]
    BY <2>1, ChangeEffect
  <2>3. ASSUME NEW i \in 1 .. step - 1, Program[collector][i].op \in {"scan", "list"},
               NEW j \in Keys,
               db'[Source(Program[collector][i].table)][j] # Absent,
               IsStable(Program[collector][i].table, j)'
        PROVE  /\ db[Source(Program[collector][i].table)][j] # Absent
               /\ IsStable(Program[collector][i].table, j)
    <3>1. Program[collector][i].table \in Tables
      <4>1. Program[collector][i] \in Instructions
        BY StepFacts DEF IsProgram, TypeOK
      <4> QED
        BY <4>1, TableFacts DEF Instructions
    <3>2. IsStable(Program[collector][i].table, j)
      BY <2>2, <2>3 DEF IsStable
    <3>3. <<Source(Program[collector][i].table), j>> # <<t, k>>
      BY <2>2, <2>3 DEF IsStable
    <3> QED
      BY <2>2, <2>3, <3>1, <3>2, <3>3, TableFacts
  <2> QED
    BY <1>1, <2>2, <2>3, KeysSame
<1>12. CASE UNCHANGED vars
  BY <1>2, <1>12 DEF vars, outside, walk, history
<1> QED
  BY <1>3, <1>4, <1>5, <1>6, <1>7, <1>8, <1>9, <1>10, <1>11, <1>12 DEF Next

LEMMA LaterSame ==
  ASSUME TypeOK, LaterInv, UNCHANGED collector, step' = step \/ step' = step + 1,
         NEW t \in Tables,
         \A u \in Tables : u # t => out'[u] = out[u],
         \/ t \in AllDetails
         \/ /\ step <= Len(Program[collector]) /\ Op \in {"walk", "read"} /\ t = Table
            /\ t \in Hashes => OncePerKey(out'[t])
  PROVE  LaterInv'
<1>1. /\ step \in Nat /\ collector \in DOMAIN Program
      /\ DOMAIN Program[collector] = 1 .. Len(Program[collector])
      /\ Len(Program[collector]) \in Nat
  BY StepFacts
<1>2. ASSUME NEW i \in step' + 1 .. Len(Program[collector])
      PROVE  out'[Program[collector][i].table] = <<>>
  <2>1. i \in step + 1 .. Len(Program[collector]) /\ i \in DOMAIN Program[collector] /\ i > step
    BY <1>1
  <2>2. Program[collector][i].table \in Walked \cup Hashes
    BY <1>1, <2>1, WalkOfTable
  <2>3. Program[collector][i].table # t
    <3>1. CASE t \in AllDetails
      BY <2>2, <3>1, TableFacts
    <3>2. CASE step <= Len(Program[collector]) /\ Op \in {"walk", "read"} /\ t = Table
      <4>1. SUFFICES ASSUME Program[collector][i].table = Table PROVE FALSE
        BY <3>2
      <4>2. i <= step
        BY <2>1, <3>2, <4>1, OnlyHere
      <4> QED
        BY <1>1, <2>1, <4>2
    <3> QED
      BY <3>1, <3>2
  <2>4. out[Program[collector][i].table] = <<>>
    BY <2>1 DEF LaterInv
  <2> QED
    BY <2>2, <2>3, <2>4, TableFacts
<1>3. ASSUME NEW u \in Hashes PROVE OncePerKey(out'[u])
  <2>1. CASE u = t
    BY <2>1, TableFacts
  <2>2. CASE u # t
    BY <2>2, TableFacts DEF LaterInv
  <2> QED
    BY <2>1, <2>2
<1> QED
  BY <1>2, <1>3 DEF LaterInv, OncePerKey

LEMMA LaterStep ==
  ASSUME IInv, TypeOK', [Next]_vars
  PROVE  LaterInv'
<1> USE DEF IInv
<1>1. /\ step \in Nat /\ collector \in DOMAIN Program
      /\ DOMAIN Program[collector] = 1 .. Len(Program[collector])
      /\ Len(Program[collector]) \in Nat
  BY StepFacts
<1>2. ASSUME UNCHANGED <<collector, out>>, step' = step \/ step' = step + 1
      PROVE  LaterInv'
  <2>1. \A i \in step' + 1 .. Len(Program[collector]) : i \in step + 1 .. Len(Program[collector])
    BY <1>1, <1>2
  <2> QED
    BY <1>2, <2>1 DEF LaterInv, OncePerKey
<1>3. CASE ScanKeys \/ ListKeys
  BY <1>2, <1>3, ListedKeys DEF NextStep
<1>4. CASE Pass \/ CutOne \/ Skip \/ FindGone
  BY <1>2, <1>4, PassOverEffect
<1>5. CASE CutRest \/ EndOfKeys
  BY <1>2, <1>5, WalkEndsEffect DEF NextStep
<1>6. CASE Export
  <2>1. /\ step <= Len(Program[collector]) /\ Op = "walk" /\ Table \in Walked
        /\ out' = [out EXCEPT ![Table] = Append(@, <<Key, Label(Table, db[Table][Key])>>)]
        /\ UNCHANGED <<collector, step>>
    BY <1>6, ExportEffect
  <2>2. Table \in Tables /\ Table \notin Hashes
    BY <2>1, TableFacts
  <2>3. \A u \in Tables : u # Table => out'[u] = out[u]
    BY <2>1, <2>2 DEF ShapeInv
  <2> QED
    BY <2>1, <2>2, <2>3, LaterSame
<1>7. CASE ReadDetail
  <2>1. DetailAtHand \in AllDetails /\ DetailAtHand \in Tables /\ UNCHANGED <<collector, step>>
    BY <1>7, ReadDetailEffect, TableFacts
  <2>2. \A u \in Tables : u # DetailAtHand => out'[u] = out[u]
    BY <1>7, <2>1, ReadDetailEffect DEF ShapeInv
  <2> QED
    BY <2>1, <2>2, LaterSame
<1>8. ASSUME NEW r \in Seq(Rows2), out' = [out EXCEPT ![Table] = r], OncePerKey(r),
             step <= Len(Program[collector]), Op = "read", Table \in Hashes,
             UNCHANGED collector, step' = step \/ step' = step + 1
      PROVE  LaterInv'
  <2>1. Table \in Tables /\ out'[Table] = r /\ \A u \in Tables : u # Table => out'[u] = out[u]
    BY <1>8, HashType, TableFacts
  <2> QED
    BY <1>8, <2>1, LaterSame
<1>9. CASE ReadHash
  BY <1>8, <1>9, ReadHashEffect DEF NextStep
<1>10. CASE FailInCollect
  <2>1. CASE out' = out
    BY <1>2, <1>10, <2>1, FailInCollectEffect
  <2>2. CASE out' # out
    BY <1>8, <1>10, <2>2, FailInCollectEffect
  <2> QED
    BY <2>1, <2>2
<1>11. CASE Finish
  BY <1>2, <1>11, FinishEffect
<1>12. CASE Fail \/ Return
  <2>1. out' = [t \in Tables |-> <<>>] /\ step' = 1 /\ collector' = collector
    BY <1>12, ClearEffect
  <2>2. \A i \in 2 .. Len(Program[collector]) : Program[collector][i].table \in Tables
    BY <1>1, WalkOfTable, TableFacts
  <2> QED
    BY <2>1, <2>2, TableFacts, EmptyTypes DEF LaterInv, OncePerKey
<1>13. CASE \E t \in Mine, k \in Keys : Change(t, k)
  BY <1>2, <1>13, ChangeEffect
<1>14. CASE UNCHANGED vars
  BY <1>2, <1>14 DEF vars, outside, result
<1> QED
  BY <1>3, <1>4, <1>5, <1>6, <1>7, <1>9, <1>10, <1>11, <1>12, <1>13, <1>14 DEF Next

LEMMA FailedStep ==
  ASSUME IInv, TypeOK', [Next]_vars
  PROVE  FailedInv'
<1> USE DEF IInv
<1>1. ASSUME outcome' # "failed" PROVE FailedInv'
  BY <1>1 DEF FailedInv
<1>2. ASSUME UNCHANGED <<collector, outcome, out>> PROVE FailedInv'
  BY <1>2 DEF FailedInv
<1>3. CASE ScanKeys \/ ListKeys
  BY <1>2, <1>3, ListedKeys
<1>4. CASE Pass \/ CutOne \/ Skip \/ FindGone
  BY <1>2, <1>4, PassOverEffect
<1>5. CASE CutRest \/ EndOfKeys
  BY <1>2, <1>5, WalkEndsEffect
<1>6. CASE Export
  BY <1>1, <1>6, ExportEffect
<1>7. CASE ReadDetail
  BY <1>1, <1>7, ReadDetailEffect
<1>8. CASE ReadHash
  BY <1>1, <1>8, ReadHashEffect
<1>9. CASE FailInCollect
  BY <1>9, FailInCollectEffect DEF FailedInv
<1>10. CASE Finish
  BY <1>1, <1>10, FinishEffect
<1>11. CASE Fail \/ Return
  BY <1>11, ClearEffect DEF FailedInv
<1>12. CASE \E t \in Mine, k \in Keys : Change(t, k)
  BY <1>2, <1>12, ChangeEffect
<1>13. CASE UNCHANGED vars
  BY <1>2, <1>13 DEF vars, outside, result
<1> QED
  BY <1>3, <1>4, <1>5, <1>6, <1>7, <1>8, <1>9, <1>10, <1>11, <1>12, <1>13 DEF Next

-----------------------------------------------------------------------------
(* Rows and the keys they are made of.                                     *)

\* The result of t stays as it is, while keys that are no entries are passed over.
LEMMA ExportSame ==
  ASSUME NEW t \in Walked, ExportOf(t), out'[t] = out[t], UNCHANGED <<db, changed>>,
         Done(t) \subseteq Done(t)', Done(t) # {} => keys'[t] = keys[t],
         truncated' = 0 =>
           truncated = 0 /\ \A p \in Done(t)' : p \in Done(t) \/ ~IsEntry(t, keys'[t][p])
  PROVE  ExportOf(t)'
<1>1. \A k : IsEntry(t, k)' = IsEntry(t, k) /\ IsStable(t, k)' = IsStable(t, k)
  BY DEF IsEntry, IsStable
<1>2. \A i \in DOMAIN out[t] : \E p \in Done(t)' : keys'[t][p] = out[t][i][1]
  BY DEF ExportOf
<1>3. Injective(keys'[t]) => OncePerKey(out[t])
  <2>1. CASE Done(t) = {}
    BY <2>1 DEF ExportOf, OncePerKey
  <2>2. CASE keys'[t] = keys[t]
    BY <2>2 DEF ExportOf
  <2> QED
    BY <2>1, <2>2
<1>4. ASSUME truncated' = 0, NEW p \in Done(t)', IsEntry(t, keys'[t][p]), IsStable(t, keys'[t][p])
      PROVE  \E i \in DOMAIN out[t] : out[t][i][1] = keys'[t][p]
  <2>1. p \in Done(t) /\ keys'[t] = keys[t] /\ truncated = 0
    BY <1>4
  <2> QED
    BY <1>4, <2>1 DEF ExportOf
<1>5. \A i \in DOMAIN out[t] :
        IsStable(t, out[t][i][1]) => out[t][i][2] = Label(t, db[t][out[t][i][1]])
  BY DEF ExportOf
<1> QED
  BY <1>1, <1>2, <1>3, <1>4, <1>5 DEF ExportOf, OncePerKey, Injective

\* An entry is exported: a row for the key at hand.
LEMMA ExportHere ==
  ASSUME TypeOK, ShapeInv, TypeOK', Export, ExportOf(Table)
  PROVE  ExportOf(Table)'
<1> DEFINE T == Table
           L == Len(out[T])
           r == <<Key, Label(T, db[T][Key])>>
<1>1. /\ step <= Len(Program[collector]) /\ Op = "walk"
      /\ T \in Walked /\ T \in Tables
      /\ detail = 0 /\ index <= Len(keys[T]) /\ Key \in Keys
      /\ out' = [out EXCEPT ![T] = Append(@, r)] /\ r \in Rows2
      /\ \/ detail' = 1 /\ index' = index
         \/ detail' = 0 /\ index' = index + 1
      /\ UNCHANGED <<db, collector, step, keys, truncated, changed>>
  BY ExportEffect, TableFacts
<1>2. AtWalk /\ AtWalk' /\ Table' = T
  BY <1>1 DEF AtWalk, Op, Table
<1>3. index \in DOMAIN keys[T] /\ index \in Nat /\ DOMAIN keys[T] \subseteq Nat
  BY <1>1 DEF TypeOK
<1>4. Done(T) = {p \in DOMAIN keys[T] : p < index}
  BY <1>1, <1>2 DEF Done
<1>5. Done(T)' = Done(T) \cup {index}
  <2>1. Done(T)' = {p \in DOMAIN keys[T] : p < index' \/ (p = index' /\ detail' > 0)}
    BY <1>1, <1>2 DEF Done
  <2>2. \A p \in DOMAIN keys[T] : p < index' \/ (p = index' /\ detail' > 0) <=> p < index \/ p = index
    BY <1>1, <1>3
  <2> QED
    BY <1>3, <1>4, <2>1, <2>2
<1>6. /\ L \in Nat /\ DOMAIN out[T] = 1 .. L /\ DOMAIN out'[T] = 1 .. L + 1
      /\ \A i \in DOMAIN out[T] : out'[T][i] = out[T][i]
      /\ out'[T][L + 1] = r
  BY <1>1, AppendType
<1>7. \A k : IsEntry(T, k)' = IsEntry(T, k) /\ IsStable(T, k)' = IsStable(T, k)
  BY <1>1, <1>2 DEF IsEntry, IsStable
<1>8. r[1] = Key /\ r[2] = Label(T, db[T][Key]) /\ keys[T][index] = Key
  BY DEF Key
<1>9. ASSUME NEW i \in DOMAIN out'[T] PROVE i \in DOMAIN out[T] \/ i = L + 1
  BY <1>6
<1>10. ASSUME NEW i \in DOMAIN out'[T]
       PROVE  /\ \E p \in Done(T)' : keys[T][p] = out'[T][i][1]
              /\ IsStable(T, out'[T][i][1]) => out'[T][i][2] = Label(T, db[T][out'[T][i][1]])
  <2>1. CASE i \in DOMAIN out[T]
    BY <1>5, <1>6, <2>1 DEF ExportOf
  <2>2. CASE i = L + 1
    BY <1>5, <1>6, <1>8, <2>2
  <2> QED
    BY <1>9, <2>1, <2>2
<1>11. ASSUME Injective(keys[T]) PROVE OncePerKey(out'[T])
  <2>1. ASSUME NEW i \in DOMAIN out[T] PROVE out'[T][i][1] # Key
    <3>1. PICK p \in Done(T) : keys[T][p] = out[T][i][1]
      BY DEF ExportOf
    <3>2. p \in DOMAIN keys[T] /\ p # index
      BY <1>3, <1>4
    <3> QED
      BY <1>3, <1>6, <1>8, <1>11, <3>1, <3>2 DEF Injective
  <2>2. ASSUME NEW i \in DOMAIN out'[T], NEW j \in DOMAIN out'[T], out'[T][i][1] = out'[T][j][1]
        PROVE  i = j
    <3>1. CASE i \in DOMAIN out[T] /\ j \in DOMAIN out[T]
      BY <1>6, <1>11, <2>2, <3>1 DEF ExportOf, OncePerKey
    <3>2. CASE i = L + 1 \/ j = L + 1
      BY <1>6, <1>8, <1>9, <2>1, <2>2, <3>2
    <3> QED
      BY <1>9, <3>1, <3>2
  <2> QED
    BY <2>2 DEF OncePerKey
<1>12. ASSUME truncated = 0, NEW p \in Done(T)', IsEntry(T, keys[T][p]), IsStable(T, keys[T][p])
       PROVE  \E i \in DOMAIN out'[T] : out'[T][i][1] = keys[T][p]
  <2>1. CASE p \in Done(T)
    <3>1. PICK i \in DOMAIN out[T] : out[T][i][1] = keys[T][p]
      BY <1>12, <2>1 DEF ExportOf
    <3> QED
      BY <1>6, <3>1
  <2>2. CASE p = index
    <3>1. L + 1 \in DOMAIN out'[T]
      BY <1>6
    <3> QED
      BY <1>6, <1>8, <2>2, <3>1
  <2> QED
    BY <1>5, <2>1, <2>2
<1>13. ExportOf(T)'
  BY <1>1, <1>2, <1>7, <1>10, <1>11, <1>12 DEF ExportOf, OncePerKey, Injective
<1> QED
  BY <1>13

\* The hashes of a row are read: its key counts as looked at from the first on.
LEMMA DoneRead ==
  ASSUME TypeOK, PositionInv, ReadDetail, NEW t \in Walked
  PROVE  Done(t)' = Done(t)
<1>1. /\ step <= Len(Program[collector]) /\ Op = "walk" /\ detail > 0
      /\ \/ detail' = detail + 1 /\ index' = index
         \/ detail' = 0 /\ index' = index + 1
      /\ UNCHANGED <<collector, step, keys>>
  BY ReadDetailEffect DEF ReadDetail
<1>2. CASE Table = t
  <2>1. AtWalk /\ AtWalk' /\ Table' = t
    BY <1>1, <1>2 DEF AtWalk, Op, Table
  <2>2. /\ Done(t) = {p \in DOMAIN keys[t] : p < index \/ (p = index /\ detail > 0)}
        /\ Done(t)' = {p \in DOMAIN keys[t] : p < index' \/ (p = index' /\ detail' > 0)}
    BY <1>1, <1>2, <2>1 DEF Done
  <2>3. index \in Nat /\ detail \in Nat /\ DOMAIN keys[t] \subseteq Nat
    BY DetailsAssumption DEF TypeOK, Watermarks
  <2>4. \A p \in DOMAIN keys[t] : p < index' \/ (p = index' /\ detail' > 0) <=> p < index \/ p = index
    BY <1>1, <2>3
  <2> QED
    BY <1>1, <2>2, <2>4
<1>3. CASE Table # t
  BY <1>1, <1>3, DoneSame
<1> QED
  BY <1>2, <1>3

LEMMA DoneGrows ==
  ASSUME TypeOK, Pass \/ CutOne \/ Skip \/ FindGone, NEW t \in Walked
  PROVE  /\ Done(t) \subseteq Done(t)'
         /\ \A p \in Done(t)' : p \in Done(t) \/ (Table = t /\ p = index)
<1>1. /\ step <= Len(Program[collector]) /\ Op = "walk"
      /\ detail = 0 /\ index' = index + 1 /\ index \in Nat
      /\ UNCHANGED <<collector, step, keys, detail>>
  BY PassOverEffect DEF TypeOK
<1>2. CASE Table = t
  <2>1. AtWalk /\ AtWalk' /\ Table' = t
    BY <1>1, <1>2 DEF AtWalk, Op, Table
  <2>2. /\ Done(t) = {p \in DOMAIN keys[t] : p < index}
        /\ Done(t)' = {p \in DOMAIN keys[t] : p < index + 1}
    BY <1>1, <1>2, <2>1 DEF Done
  <2>3. DOMAIN keys[t] \subseteq Nat
    BY DEF TypeOK
  <2> QED
    BY <1>1, <1>2, <2>2, <2>3
<1>3. CASE Table # t
  BY <1>1, <1>3, DoneSame
<1> QED
  BY <1>2, <1>3

LEMMA ExportStep ==
  ASSUME IInv, TypeOK', [Next]_vars
  PROVE  ExportInv'
<1> USE DEF IInv
<1> SUFFICES ASSUME NEW t \in Walked PROVE ExportOf(t)'
  BY DEF ExportInv
<1>1. ExportOf(t) /\ t \in Tables /\ Done(t) \subseteq DOMAIN keys[t] /\ DOMAIN keys[t] \subseteq Nat
  BY DoneFacts, TableFacts DEF ExportInv, TypeOK
<1>2. ASSUME UNCHANGED <<collector, step, keys, index, detail, db, changed, truncated>>,
             out'[t] = out[t]
      PROVE  ExportOf(t)'
  BY <1>1, <1>2, DoneSame, ExportSame
<1>3. CASE ScanKeys \/ ListKeys
  <2>1. /\ step <= Len(Program[collector]) /\ Op \in {"scan", "list"}
        /\ \A u \in Walked : u # Table => keys'[u] = keys[u]
        /\ NextStep
        /\ UNCHANGED <<db, collector, detail, out, truncated, changed>>
    BY <1>3, ListedKeys
  <2>2. detail = 0
    BY <2>1 DEF PositionInv, AtWalk, TypeOK
  <2>3. Done(t)' = Done(t) /\ (Done(t) # {} => keys'[t] = keys[t])
    BY <2>1, <2>2, DoneNext
  <2> QED
    BY <1>1, <2>1, <2>3, ExportSame
<1>4. CASE Pass \/ CutOne \/ Skip \/ FindGone
  <2>1. /\ step <= Len(Program[collector]) /\ Op = "walk"
        /\ detail = 0 /\ index' = index + 1 /\ index \in Nat
        /\ UNCHANGED <<db, collector, step, keys, detail, out, changed>>
        /\ truncated' = 0 => truncated = 0 /\ ~IsEntry(Table, Key)
    BY <1>4, PassOverEffect DEF TypeOK
  <2>2. /\ Done(t) \subseteq Done(t)'
        /\ \A p \in Done(t)' : p \in Done(t) \/ (Table = t /\ p = index)
    BY <1>4, DoneGrows
  <2> QED
    BY <1>1, <2>1, <2>2, ExportSame DEF Key
<1>5. CASE CutRest \/ EndOfKeys
  <2>1. /\ step <= Len(Program[collector]) /\ Op = "walk" /\ detail = 0 /\ NextStep
        /\ UNCHANGED <<db, collector, keys, detail, out, changed>>
        /\ truncated' = 0 => truncated = 0 /\ index > Len(keys[Table])
    BY <1>5, WalkEndsEffect
  <2>2. CASE Table = t
    <3>1. AtWalk
      BY <2>1 DEF AtWalk
    <3>2. /\ Done(t) = {p \in DOMAIN keys[t] : p < index}
          /\ Done(t)' = DOMAIN keys[t]
      <4>1. Done(t)' = DOMAIN keys[t]
        BY <2>1, <2>2, DoneNext
      <4>2. Done(t) = {p \in DOMAIN keys[t] : p < index}
        BY <2>1, <2>2, <3>1 DEF Done
      <4> QED
        BY <4>1, <4>2
    <3>3. truncated' = 0 => \A p \in DOMAIN keys[t] : p \in Done(t)
      BY <2>1, <2>2, <3>2 DEF TypeOK
    <3> QED
      BY <1>1, <2>1, <3>2, <3>3, ExportSame
  <2>3. CASE Table # t
    BY <1>1, <2>1, <2>3, DoneNext, ExportSame
  <2> QED
    BY <2>2, <2>3
<1>6. CASE Export
  <2>1. CASE Table = t
    <3>1. Table' = t
      BY <1>6, <2>1, ExportEffect DEF Table
    <3> QED
      BY <1>1, <1>6, <2>1, <3>1, ExportHere DEF ExportOf
  <2>2. CASE Table # t
    <3>1. out'[t] = out[t]
      BY <1>1, <1>6, <2>2, ExportEffect DEF ShapeInv
    <3> QED
      BY <1>1, <1>6, <2>2, <3>1, ExportEffect, DoneSame, ExportSame
  <2> QED
    BY <2>1, <2>2
<1>7. CASE ReadDetail
  <2>1. /\ step <= Len(Program[collector]) /\ Op = "walk" /\ DetailAtHand \in AllDetails
        /\ index <= Len(keys[Table]) /\ detail > 0
        /\ \/ detail' = detail + 1 /\ index' = index
           \/ detail' = 0 /\ index' = index + 1
        /\ UNCHANGED <<db, collector, step, keys, truncated, changed>>
    BY <1>7, ReadDetailEffect DEF ReadDetail
  <2>2. out'[t] = out[t]
    BY <1>1, <1>7, <2>1, ReadDetailEffect, TableFacts DEF ShapeInv
  <2>3. Done(t)' = Done(t)
    BY <1>7, DoneRead
  <2> QED
    BY <1>1, <2>1, <2>2, <2>3, ExportSame
<1>8. CASE ReadHash
  <2>1. /\ step <= Len(Program[collector]) /\ Op = "read" /\ Table \in Hashes /\ NextStep
        /\ \E r \in Seq(Rows2) : out' = [out EXCEPT ![Table] = r]
        /\ UNCHANGED <<db, collector, keys, detail, truncated, changed>>
    BY <1>8, ReadHashEffect
  <2>2. detail = 0
    BY <2>1 DEF PositionInv, AtWalk, TypeOK
  <2>3. out'[t] = out[t]
    BY <1>1, <2>1, HashType, TableFacts
  <2> QED
    BY <1>1, <2>1, <2>2, <2>3, DoneNext, ExportSame
<1>9. CASE FailInCollect
  <2>1. out'[t] = out[t]
    BY <1>1, <1>9, FailInCollectEffect, HashType, TableFacts
  <2> QED
    BY <1>2, <1>9, <2>1, FailInCollectEffect
<1>10. CASE Finish
  BY <1>2, <1>10, FinishEffect
<1>11. CASE Fail \/ Return
  <2>1. keys'[t] = <<>> /\ out'[t] = <<>>
    BY <1>1, <1>11, ClearEffect
  <2>2. Done(t)' = {}
    BY <2>1, EmptyTypes DEF Done
  <2> QED
    BY <2>1, <2>2, EmptyTypes DEF ExportOf, OncePerKey
<1>12. CASE \E u \in Mine, j \in Keys : Change(u, j)
  <2>1. PICK u \in Mine, j \in Keys : Change(u, j)
    BY <1>12
  <2>2. /\ changed' = changed \cup {<<u, j>>}
        /\ \A v \in Tables : \A k \in Keys : <<v, k>> # <<u, j>> => db'[v][k] = db[v][k]
        /\ UNCHANGED <<collector, step, keys, index, detail, out, truncated>>
    BY <2>1, ChangeEffect
  <2>3. Done(t)' = Done(t)
    BY <2>2, DoneSame
  <2>4. ASSUME NEW k \in Keys, IsStable(t, k)'
        PROVE  /\ IsStable(t, k) /\ db'[t][k] = db[t][k]
               /\ IsEntry(t, k)' = IsEntry(t, k)
    <3>1. IsStable(t, k) /\ <<t, k>> # <<u, j>> /\ <<Source(t), k>> # <<u, j>>
      BY <2>2, <2>4 DEF IsStable
    <3>2. db'[t][k] = db[t][k] /\ db'[Source(t)][k] = db[Source(t)][k]
      BY <1>1, <2>2, <3>1, TableFacts
    <3> QED
      BY <3>1, <3>2 DEF IsEntry
  <2>5. (\A p \in DOMAIN keys[t] : keys[t][p] \in Keys) /\ \A i \in DOMAIN out[t] : out[t][i][1] \in Keys
    BY <1>1 DEF TypeOK
  <2>6. ASSUME truncated = 0, NEW p \in Done(t), IsEntry(t, keys[t][p])', IsStable(t, keys[t][p])'
        PROVE  \E i \in DOMAIN out[t] : out[t][i][1] = keys[t][p]
    BY <1>1, <2>2, <2>4, <2>5, <2>6 DEF ExportOf
  <2>7. \A i \in DOMAIN out[t] :
          IsStable(t, out[t][i][1])' => out[t][i][2] = Label(t, db'[t][out[t][i][1]])
    BY <1>1, <2>2, <2>4, <2>5 DEF ExportOf
  <2> QED
    BY <1>1, <2>2, <2>3, <2>6, <2>7 DEF ExportOf, Injective, OncePerKey
<1>13. CASE UNCHANGED vars
  BY <1>2, <1>13 DEF vars, outside, walk, result, history
<1> QED
  BY <1>3, <1>4, <1>5, <1>6, <1>7, <1>8, <1>9, <1>10, <1>11, <1>12, <1>13 DEF Next

-----------------------------------------------------------------------------
(* The hashes of a row.                                                    *)

LEMMA DetailSame ==
  ASSUME NEW t \in Walked, NEW n \in DOMAIN DetailsOf(t), DetailOf(t, n),
         out'[t] = out[t], out'[DetailsOf(t)[n]] = out[DetailsOf(t)[n]], UNCHANGED <<db, changed>>,
         Done(t) \subseteq Done(t)', Done(t) # {} => keys'[t] = keys[t],
         Ahead(t, n)' <=> Ahead(t, n), Ahead(t, n) => index' = index
  PROVE  DetailOf(t, n)'
<1> DEFINE d == DetailsOf(t)[n]
<1>1. \A j \in DOMAIN out[d] :
        \E p \in Done(t)' : keys'[t][p] = out[d][j][1] /\ (Ahead(t, n)' => p < index')
  BY DEF DetailOf, DetailLooked
<1>2. Injective(keys'[t]) => OncePerKey(out[d])
  <2>1. CASE Done(t) = {}
    BY <2>1 DEF DetailOf, DetailLooked, OncePerKey
  <2>2. CASE keys'[t] = keys[t]
    BY <2>2 DEF DetailOf, DetailOnce
  <2> QED
    BY <2>1, <2>2
<1>3. DetailLooked(t, n)'
  BY <1>1 DEF DetailLooked
<1>4. DetailOnce(t, n)'
  BY <1>2 DEF DetailOnce, OncePerKey, Injective
<1>5. \A k : IsKept(d, k)' = IsKept(d, k)
  BY DEF IsKept
<1>6. DetailThere(t, n)'
  BY <1>5 DEF DetailOf, DetailThere
<1> QED
  BY <1>3, <1>4, <1>6 DEF DetailOf

LEMMA AheadFacts ==
  ASSUME NEW t, NEW n
  PROVE  /\ detail = 0 => ~Ahead(t, n)
         /\ detail' = 0 => ~Ahead(t, n)'
         /\ ~(AtWalk /\ Table = t) => ~Ahead(t, n)
         /\ UNCHANGED <<collector, step>> /\ ~(AtWalk /\ Table = t) => ~Ahead(t, n)'
         /\ UNCHANGED <<collector, step, detail>> => Ahead(t, n)' = Ahead(t, n)
BY DEF Ahead, AtWalk, Op, Table

\* A row is exported: its hashes are still to be read.
LEMMA DetailExport ==
  ASSUME TypeOK, ShapeInv, Export, NEW t \in Walked, t = Table,
         NEW n \in DOMAIN DetailsOf(t), DetailOf(t, n)
  PROVE  DetailOf(t, n)'
<1> DEFINE T == t
           d == DetailsOf(T)[n]
           L == Len(out[T])
           r == <<Key, Label(T, db[T][Key])>>
<1>1. /\ step <= Len(Program[collector]) /\ Op = "walk"
      /\ T \in Walked /\ T \in Tables
      /\ detail = 0 /\ index <= Len(keys[T])
      /\ out' = [out EXCEPT ![T] = Append(@, r)] /\ r \in Rows2
      /\ UNCHANGED <<db, collector, step, keys, truncated, changed>>
  BY ExportEffect, TableFacts
<1>2. detail' = 1 /\ index' = index
  <2>1. DetailsOf(T) # <<>>
    BY EmptyTypes
  <2> QED
    BY <2>1, ExportEffect
<1>3. AtWalk /\ AtWalk' /\ Table' = T
  BY <1>1 DEF AtWalk, Op, Table
<1>4. d \in AllDetails /\ d \in Tables /\ d # T /\ n \in Nat /\ n >= 1
  BY <1>1, DetailsOfFacts, TableFacts
<1>5. Ahead(T, n)' /\ ~Ahead(T, n)
  BY <1>1, <1>2, <1>3, <1>4 DEF Ahead
<1>6. Done(T) = {p \in DOMAIN keys[T] : p < index}
  BY <1>1, <1>3 DEF Done
<1>7. Done(T)' = {p \in DOMAIN keys[T] : p < index \/ p = index}
  BY <1>1, <1>2, <1>3 DEF Done
<1>8. out'[d] = out[d]
  BY <1>1, <1>4 DEF ShapeInv
<1>9. \A j \in DOMAIN out[d] : \E p \in Done(T)' : keys[T][p] = out[d][j][1] /\ p < index
  BY <1>6, <1>7 DEF DetailOf, DetailLooked
<1>10. /\ L \in Nat /\ DOMAIN out[T] = 1 .. L /\ DOMAIN out'[T] = 1 .. L + 1 /\ Len(out'[T]) = L + 1
       /\ \A i \in DOMAIN out[T] : out'[T][i] = out[T][i]
  BY <1>1, AppendType
<1>11. ASSUME NEW i \in DOMAIN out'[T], i < Len(out'[T])
       PROVE  i \in DOMAIN out[T] /\ out'[T][i] = out[T][i]
  BY <1>10, <1>11
<1>12. DetailLooked(T, n)'
  BY <1>1, <1>2, <1>3, <1>8, <1>9 DEF DetailLooked
<1>13. UNCHANGED <<db, keys>>
  BY <1>1
<1>14. DetailOnce(T, n)'
  BY <1>8, <1>13 DEF DetailOf, DetailOnce
<1>15. changed' = changed
  BY <1>1
<1>16. ASSUME NEW i \in DOMAIN out'[T], i < Len(out'[T]), IsKept(d, out'[T][i][1])
       PROVE  \E j \in DOMAIN out[d] : out[d][j] = <<out'[T][i][1], db[d][out'[T][i][1]]>>
  <2>1. i \in DOMAIN out[T] /\ IsKept(d, out[T][i][1]) /\ out'[T][i] = out[T][i]
    BY <1>11, <1>16
  <2>2. \E j \in DOMAIN out[d] : out[d][j] = <<out[T][i][1], db[d][out[T][i][1]]>>
    BY <1>5, <2>1 DEF DetailOf, DetailThere
  <2> QED
    BY <2>1, <2>2
<1>17. DetailThere(T, n)'
  <2>1. SUFFICES ASSUME NEW i \in DOMAIN out'[T], i < Len(out'[T]),
                        db'[d][out'[T][i][1]] \in Values, <<d, out'[T][i][1]>> \notin changed',
                        db'[JoinedTo[d]][out'[T][i][1]] # Absent,
                        <<JoinedTo[d], out'[T][i][1]>> \notin changed'
                 PROVE  \E j \in DOMAIN out'[d] : out'[d][j] = <<out'[T][i][1], db'[d][out'[T][i][1]]>>
    BY <1>5 DEF DetailThere, IsKept
  <2>2. IsKept(d, out'[T][i][1])
    BY <1>13, <1>15, <2>1 DEF IsKept
  <2>3. PICK j \in DOMAIN out[d] : out[d][j] = <<out'[T][i][1], db[d][out'[T][i][1]]>>
    BY <1>16, <2>1, <2>2
  <2> QED
    BY <1>8, <1>13, <2>3
<1> QED
  BY <1>12, <1>14, <1>17 DEF DetailOf

\* A hash of the row at hand is read.
LEMMA DetailRead ==
  ASSUME TypeOK, ShapeInv, PositionInv, FlagsInv, TypeOK', ReadDetail,
         NEW t \in Walked, t = Table, NEW n \in DOMAIN DetailsOf(t), n = detail, DetailOf(t, n)
  PROVE  DetailOf(t, n)'
<1> DEFINE T == t
           d == DetailsOf(T)[n]
           x == db[d][Key]
           joined == IF JoinedTo[d] = d THEN x ELSE flags[JoinedTo[d]]
           r == <<Key, x>>
           L == Len(out[d])
<1>1. /\ step <= Len(Program[collector]) /\ Op = "walk"
      /\ T \in Walked /\ T \in Tables /\ index <= Len(keys[T]) /\ Key \in Keys
      /\ detail \in DOMAIN DetailsOf(T) /\ d \in AllDetails /\ d \in Tables /\ d # T
      /\ x \in Contents
      /\ out' = IF x \in Values /\ joined # Absent
                THEN [out EXCEPT ![d] = Append(@, r)] ELSE out
      /\ UNCHANGED <<db, collector, step, keys, truncated, changed>>
  BY ReadDetailEffect, TableFacts DEF DetailAtHand
<1>2. /\ detail > 0 /\ detail \in Nat /\ index \in Nat
      /\ \/ detail' = detail + 1 /\ index' = index
         \/ detail' = 0 /\ index' = index + 1
  <2>1. detail \in Nat /\ index \in Nat
    BY <1>1, DetailsOfFacts DEF TypeOK
  <2> QED
    BY <2>1, ReadDetailEffect DEF ReadDetail
<1>3. AtWalk /\ AtWalk' /\ Table' = T
  BY <1>1 DEF AtWalk, Op, Table
<1>4. Ahead(T, n)
  BY <1>2, <1>3 DEF Ahead
<1>5. ~Ahead(T, n)'
  BY <1>2 DEF Ahead
<1>6. index \in DOMAIN keys[T] /\ DOMAIN keys[T] \subseteq Nat /\ keys[T][index] = Key
  BY <1>1, <1>2 DEF TypeOK, Key
<1>7. index \in Done(T)' /\ Done(T) \subseteq Done(T)'
  <2>1. Done(T)' = {p \in DOMAIN keys[T] : p < index' \/ (p = index' /\ detail' > 0)}
    BY <1>1, <1>3 DEF Done
  <2>2. Done(T) = {p \in DOMAIN keys[T] : p < index \/ p = index}
    BY <1>2, <1>3 DEF Done
  <2>3. \A p \in DOMAIN keys[T] : p < index' \/ (p = index' /\ detail' > 0) <=> p < index \/ p = index
    BY <1>2, <1>6
  <2> QED
    BY <1>6, <2>1, <2>2, <2>3
<1>8. out'[T] = out[T]
  BY <1>1 DEF ShapeInv
<1>9. ASSUME NEW j \in DOMAIN out[d]
      PROVE  \E p \in Done(T) : keys[T][p] = out[d][j][1] /\ p < index
  BY <1>4 DEF DetailOf, DetailLooked
<1>10. ASSUME NEW i \in DOMAIN out[T], i = Len(out[T]) PROVE out[T][i][1] = Key
  BY <1>2, <1>10 DEF PositionInv
<1>11. ASSUME db[JoinedTo[d]][Key] # Absent, <<JoinedTo[d], Key>> \notin changed, x \in Values
       PROVE  joined # Absent
  <2>1. CASE JoinedTo[d] = d
    BY <1>11, <2>1
  <2>2. CASE JoinedTo[d] # d
    <3>1. PICK m \in 1 .. detail : JoinedTo[d] = DetailsOf(T)[m]
      BY <1>1, DetailsOfFacts
    <3>2. m \in 1 .. detail - 1
      BY <1>2, <2>2, <3>1
    <3>3. flags[JoinedTo[d]] = db[JoinedTo[d]][Key]
      BY <1>2, <1>11, <3>1, <3>2 DEF FlagsInv
    <3> QED
      BY <1>11, <2>2, <3>3
  <2> QED
    BY <2>1, <2>2
<1>16. UNCHANGED <<db, keys>> /\ Len(out[T]) \in Nat /\ DOMAIN out[T] = 1 .. Len(out[T])
  BY <1>1 DEF TypeOK
<1>12. \A k : IsKept(d, k)' = IsKept(d, k)
  BY <1>1, <1>3 DEF IsKept
<1>13. ASSUME x \in Values, joined # Absent
       PROVE  DetailOf(T, n)'
  <2>1. /\ r \in Rows2 /\ out' = [out EXCEPT ![d] = Append(@, r)]
    BY <1>1, <1>13 DEF Rows2
  <2>2. /\ L \in Nat /\ DOMAIN out[d] = 1 .. L /\ DOMAIN out'[d] = 1 .. L + 1
        /\ \A i \in DOMAIN out[d] : out'[d][i] = out[d][i]
        /\ out'[d][L + 1] = r
    <3>1. d \in Tables
      BY <1>1
    <3> HIDE DEF d, r
    <3> QED
      BY <2>1, <3>1, AppendType
  <2>3. ASSUME NEW j \in DOMAIN out'[d] PROVE j \in DOMAIN out[d] \/ j = L + 1
    BY <2>2
  <2>4. ASSUME NEW j \in DOMAIN out'[d] PROVE \E p \in Done(T)' : keys[T][p] = out'[d][j][1]
    <3>1. CASE j \in DOMAIN out[d]
      BY <1>7, <1>9, <2>2, <3>1
    <3>2. CASE j = L + 1
      BY <1>6, <1>7, <2>2, <3>2
    <3> QED
      BY <2>3, <3>1, <3>2
  <2>5. ASSUME Injective(keys[T]) PROVE OncePerKey(out'[d])
    <3>1. ASSUME NEW j \in DOMAIN out[d] PROVE out'[d][j][1] # Key
      <4>1. PICK p \in Done(T) : keys[T][p] = out[d][j][1] /\ p < index
        BY <1>9
      <4>2. p \in DOMAIN keys[T] /\ p # index
        BY <1>2, <1>3, <4>1, <1>6 DEF Done
      <4> QED
        BY <1>6, <2>2, <2>5, <4>1, <4>2 DEF Injective
    <3>2. ASSUME NEW i \in DOMAIN out'[d], NEW j \in DOMAIN out'[d], out'[d][i][1] = out'[d][j][1]
          PROVE  i = j
      <4>1. CASE i \in DOMAIN out[d] /\ j \in DOMAIN out[d]
        BY <2>2, <2>5, <3>2, <4>1 DEF DetailOf, DetailOnce, OncePerKey
      <4>2. CASE i = L + 1 \/ j = L + 1
        BY <2>2, <2>3, <3>1, <3>2, <4>2
      <4> QED
        BY <2>3, <4>1, <4>2
    <3> QED
      BY <3>2 DEF OncePerKey
  <2>6. ASSUME NEW i \in DOMAIN out[T], IsKept(d, out[T][i][1])
        PROVE  \E j \in DOMAIN out'[d] : out'[d][j] = <<out[T][i][1], db[d][out[T][i][1]]>>
    <3>1. CASE i < Len(out[T])
      <4>1. PICK j \in DOMAIN out[d] : out[d][j] = <<out[T][i][1], db[d][out[T][i][1]]>>
        BY <2>6, <3>1 DEF DetailOf, DetailThere
      <4> QED
        BY <2>2, <4>1
    <3>2. CASE i = Len(out[T])
      <4>1. out[T][i][1] = Key /\ L + 1 \in DOMAIN out'[d]
        BY <1>10, <2>2, <3>2
      <4> QED
        BY <2>2, <4>1
    <3>3. i < Len(out[T]) \/ i = Len(out[T])
      BY <1>16
    <3> QED
      BY <3>1, <3>2, <3>3
  <2>7. DetailLooked(T, n)'
    BY <1>1, <1>3, <1>5, <1>13, <2>4 DEF DetailLooked
  <2>8. DetailOnce(T, n)'
    BY <1>16, <2>5 DEF DetailOnce, OncePerKey, Injective
  <2>9. DetailThere(T, n)'
    BY <1>8, <1>12, <1>16, <2>6 DEF DetailThere
  <2> QED
    BY <1>3, <2>7, <2>8, <2>9 DEF DetailOf
<1>14. ASSUME ~(x \in Values /\ joined # Absent)
       PROVE  DetailOf(T, n)'
  <2>1. out' = out
    BY <1>1, <1>14
  <2>2. \A j \in DOMAIN out[d] : \E p \in Done(T)' : keys[T][p] = out[d][j][1]
    BY <1>7, <1>9
  <2>3. ASSUME NEW i \in DOMAIN out[T], IsKept(d, out[T][i][1])
        PROVE  \E j \in DOMAIN out[d] : out[d][j] = <<out[T][i][1], db[d][out[T][i][1]]>>
    <3>1. i # Len(out[T])
      BY <1>10, <1>11, <1>14, <2>3 DEF IsKept
    <3>2. i < Len(out[T])
      BY <1>16, <3>1
    <3> QED
      BY <2>3, <3>2 DEF DetailOf, DetailThere
  <2>4. DetailLooked(T, n)'
    BY <1>1, <1>3, <1>5, <1>14, <2>1, <2>2 DEF DetailLooked
  <2>5. DetailOnce(T, n)'
    BY <1>16, <2>1 DEF DetailOf, DetailOnce, OncePerKey, Injective
  <2>6. DetailThere(T, n)'
    BY <1>12, <1>16, <2>1, <2>3 DEF DetailThere
  <2> QED
    BY <1>3, <2>4, <2>5, <2>6 DEF DetailOf
<1> QED
  BY <1>13, <1>14

LEMMA DetailStep ==
  ASSUME IInv, TypeOK', [Next]_vars
  PROVE  DetailInv'
<1> USE DEF IInv
<1> SUFFICES ASSUME NEW t \in Walked, NEW n \in DOMAIN DetailsOf(t) PROVE DetailOf(t, n)'
  BY DEF DetailInv
<1> DEFINE d == DetailsOf(t)[n]
<1>1. /\ DetailOf(t, n) /\ t \in Tables /\ d \in Tables /\ d \in AllDetails
      /\ DOMAIN keys[t] \subseteq Nat /\ n \in Nat /\ n > 0
  BY TableFacts, DetailsOfFacts DEF DetailInv, TypeOK
<1>2. ASSUME UNCHANGED <<db, changed, out>>, detail = 0, detail' = 0,
             Done(t) \subseteq Done(t)', Done(t) # {} => keys'[t] = keys[t]
      PROVE  DetailOf(t, n)'
  BY <1>1, <1>2, AheadFacts, DetailSame
<1>3. ASSUME UNCHANGED <<collector, step, keys, index, detail, db, changed>>,
             out'[t] = out[t], out'[d] = out[d]
      PROVE  DetailOf(t, n)'
  BY <1>1, <1>3, DoneSame, AheadFacts, DetailSame
<1>4. ASSUME UNCHANGED <<collector, step, keys, db, changed>>, ~(AtWalk /\ Table = t),
             out'[t] = out[t], out'[d] = out[d]
      PROVE  DetailOf(t, n)'
  BY <1>1, <1>4, DoneSame, AheadFacts, DetailSame
<1>5. CASE ScanKeys \/ ListKeys
  <2>1. /\ step <= Len(Program[collector]) /\ Op \in {"scan", "list"}
        /\ \A u \in Walked : u # Table => keys'[u] = keys[u]
        /\ NextStep
        /\ UNCHANGED <<db, collector, detail, out, changed>>
    BY <1>5, ListedKeys
  <2>2. detail = 0
    BY <2>1 DEF PositionInv, AtWalk, TypeOK
  <2>3. Done(t)' = Done(t) /\ (Done(t) # {} => keys'[t] = keys[t])
    BY <2>1, <2>2, DoneNext
  <2> QED
    BY <1>2, <2>1, <2>2, <2>3
<1>6. CASE Pass \/ CutOne \/ Skip \/ FindGone
  <2>1. /\ detail = 0 /\ index' = index + 1
        /\ UNCHANGED <<db, collector, step, keys, detail, out, changed>>
    BY <1>6, PassOverEffect
  <2>2. Done(t) \subseteq Done(t)'
    BY <1>6, DoneGrows
  <2> QED
    BY <1>2, <2>1, <2>2
<1>7. CASE CutRest \/ EndOfKeys
  <2>1. /\ step <= Len(Program[collector]) /\ Op = "walk" /\ detail = 0 /\ NextStep
        /\ UNCHANGED <<db, collector, keys, detail, out, changed>>
    BY <1>7, WalkEndsEffect
  <2>2. Done(t) \subseteq Done(t)'
    BY <2>1, DoneNext, DoneFacts
  <2> QED
    BY <1>2, <2>1, <2>2
<1>8. CASE Export
  <2>1. CASE Table = t
    BY <1>1, <1>8, <2>1, DetailExport
  <2>2. CASE Table # t
    <3>1. /\ Table \in Walked /\ Table # d
          /\ out' = [out EXCEPT ![Table] = Append(@, <<Key, Label(Table, db[Table][Key])>>)]
      BY <1>1, <1>8, ExportEffect, TableFacts
    <3>2. out'[t] = out[t] /\ out'[d] = out[d]
      BY <1>1, <2>2, <3>1 DEF ShapeInv
    <3> QED
      BY <1>4, <1>8, <2>2, <3>2, ExportEffect
  <2> QED
    BY <2>1, <2>2
<1>9. CASE ReadDetail
  <2>1. /\ step <= Len(Program[collector]) /\ Op = "walk" /\ Table \in Walked
        /\ detail \in DOMAIN DetailsOf(Table)
        /\ DetailAtHand \in AllDetails /\ DetailAtHand \in Tables
        /\ \/ detail' = detail + 1 /\ index' = index
           \/ detail = Len(DetailsOf(Table)) /\ detail' = 0 /\ index' = index + 1
        /\ UNCHANGED <<db, collector, step, keys, changed>>
        /\ \A u \in Tables : u # DetailAtHand => out'[u] = out[u]
    BY <1>9, ReadDetailEffect, TableFacts DEF ShapeInv
  <2>2. out'[t] = out[t]
    BY <1>1, <2>1, TableFacts
  <2>3. CASE Table = t /\ detail = n
    BY <1>1, <1>9, <2>3, DetailRead
  <2>4. CASE Table = t /\ detail # n
    <3>1. out'[d] = out[d]
      <4>1. d # DetailAtHand
        BY <1>1, <2>1, <2>4, DetailsOfFacts DEF DetailAtHand
      <4> QED
        BY <1>1, <2>1, <4>1
    <3>2. Done(t)' = Done(t)
      BY <1>9, DoneRead
    <3>3. /\ detail \in Nat /\ detail > 0 /\ n <= Len(DetailsOf(t))
          /\ Len(DetailsOf(t)) \in Nat
      BY <1>1, <2>1, <2>4, DetailsOfFacts
    <3>4. AtWalk /\ AtWalk' /\ Table' = t
      BY <2>1, <2>4 DEF AtWalk, Op, Table
    <3>5. Ahead(t, n)' <=> Ahead(t, n)
      BY <1>1, <2>1, <2>4, <3>3, <3>4 DEF Ahead
    <3>6. Ahead(t, n) => index' = index
      BY <1>1, <2>1, <2>4, <3>3 DEF Ahead
    <3> QED
      BY <1>1, <2>1, <2>2, <3>1, <3>2, <3>5, <3>6, DetailSame
  <2>5. CASE Table # t
    <3>1. d # DetailAtHand
      BY <2>1, <2>5, DetailsOfFacts DEF DetailAtHand
    <3> QED
      BY <1>1, <1>4, <2>1, <2>2, <2>5, <3>1
  <2> QED
    BY <2>3, <2>4, <2>5
<1>10. ASSUME Table \in Hashes, \E r \in Seq(Rows2) : out' = [out EXCEPT ![Table] = r]
       PROVE  out'[t] = out[t] /\ out'[d] = out[d]
  BY <1>1, <1>10, HashType, TableFacts
<1>11. CASE ReadHash
  <2>1. /\ step <= Len(Program[collector]) /\ Op = "read" /\ NextStep
        /\ UNCHANGED <<db, collector, keys, detail, changed>>
        /\ out'[t] = out[t] /\ out'[d] = out[d]
    BY <1>10, <1>11, ReadHashEffect
  <2>2. detail = 0
    BY <2>1 DEF PositionInv, AtWalk, TypeOK
  <2> QED
    BY <1>1, <2>1, <2>2, AheadFacts, DoneNext, DetailSame
<1>12. CASE FailInCollect
  <2>1. out'[t] = out[t] /\ out'[d] = out[d]
    BY <1>10, <1>12, FailInCollectEffect
  <2> QED
    BY <1>3, <1>12, <2>1, FailInCollectEffect
<1>13. CASE Finish
  BY <1>3, <1>13, FinishEffect
<1>14. CASE Fail \/ Return
  <2>1. out'[t] = <<>> /\ out'[d] = <<>>
    BY <1>1, <1>14, ClearEffect
  <2> QED
    BY <2>1, EmptyTypes DEF DetailOf, DetailLooked, DetailOnce, DetailThere, OncePerKey
<1>15. CASE \E u \in Mine, j \in Keys : Change(u, j)
  <2>1. PICK u \in Mine, j \in Keys : Change(u, j)
    BY <1>15
  <2>2. /\ changed' = changed \cup {<<u, j>>}
        /\ \A v \in Tables : \A k \in Keys : <<v, k>> # <<u, j>> => db'[v][k] = db[v][k]
        /\ UNCHANGED <<collector, step, keys, index, detail, out>>
    BY <2>1, ChangeEffect
  <2>3. Done(t)' = Done(t) /\ Ahead(t, n)' = Ahead(t, n)
    BY <2>2, DoneSame, AheadFacts
  <2>4. DetailLooked(t, n)' /\ DetailOnce(t, n)'
    BY <1>1, <2>2, <2>3 DEF DetailOf, DetailLooked, DetailOnce, OncePerKey, Injective
  <2>5. \A i \in DOMAIN out[t] : out[t][i][1] \in Keys
    BY <1>1 DEF TypeOK
  <2>6. JoinedTo[d] \in Tables
    BY DetailsOfFacts, TableFacts
  <2>7. ASSUME NEW i \in DOMAIN out[t], Ahead(t, n) => i < Len(out[t]),
               db'[d][out[t][i][1]] \in Values, <<d, out[t][i][1]>> \notin changed',
               db'[JoinedTo[d]][out[t][i][1]] # Absent, <<JoinedTo[d], out[t][i][1]>> \notin changed'
        PROVE  \E k \in DOMAIN out[d] : out[d][k] = <<out[t][i][1], db'[d][out[t][i][1]]>>
    <3>1. /\ db'[d][out[t][i][1]] = db[d][out[t][i][1]]
          /\ db'[JoinedTo[d]][out[t][i][1]] = db[JoinedTo[d]][out[t][i][1]]
      BY <1>1, <2>2, <2>5, <2>6, <2>7
    <3>2. IsKept(d, out[t][i][1])
      BY <2>2, <2>7, <3>1 DEF IsKept
    <3>3. \E k \in DOMAIN out[d] : out[d][k] = <<out[t][i][1], db[d][out[t][i][1]]>>
      BY <1>1, <2>7, <3>2 DEF DetailOf, DetailThere
    <3> QED
      BY <3>1, <3>3
  <2>8. DetailThere(t, n)'
    BY <2>2, <2>3, <2>7 DEF DetailThere, IsKept
  <2> QED
    BY <2>4, <2>8 DEF DetailOf
<1>16. CASE UNCHANGED vars
  BY <1>3, <1>16 DEF vars, outside, walk, result, history
<1> QED
  BY <1>5, <1>6, <1>7, <1>8, <1>9, <1>11, <1>12, <1>13, <1>14, <1>15, <1>16 DEF Next

LEMMA FlagsStep ==
  ASSUME IInv, TypeOK', [Next]_vars
  PROVE  FlagsInv'
<1> USE DEF IInv
<1>1. ASSUME ~(detail' > 0) PROVE FlagsInv'
  BY <1>1 DEF FlagsInv
<1>2. ASSUME UNCHANGED <<collector, step, keys, index, detail, flags, db, changed>>
      PROVE  FlagsInv'
  <2>1. Table' = Table /\ Key' = Key
    BY <1>2 DEF Table, Key
  <2> QED
    BY <1>2, <2>1 DEF FlagsInv
<1>3. ASSUME step <= Len(Program[collector]), Op # "walk", detail' = detail PROVE FlagsInv'
  BY <1>1, <1>3 DEF PositionInv, AtWalk
<1>4. CASE ScanKeys \/ ListKeys
  <2>1. step <= Len(Program[collector]) /\ Op \in {"scan", "list"} /\ detail' = detail
    BY <1>4, ListedKeys
  <2> QED
    BY <1>3, <2>1
<1>5. CASE Pass \/ CutOne \/ Skip \/ FindGone
  BY <1>1, <1>5, PassOverEffect
<1>6. CASE CutRest \/ EndOfKeys
  BY <1>1, <1>6, WalkEndsEffect
<1>7. CASE Export
  <2>1. detail' = 0 \/ detail' = 1
    BY <1>7, ExportEffect
  <2> QED
    BY <1>1, <2>1 DEF FlagsInv
<1>8. CASE ReadDetail
  <2>1. /\ Table \in Walked /\ detail \in DOMAIN DetailsOf(Table)
        /\ DetailAtHand \in AllDetails /\ detail > 0
        /\ UNCHANGED <<db, collector, step, keys, changed>>
        /\ \/ /\ detail' = detail + 1 /\ index' = index
              /\ flags' = [flags EXCEPT ![DetailAtHand] = db[DetailAtHand][Key]]
           \/ detail' = 0
    BY <1>8, ReadDetailEffect DEF ReadDetail
  <2>2. CASE detail' = 0
    BY <1>1, <2>2
  <2>3. CASE /\ detail' = detail + 1 /\ index' = index
             /\ flags' = [flags EXCEPT ![DetailAtHand] = db[DetailAtHand][Key]]
    <3>1. Table' = Table /\ Key' = Key
      BY <2>1, <2>3 DEF Table, Key
    <3>2. detail \in Nat /\ DOMAIN DetailsOf(Table) = 1 .. Len(DetailsOf(Table))
          /\ Len(DetailsOf(Table)) \in Nat
      BY <2>1, DetailsOfFacts
    <3>3. ASSUME NEW m \in 1 .. detail, <<DetailsOf(Table)[m], Key>> \notin changed
          PROVE  flags'[DetailsOf(Table)[m]] = db[DetailsOf(Table)[m]][Key]
      <4>1. CASE m = detail
        BY <2>1, <2>3, <4>1 DEF DetailAtHand, TypeOK
      <4>2. CASE m # detail
        <5>1. m \in 1 .. detail - 1 /\ m \in DOMAIN DetailsOf(Table)
          BY <2>1, <3>2, <4>2
        <5>2. DetailsOf(Table)[m] # DetailAtHand /\ DetailsOf(Table)[m] \in AllDetails
          BY <2>1, <4>2, <5>1, DetailsOfFacts DEF DetailAtHand
        <5>3. flags[DetailsOf(Table)[m]] = db[DetailsOf(Table)[m]][Key]
          BY <2>1, <3>3, <5>1 DEF FlagsInv
        <5> QED
          BY <2>3, <5>2, <5>3 DEF TypeOK
      <4> QED
        BY <4>1, <4>2
    <3>4. 1 .. detail' - 1 = 1 .. detail
      BY <2>3, <3>2
    <3> QED
      BY <2>1, <3>1, <3>3, <3>4 DEF FlagsInv
  <2> QED
    BY <2>1, <2>2, <2>3
<1>9. CASE ReadHash
  <2>1. step <= Len(Program[collector]) /\ Op = "read" /\ detail' = detail
    BY <1>9, ReadHashEffect
  <2> QED
    BY <1>3, <2>1
<1>10. CASE Finish \/ FailInCollect
  BY <1>2, <1>10, FinishEffect, FailInCollectEffect
<1>11. CASE Fail \/ Return
  <2>1. detail' = 0
    BY <1>11, ClearEffect
  <2> QED
    BY <1>1, <2>1
<1>12. CASE \E t \in Mine, k \in Keys : Change(t, k)
  <2>1. PICK t \in Mine, k \in Keys : Change(t, k)
    BY <1>12
  <2>2. /\ changed' = changed \cup {<<t, k>>}
        /\ \A u \in Tables : \A j \in Keys : <<u, j>> # <<t, k>> => db'[u][j] = db[u][j]
        /\ UNCHANGED <<collector, step, keys, index, detail, flags>>
    BY <2>1, ChangeEffect
  <2>3. Table' = Table /\ Key' = Key
    BY <2>2 DEF Table, Key
  <2>4. SUFFICES ASSUME detail > 0, NEW m \in 1 .. detail - 1,
                        <<DetailsOf(Table)[m], Key>> \notin changed'
                 PROVE  flags[DetailsOf(Table)[m]] = db'[DetailsOf(Table)[m]][Key]
    BY <2>2, <2>3 DEF FlagsInv
  <2>5. /\ Table \in Walked /\ index \in DOMAIN keys[Table]
        /\ detail <= Len(DetailsOf(Table)) /\ detail \in Nat
    <3>1. AtWalk /\ index <= Len(keys[Table]) /\ detail <= Len(DetailsOf(Table))
      BY <2>4 DEF PositionInv
    <3>2. Table \in Walked
      BY <3>1, TableAtHand DEF AtWalk
    <3> QED
      BY <3>1, <3>2, DetailsAssumption DEF TypeOK, Watermarks
  <2>6. Key \in Keys
    BY <2>5 DEF TypeOK, Key
  <2>7. m \in DOMAIN DetailsOf(Table)
    <3>1. DOMAIN DetailsOf(Table) = 1 .. Len(DetailsOf(Table)) /\ Len(DetailsOf(Table)) \in Nat
      BY <2>5, DetailsOfFacts
    <3> QED
      BY <2>4, <2>5, <3>1
  <2>8. DetailsOf(Table)[m] \in Tables
    BY <2>5, <2>7, DetailsOfFacts, TableFacts
  <2>9. db'[DetailsOf(Table)[m]][Key] = db[DetailsOf(Table)[m]][Key]
    BY <2>2, <2>4, <2>6, <2>8
  <2> QED
    BY <2>2, <2>4, <2>9 DEF FlagsInv
<1>13. CASE UNCHANGED vars
  BY <1>2, <1>13 DEF vars, outside, walk, history
<1> QED
  BY <1>4, <1>5, <1>6, <1>7, <1>8, <1>9, <1>10, <1>11, <1>12, <1>13 DEF Next

-----------------------------------------------------------------------------
(* The invariant, and what follows from it.                                *)

LEMMA InitInv == Init => IInv
<1> SUFFICES ASSUME Init PROVE IInv
  OBVIOUS
<1>1. TypeOK /\ ShapeInv
  BY InitTypes
<1>2. /\ step = 1 /\ outcome = "running" /\ window = WindowAt(1)
      /\ keys = [t \in Walked |-> <<>>] /\ index = 1
      /\ detail = 0
      /\ out = [t \in Tables |-> <<>>]
      /\ repeated = FALSE
  BY DEF Init, Fresh
<1>3. \A t \in Walked : keys[t] = <<>> /\ out[t] = <<>> /\ t \in Tables
  BY <1>2, TableFacts
<1>4. \A t \in Tables : out[t] = <<>>
  BY <1>2
<1>5. \A t \in Walked : Done(t) = {}
  BY <1>3, EmptyTypes DEF Done
<1>6. PositionInv
  <2>1. AtWalk => Table \in Walked
    BY <1>1, TableAtHand DEF AtWalk
  <2> QED
    BY <1>2, <1>3, <2>1, EmptyTypes DEF PositionInv
<1>7. WindowInv
  BY <1>1, <1>2, StepFacts DEF WindowInv, WindowAt, Redis!Opened, Op, Table
<1>8. KeysInv
  BY <1>2, <1>3, EmptyTypes DEF KeysInv, Injective
<1>9. ExportInv
  BY <1>3, <1>5, EmptyTypes DEF ExportInv, ExportOf, OncePerKey
<1>10. DetailInv
  <2>1. ASSUME NEW t \in Walked, NEW n \in DOMAIN DetailsOf(t) PROVE DetailOf(t, n)
    <3>1. out[t] = <<>> /\ out[DetailsOf(t)[n]] = <<>>
      BY <1>4, DetailsOfFacts, TableFacts
    <3> QED
      BY <3>1, EmptyTypes DEF DetailOf, DetailLooked, DetailOnce, DetailThere, OncePerKey
  <2> QED
    BY <2>1 DEF DetailInv
<1>11. FlagsInv
  BY <1>2 DEF FlagsInv
<1>12. LaterInv
  <2>1. \A i \in 2 .. Len(Program[collector]) : Program[collector][i].table \in Tables
    BY <1>1, StepFacts, WalkOfTable, TableFacts
  <2> QED
    BY <1>2, <1>4, <2>1, TableFacts, EmptyTypes DEF LaterInv, OncePerKey
<1>13. FailedInv
  BY <1>2 DEF FailedInv
<1> QED
  BY <1>1, <1>6, <1>7, <1>8, <1>9, <1>10, <1>11, <1>12, <1>13 DEF IInv

\* IInv holds in every state.
THEOREM Invariance == Spec => []IInv
<1>1. Init => IInv
  BY InitInv
<1>2. IInv /\ [Next]_vars => IInv'
  <2> SUFFICES ASSUME IInv, [Next]_vars PROVE IInv'
    OBVIOUS
  <2>1. TypeOK' /\ ShapeInv'
    BY TypeStep DEF IInv
  <2> QED
    BY <2>1, PositionStep, WindowStep, KeysStep, ExportStep, DetailStep, FlagsStep, LaterStep,
       FailedStep
    DEF IInv
<1> QED
  BY <1>1, <1>2, PTL DEF Spec

\* Every variable has its type; no table with a limit has more rows than that.
THEOREM TableTypeCorrect == Spec => []TypeOK
<1>1. IInv => TypeOK
  BY DEF IInv
<1> QED
  BY <1>1, Invariance, PTL

LEMMA OneRow ==
  ASSUME NEW t, NEW k, OncePerKey(out[t]) 
  PROVE  /\ IsFiniteSet(Rows(t, k)) /\ Cardinality(Rows(t, k)) \in {0, 1}
         /\ Rows(t, k) # {} => Cardinality(Rows(t, k)) = 1
<1>1. \A i, j \in Rows(t, k) : i = j
  BY DEF Rows, OncePerKey
<1>2. CASE Rows(t, k) = {}
  BY <1>2, FS_EmptySet
<1>3. ASSUME NEW i \in Rows(t, k)
      PROVE  IsFiniteSet(Rows(t, k)) /\ Cardinality(Rows(t, k)) = 1
  <2>1. Rows(t, k) = {i}
    BY <1>1
  <2> QED
    BY <2>1, FS_Singleton
<1> QED
  BY <1>2, <1>3

LEMMA DetailTable ==
  ASSUME NEW d \in AllDetails
  PROVE  \E t \in Walked : \E n \in DOMAIN DetailsOf(t) : d = DetailsOf(t)[n]
<1>1. "status" \in Walked /\ "queue" \in Walked
  BY DEF Walked, Scanned, Listed
<1>2. DetailsOf("status") = Details /\ DetailsOf("queue") = Watermarks
  BY DEF DetailsOf
<1> QED
  BY <1>1, <1>2 DEF AllDetails, ToSet

\* What a failed refresh sends: nothing of a background one, of a scrape-time
\* one the tables up to the one that failed, no row twice.
THEOREM FailuresSendPrefix == Spec => []FailureSendsPrefix
<1>1. IInv => FailureSendsPrefix
  <2> SUFFICES ASSUME IInv, outcome = "failed" PROVE FailureSendsPrefix
    BY DEF FailureSendsPrefix
  <2> USE DEF IInv
  <2>1. collector \notin ScrapeTime => \A t \in Tables : out[t] = <<>>
    BY DEF FailedInv
  <2>2. \A i \in step + 1 .. Len(Program[collector]) : out[Program[collector][i].table] = <<>>
    BY DEF LaterInv
  <2>3. ASSUME ~repeated, NEW t \in Tables, NEW k \in Keys PROVE Cardinality(Rows(t, k)) <= 1
    <3>1. CASE t \in Walked
      BY <2>3, <3>1, OneRow DEF KeysInv, ExportInv, ExportOf
    <3>2. CASE t \in Hashes
      BY <3>2, OneRow DEF LaterInv
    <3>3. CASE t \in AllDetails
      <4>1. PICK u \in Walked : \E n \in DOMAIN DetailsOf(u) : t = DetailsOf(u)[n]
        BY <3>3, DetailTable
      <4>2. PICK n \in DOMAIN DetailsOf(u) : t = DetailsOf(u)[n]
        BY <4>1
      <4>3. OncePerKey(out[t])
        BY <2>3, <4>2 DEF KeysInv, DetailInv, DetailOf, DetailOnce
      <4> QED
        BY <4>3, OneRow
    <3> QED
      BY <3>1, <3>2, <3>3 DEF Tables
  <2> QED
    BY <2>1, <2>2, <2>3 DEF FailureSendsPrefix
<1> QED
  BY <1>1, Invariance, PTL

\* As long as no table was cut, every entry that stood still during the scrape is
\* exported as it is, with its hashes, and once if its key was given once.
THEOREM StableRowsExported == Spec => []StableRowExported
<1>1. IInv => StableRowExported
  <2> SUFFICES ASSUME IInv, truncated = 0, NEW t \in MyWalks, NEW k \in Keys,
                      IsWalked(t), IsEntry(t, k), IsStable(t, k)
               PROVE  /\ Rows(t, k) # {}
                      /\ \A i \in Rows(t, k) : out[t][i][2] = Label(t, db[t][k])
                      /\ ~repeated => Cardinality(Rows(t, k)) = 1
                      /\ \A d \in ToSet(DetailsOf(t)) :
                           /\ db[d][k] \in Values /\ IsStable(d, k)
                           /\ db[JoinedTo[d]][k] # Absent /\ IsStable(JoinedTo[d], k)
                           => \E i \in DOMAIN out[d] : out[d][i] = <<k, db[d][k]>>
    BY DEF StableRowExported
  <2> USE DEF IInv
  <2>1. t \in Walked /\ ExportOf(t)
    BY DEF MyWalks, ExportInv
  <2>2. Done(t) = DOMAIN keys[t] /\ ~(AtWalk /\ Table = t)
    BY <2>1, DoneFacts
  <2>3. \E p \in DOMAIN keys[t] : keys[t][p] = k
    <3>1. PICK i \in 1 .. step - 1 : Program[collector][i] = Walk(t)
      BY DEF IsWalked
    <3>2. i \in DOMAIN Program[collector] /\ i < step /\ step \in Nat
      BY <3>1, StepFacts DEF TypeOK
    <3>3. PICK j \in DOMAIN Program[collector] :
            j < i /\ Program[collector][j].op \in {"scan", "list"} /\ Program[collector][j].table = t
      BY <3>1, <3>2, ListedBefore
    <3>4. j \in 1 .. step - 1
      BY <3>2, <3>3, StepFacts
    <3>5. k \in Present(Source(t))
      BY DEF IsEntry, Present
    <3> QED
      BY <3>3, <3>4, <3>5 DEF KeysInv
  <2>4. PICK i \in DOMAIN out[t] : out[t][i][1] = k
    BY <2>1, <2>2, <2>3 DEF ExportOf
  <2>5. Rows(t, k) # {}
    BY <2>4 DEF Rows
  <2>6. \A r \in Rows(t, k) : out[t][r][2] = Label(t, db[t][k])
    BY <2>1 DEF Rows, ExportOf
  <2>7. ~repeated => Cardinality(Rows(t, k)) = 1
    BY <2>1, <2>5, OneRow DEF KeysInv, ExportOf
  <2>8. ASSUME NEW d \in ToSet(DetailsOf(t)), db[d][k] \in Values, IsStable(d, k),
               db[JoinedTo[d]][k] # Absent, IsStable(JoinedTo[d], k)
        PROVE  \E j \in DOMAIN out[d] : out[d][j] = <<k, db[d][k]>>
    <3>1. PICK n \in DOMAIN DetailsOf(t) : d = DetailsOf(t)[n]
      BY DEF ToSet
    <3>2. DetailThere(t, n) /\ ~Ahead(t, n)
      BY <2>1, <2>2, AheadFacts DEF DetailInv, DetailOf
    <3>3. IsKept(d, k)
      BY <2>8 DEF IsKept, IsStable
    <3> QED
      BY <2>4, <3>1, <3>2, <3>3 DEF DetailThere
  <2> QED
    BY <2>5, <2>6, <2>7, <2>8
<1> QED
  BY <1>1, Invariance, PTL

-----------------------------------------------------------------------------
(* Accounting.  AccountInv is inductive relative to IInv.                  *)

\* At rest a SCAN in progress and every slice have only what is there.
RestInv ==
  changed = {} =>
    /\ step <= Len(Program[collector]) /\ Op = "scan" /\ outcome = "running"
         => window.ever \subseteq Present(Table)
    /\ \A t \in Walked : \A p \in DOMAIN keys[t] : keys[t][p] \in Present(Source(t))

\* The positions looked at that are not passed over.
Looked(t) == {p \in Done(t) : ~IsPassed(t, keys[t][p])}

Places(S, f) == UNION {{t} \X f[t] : t \in S}

RowsAt   == [t \in Walked |-> DOMAIN out[t]]
LookedAt == [t \in Walked |-> Looked(t)]

\* What reading the temperatures added to the skipped counter.
AsicSkips ==
  IF \E i \in 1 .. step - 1 : Program[collector][i] = Read("asic")
  THEN Cardinality(Unparsed("asic")) ELSE 0

Balanced ==
  skipped + Cardinality(Places(MyWalks, RowsAt))
    = Cardinality(Places(MyWalks, LookedAt)) + AsicSkips

SumInv ==
  /\ outcome = "done" => step > Len(Program[collector])
  /\ outcome # "failed" /\ (collector \in {"thermal", "crm"} => changed = {}) => Balanced

AccountInv == RestInv /\ SumInv

LEMMA RestStep ==
  ASSUME IInv, TypeOK', RestInv, [Next]_vars
  PROVE  RestInv'
<1> USE DEF IInv
<1> SUFFICES ASSUME changed' = {} PROVE RestInv'
  BY DEF RestInv
<1>1. ASSUME UNCHANGED <<db, collector, step, keys>>, changed = {},
             \/ outcome' # "running"
             \/ UNCHANGED <<outcome, window>>
      PROVE  RestInv'
  BY <1>1 DEF RestInv, Op, Table, Present
<1>2. ASSUME UNCHANGED <<db, collector>>, window' = WindowAt(step'),
             \A t \in Walked : \A p \in DOMAIN keys'[t] : keys'[t][p] \in Present(Source(t))
      PROVE  RestInv'
  <2>1. ASSUME step' <= Len(Program[collector]), Op' = "scan"
        PROVE  window'.ever = Present(Table)'
    <3>1. /\ step' \in DOMAIN Program[collector] /\ Program[collector][step'].op = "scan"
          /\ Table' = Program[collector][step'].table
      BY <1>2, <2>1, StepFacts DEF TypeOK, Op, Table
    <3>2. window' = Redis!Opened(Present(Program[collector][step'].table))
      BY <1>2, <3>1 DEF WindowAt
    <3> QED
      BY <1>2, <3>1, <3>2 DEF Redis!Opened, Present
  <2> QED
    BY <1>2, <2>1 DEF RestInv, Present
<1>3. CASE ScanKeys \/ ListKeys
  <2>1. /\ step <= Len(Program[collector]) /\ Op \in {"scan", "list"} /\ outcome = "running"
        /\ Table \in Walked
        /\ \A t \in Walked : t # Table => keys'[t] = keys[t]
        /\ NextStep
        /\ UNCHANGED <<db, collector, changed>>
    BY <1>3, ListedKeys
  <2>2. \A p \in DOMAIN keys'[Table] : keys'[Table][p] \in Present(Source(Table))
    <3>1. CASE ScanKeys
      <4>1. PICK s \in Redis!SortedLists(window) : keys' = [keys EXCEPT ![Table] = s]
        BY <3>1 DEF ScanKeys
      <4>2. \A p \in DOMAIN s : s[p] \in window.ever
        BY DEF Redis!SortedLists, Redis!Lists
      <4>3. Op = "scan" /\ Table \in Scanned /\ Source(Table) = Table
        BY <2>1, <3>1, TableAtHand, TableFacts DEF ScanKeys, Running
      <4>4. window.ever \subseteq Present(Table)
        BY <2>1, <4>3 DEF RestInv
      <4>5. keys'[Table] = s
        BY <2>1, <4>1 DEF ShapeInv
      <4> QED
        BY <4>2, <4>3, <4>4, <4>5
    <3>2. CASE ListKeys
      <4>1. PICK s \in SetToSeqs(Present(Source(Table))) : keys' = [keys EXCEPT ![Table] = s]
        BY <3>2 DEF ListKeys
      <4>2. \A p \in DOMAIN s : s[p] \in Present(Source(Table))
        BY DEF SetToSeqs
      <4>3. keys'[Table] = s
        BY <2>1, <4>1 DEF ShapeInv
      <4> QED
        BY <4>2, <4>3
    <3> QED
      BY <1>3, <3>1, <3>2
  <2>3. \A t \in Walked : \A p \in DOMAIN keys'[t] : keys'[t][p] \in Present(Source(t))
    BY <2>1, <2>2 DEF RestInv
  <2> QED
    BY <1>2, <2>1, <2>3 DEF NextStep
<1>4. CASE Pass \/ CutOne \/ Skip \/ FindGone
  BY <1>1, <1>4, PassOverEffect
<1>5. CASE CutRest \/ EndOfKeys
  BY <1>2, <1>5, WalkEndsEffect DEF NextStep, RestInv
<1>6. CASE Export
  BY <1>1, <1>6, ExportEffect
<1>7. CASE ReadDetail
  BY <1>1, <1>7, ReadDetailEffect
<1>8. CASE ReadHash
  BY <1>2, <1>8, ReadHashEffect DEF NextStep, RestInv
<1>9. CASE Finish \/ FailInCollect
  BY <1>1, <1>9, FinishEffect, FailInCollectEffect
<1>10. CASE Fail \/ Return
  <2>1. \A t \in Walked : \A p \in DOMAIN keys'[t] : keys'[t][p] \in Present(Source(t))
    BY <1>10, ClearEffect, EmptyTypes
  <2>2. /\ UNCHANGED <<db, collector>> /\ step' = 1
        /\ outcome' = "failed" \/ window' = WindowAt(1)
    BY <1>10, ClearEffect
  <2> QED
    BY <1>2, <2>1, <2>2 DEF RestInv, Present
<1>11. CASE \E t \in Mine, k \in Keys : Change(t, k)
  BY <1>11, ChangeEffect
<1>12. CASE UNCHANGED vars
  BY <1>1, <1>12 DEF vars, outside, walk, history
<1> QED
  BY <1>3, <1>4, <1>5, <1>6, <1>7, <1>8, <1>9, <1>10, <1>11, <1>12 DEF Next

LEMMA WalkedFinite == IsFiniteSet(Walked)
<1> DEFINE f == <<"neighbor", "route", "switch", "identity", "status", "process", "storage",
                  "psu", "fan", "chassis", "acl", "queue">>
<1>1. f \in Seq(Walked) /\ Len(f) = 12
  BY DEF Walked, Scanned, Listed
<1>2. \A t \in Walked : \E i \in 1 .. Len(f) : f[i] = t
  <2>1. /\ f[1] = "neighbor" /\ f[2] = "route" /\ f[3] = "switch" /\ f[4] = "identity"
        /\ f[5] = "status" /\ f[6] = "process" /\ f[7] = "storage" /\ f[8] = "psu"
        /\ f[9] = "fan" /\ f[10] = "chassis" /\ f[11] = "acl" /\ f[12] = "queue"
    OBVIOUS
  <2> HIDE DEF f
  <2> QED
    BY <1>1, <2>1 DEF Walked, Scanned, Listed
<1> HIDE DEF f
<1>3. Len(f) \in Nat /\ f \in [1 .. Len(f) -> Walked]
  BY <1>1, LenProperties
<1>4. f \in Surjection(1 .. Len(f), Walked)
  BY <1>2, <1>3 DEF Surjection
<1>5. IsFiniteSet(1 .. Len(f))
  BY <1>3, FS_Interval
<1> QED
  BY <1>4, <1>5, FS_Surjection

-----------------------------------------------------------------------------
(* Sums over tables.                                                       *)

\* Each f[u] can be counted; g differs from f at t only.
FiniteOn(S, f) == \A u \in S : IsFiniteSet(f[u])
SameBut(S, t, f, g) == \A u \in S : u # t => g[u] = f[u]

LEMMA PlacesFinite ==
  ASSUME NEW S, IsFiniteSet(S), NEW f, FiniteOn(S, f)
  PROVE  IsFiniteSet(Places(S, f)) /\ Cardinality(Places(S, f)) \in Nat
<1>1. \A u \in S : IsFiniteSet({u} \X f[u])
  BY FS_Singleton, FS_Product DEF FiniteOn
<1> DEFINE g == [u \in S |-> {u} \X f[u]]
           T == {{u} \X f[u] : u \in S}
<1>2. g \in Surjection(S, T)
  BY DEF Surjection
<1>3. IsFiniteSet(T)
  <2> HIDE DEF g, T
  <2> QED
    BY <1>2, FS_Surjection
<1>4. \A A \in T : IsFiniteSet(A)
  BY <1>1
<1> HIDE DEF T
<1>5. IsFiniteSet(UNION T)
  BY <1>3, <1>4, FS_UNION
<1>6. IsFiniteSet(Places(S, f))
  BY <1>5 DEF T, Places
<1> QED
  BY <1>6, FS_CardinalityType

LEMMA PlacesOne ==
  ASSUME NEW S, IsFiniteSet(S), NEW f, \A u \in S : IsFiniteSet(f[u]), NEW t \in S
  PROVE  /\ Cardinality(Places(S, f)) = Cardinality(Places(S \ {t}, f)) + Cardinality(f[t])
         /\ Cardinality(Places(S \ {t}, f)) \in Nat /\ Cardinality(f[t]) \in Nat
<1>1. \A u \in S : /\ IsFiniteSet({u} \X f[u])
                   /\ Cardinality({u} \X f[u]) = Cardinality(f[u])
                   /\ Cardinality(f[u]) \in Nat
  <2> TAKE u \in S
  <2>1. IsFiniteSet({u}) /\ Cardinality({u}) = 1
    BY FS_Singleton
  <2>2. Cardinality(f[u]) \in Nat
    BY FS_CardinalityType
  <2>3. IsFiniteSet({u} \X f[u]) /\ Cardinality({u} \X f[u]) = 1 * Cardinality(f[u])
    BY <2>1, FS_Product
  <2>4. \A k \in Nat : 1 * k = k
    OBVIOUS
  <2> QED
    BY <2>2, <2>3, <2>4
<1> DEFINE P == Places(S \ {t}, f)
           Q == {t} \X f[t]
<1>2. IsFiniteSet(P)
  <2>1. IsFiniteSet(S \ {t})
    BY FS_Subset
  <2>2. FiniteOn(S \ {t}, f)
    BY DEF FiniteOn
  <2> QED
    BY <2>1, <2>2, PlacesFinite
<1>3. Places(S, f) = P \cup Q
  BY DEF Places
<1>4. P \cap Q = {}
  <2>1. ASSUME NEW x \in P, x \in Q PROVE FALSE
    <3>1. PICK u \in S \ {t} : x \in {u} \X f[u]
      BY <2>1 DEF Places
    <3>2. x[1] = u /\ x[1] = t
      BY <2>1, <3>1
    <3> QED
      BY <3>1, <3>2
  <2> QED
    BY <2>1
<1>5. /\ IsFiniteSet(Q) /\ Cardinality(Q) = Cardinality(f[t]) /\ Cardinality(f[t]) \in Nat
      /\ Cardinality(P) \in Nat
  BY <1>1, <1>2, FS_CardinalityType
<1> HIDE DEF P, Q
<1>6. Cardinality(P \cup Q) = Cardinality(P) + Cardinality(Q) - Cardinality(P \cap Q)
  BY <1>2, <1>5, FS_Union
<1>7. Cardinality(P \cap Q) = 0
  BY <1>4, FS_EmptySet
<1>8. Cardinality(P \cup Q) = Cardinality(P) + Cardinality(f[t])
  BY <1>5, <1>6, <1>7
<1> QED
  BY <1>3, <1>5, <1>8 DEF P

\* One table gives another number of positions.
LEMMA PlacesChange ==
  ASSUME NEW S, IsFiniteSet(S), NEW f, NEW g, NEW t \in S,
         FiniteOn(S, f), FiniteOn(S, g), SameBut(S, t, f, g)
  PROVE  /\ Cardinality(Places(S, g)) + Cardinality(f[t])
              = Cardinality(Places(S, f)) + Cardinality(g[t])
         /\ Cardinality(Places(S, f)) \in Nat /\ Cardinality(Places(S, g)) \in Nat
         /\ Cardinality(f[t]) \in Nat /\ Cardinality(g[t]) \in Nat
<1>1. Places(S \ {t}, g) = Places(S \ {t}, f)
  <2>1. \A u \in S \ {t} : {u} \X g[u] = {u} \X f[u]
    BY DEF SameBut
  <2>2. {{u} \X g[u] : u \in S \ {t}} = {{u} \X f[u] : u \in S \ {t}}
    BY <2>1
  <2> QED
    BY <2>2 DEF Places
<1>2. /\ Cardinality(Places(S, f)) = Cardinality(Places(S \ {t}, f)) + Cardinality(f[t])
      /\ Cardinality(Places(S \ {t}, f)) \in Nat /\ Cardinality(f[t]) \in Nat
  BY PlacesOne DEF FiniteOn
<1>3. /\ Cardinality(Places(S, g)) = Cardinality(Places(S \ {t}, g)) + Cardinality(g[t])
      /\ Cardinality(g[t]) \in Nat
  BY PlacesOne DEF FiniteOn
<1> QED
  BY <1>1, <1>2, <1>3

-----------------------------------------------------------------------------
(* What each step adds to the sums.                                        *)

LEMMA MyWalksFacts ==
  /\ MyWalks \subseteq Walked /\ IsFiniteSet(MyWalks)
  /\ UNCHANGED collector => MyWalks' = MyWalks
<1>1. MyWalks \subseteq Walked
  BY DEF MyWalks
<1>2. UNCHANGED collector => MyWalks' = MyWalks
  BY DEF MyWalks, Mine
<1> QED
  BY <1>1, <1>2, WalkedFinite, FS_Subset

LEMMA AtHandIsMine ==
  ASSUME TypeOK, step <= Len(Program[collector]), Op \in {"scan", "list", "walk"}
  PROVE  Table \in MyWalks
<1>1. step \in DOMAIN Program[collector] /\ Table \in Walked
  BY TableAtHand
<1>2. Table \in {Program[collector][i].table : i \in DOMAIN Program[collector]}
  BY <1>1 DEF Table
<1>3. Table \in Mine
  BY <1>2 DEF Mine
<1> QED
  BY <1>1, <1>3 DEF MyWalks

LEMMA SliceFinite ==
  ASSUME NEW T, NEW q \in Seq(T)
  PROVE  IsFiniteSet(DOMAIN q) /\ Cardinality(DOMAIN q) = Len(q) /\ Len(q) \in Nat
<1>1. Len(q) \in Nat /\ DOMAIN q = 1 .. Len(q)
  OBVIOUS
<1>2. \A n \in Nat : IsFiniteSet(1 .. n) /\ Cardinality(1 .. n) = n
  BY FS_Interval
<1> QED
  BY <1>1, <1>2

LEMMA PositionsFinite ==
  ASSUME NEW t \in Walked
  PROVE  /\ TypeOK => /\ IsFiniteSet(DOMAIN out[t]) /\ Cardinality(DOMAIN out[t]) = Len(out[t])
                      /\ IsFiniteSet(Looked(t)) /\ Len(out[t]) \in Nat
         /\ TypeOK' => /\ IsFiniteSet(DOMAIN out'[t]) /\ Cardinality(DOMAIN out'[t]) = Len(out'[t])
                       /\ IsFiniteSet(Looked(t)') /\ Len(out'[t]) \in Nat
<1>1. Looked(t) \subseteq DOMAIN keys[t] /\ Looked(t)' \subseteq DOMAIN keys'[t]
  BY DEF Looked, Done
<1>2. t \in Tables
  BY TableFacts
<1>3. ASSUME TypeOK
      PROVE  /\ IsFiniteSet(DOMAIN out[t]) /\ Cardinality(DOMAIN out[t]) = Len(out[t])
             /\ IsFiniteSet(Looked(t)) /\ Len(out[t]) \in Nat
  <2>1. out[t] \in Seq(Keys \X (Values \cup {Unknown, Blank})) /\ keys[t] \in Seq(Keys)
    BY <1>2, <1>3 DEF TypeOK
  <2> QED
    BY <1>1, <2>1, SliceFinite, FS_Subset
<1>4. ASSUME TypeOK'
      PROVE  /\ IsFiniteSet(DOMAIN out'[t]) /\ Cardinality(DOMAIN out'[t]) = Len(out'[t])
             /\ IsFiniteSet(Looked(t)') /\ Len(out'[t]) \in Nat
  <2>1. out'[t] \in Seq(Keys \X (Values \cup {Unknown, Blank})) /\ keys'[t] \in Seq(Keys)
    BY <1>2, <1>4 DEF TypeOK
  <2> QED
    BY <1>1, <2>1, SliceFinite, FS_Subset
<1> QED
  BY <1>3, <1>4

\* A step that adds to one table, or to none.
LEMMA BalanceSums ==
  ASSUME NEW S, IsFiniteSet(S), NEW f, NEW g, NEW p, NEW q, NEW t \in S,
         FiniteOn(S, f), FiniteOn(S, g), FiniteOn(S, p), FiniteOn(S, q),
         SameBut(S, t, f, g), SameBut(S, t, p, q),
         NEW s \in Nat, NEW r \in Nat, NEW d \in Nat, NEW e \in Nat,
         s + Cardinality(Places(S, f)) = Cardinality(Places(S, p)) + e,
         r + Cardinality(g[t]) + Cardinality(p[t])
           = s + Cardinality(f[t]) + Cardinality(q[t]) + d
  PROVE  r + Cardinality(Places(S, g)) = Cardinality(Places(S, q)) + (e + d)
<1>1. /\ Cardinality(Places(S, g)) + Cardinality(f[t]) = Cardinality(Places(S, f)) + Cardinality(g[t])
      /\ Cardinality(Places(S, f)) \in Nat /\ Cardinality(Places(S, g)) \in Nat
      /\ Cardinality(f[t]) \in Nat /\ Cardinality(g[t]) \in Nat
  BY PlacesChange
<1>2. /\ Cardinality(Places(S, q)) + Cardinality(p[t]) = Cardinality(Places(S, p)) + Cardinality(q[t])
      /\ Cardinality(Places(S, p)) \in Nat /\ Cardinality(Places(S, q)) \in Nat
      /\ Cardinality(p[t]) \in Nat /\ Cardinality(q[t]) \in Nat
  BY PlacesChange
<1> DEFINE F == Cardinality(Places(S, f))
           G == Cardinality(Places(S, g))
           P == Cardinality(Places(S, p))
           Q == Cardinality(Places(S, q))
           a == Cardinality(f[t])
           b == Cardinality(g[t])
           c == Cardinality(p[t])
           h == Cardinality(q[t])
<1>3. /\ F \in Nat /\ G \in Nat /\ P \in Nat /\ Q \in Nat
      /\ a \in Nat /\ b \in Nat /\ c \in Nat /\ h \in Nat
      /\ G + a = F + b /\ Q + c = P + h /\ s + F = P + e /\ r + b + c = s + a + h + d
  BY <1>1, <1>2
<1> HIDE DEF F, G, P, Q, a, b, c, h
<1>4. G = F + b - a /\ Q = P + h - c /\ F = P + e - s
  BY <1>3
<1>5. r = s + a + h + d - b - c
  BY <1>3
<1>6. r + G = Q + (e + d)
  BY <1>3, <1>4, <1>5
<1> QED
  BY <1>6 DEF G, Q

LEMMA BalanceStep ==
  ASSUME TypeOK, TypeOK', Balanced, UNCHANGED collector, NEW t \in MyWalks,
         \A u \in Walked : u # t => DOMAIN out'[u] = DOMAIN out[u] /\ Looked(u)' = Looked(u),
         NEW d \in Nat, NEW e \in Nat, AsicSkips = e, AsicSkips' = e + d,
         skipped' + Len(out'[t]) + Cardinality(Looked(t))
           = skipped + Len(out[t]) + Cardinality(Looked(t)') + d
  PROVE  Balanced'
<1>1. /\ MyWalks' = MyWalks /\ MyWalks \subseteq Walked /\ IsFiniteSet(MyWalks)
      /\ t \in Walked
  BY MyWalksFacts
<1>2. \A u \in Walked : IsFiniteSet(DOMAIN out[u]) /\ IsFiniteSet(Looked(u))
  BY PositionsFinite
<1>3. \A u \in Walked : IsFiniteSet(DOMAIN out'[u]) /\ IsFiniteSet(Looked(u)')
  BY PositionsFinite
<1>4. /\ Cardinality(DOMAIN out[t]) = Len(out[t]) /\ Cardinality(DOMAIN out'[t]) = Len(out'[t])
      /\ skipped \in Nat /\ skipped' \in Nat
  BY <1>1, PositionsFinite DEF TypeOK
<1> DEFINE S == MyWalks
           f == RowsAt
           g == RowsAt'
           p == LookedAt
           q == LookedAt'
<1>5. /\ \A u \in Walked : f[u] = DOMAIN out[u] /\ g[u] = DOMAIN out'[u]
      /\ \A u \in Walked : p[u] = Looked(u) /\ q[u] = Looked(u)'
  BY DEF RowsAt, LookedAt
<1>6. skipped + Cardinality(Places(S, f)) = Cardinality(Places(S, p)) + e
  BY DEF Balanced
<1>7. S \subseteq Walked /\ IsFiniteSet(S) /\ t \in S /\ t \in Walked
  BY <1>1
<1> HIDE DEF S, f, g, p, q
<1>8. FiniteOn(S, f) /\ FiniteOn(S, g) /\ FiniteOn(S, p) /\ FiniteOn(S, q)
  BY <1>2, <1>3, <1>5, <1>7 DEF FiniteOn
<1>9. SameBut(S, t, f, g) /\ SameBut(S, t, p, q)
  BY <1>5, <1>7 DEF SameBut
<1>10. skipped' + Cardinality(g[t]) + Cardinality(p[t]) = skipped + Cardinality(f[t]) + Cardinality(q[t]) + d
  BY <1>4, <1>5, <1>7
<1>11. skipped' + Cardinality(Places(S, g)) = Cardinality(Places(S, q)) + (e + d)
  BY <1>4, <1>6, <1>7, <1>8, <1>9, <1>10, BalanceSums
<1> QED
  BY <1>1, <1>11 DEF Balanced, g, q, S

-----------------------------------------------------------------------------
LEMMA LookedSame ==
  ASSUME NEW t \in Walked, Done(t)' = Done(t), Done(t) # {} => keys'[t] = keys[t]
  PROVE  Looked(t)' = Looked(t)
<1>1. Looked(t)' = {p \in Done(t)' : ~IsPassed(t, keys'[t][p])}
  BY DEF Looked
<1>2. Looked(t) = {p \in Done(t) : ~IsPassed(t, keys[t][p])}
  BY DEF Looked
<1> QED
  BY <1>1, <1>2

\* The key at hand is looked at.
LEMMA LookedHere ==
  ASSUME TypeOK, step <= Len(Program[collector]), Op = "walk", detail = 0,
         index <= Len(keys[Table]), UNCHANGED <<collector, step, keys>>,
         \/ index' = index + 1 /\ detail' = 0
         \/ index' = index /\ detail' = 1,
         NEW t \in Walked
  PROVE  /\ t # Table => Looked(t)' = Looked(t)
         /\ t = Table /\ IsPassed(t, Key) => Looked(t)' = Looked(t)
         /\ t = Table /\ ~IsPassed(t, Key) => Cardinality(Looked(t)') = Cardinality(Looked(t)) + 1
<1>1. CASE t # Table
  BY <1>1, DoneSame, LookedSame DEF AtWalk
<1>2. CASE t = Table
  <2>1. AtWalk /\ AtWalk' /\ Table' = t
    BY <1>2 DEF AtWalk, Op, Table
  <2>2. /\ index \in Nat \ {0} /\ Len(keys[t]) \in Nat /\ DOMAIN keys[t] = 1 .. Len(keys[t])
        /\ index \in DOMAIN keys[t]
    BY <1>2 DEF TypeOK
  <2>3. /\ Done(t) = {p \in DOMAIN keys[t] : p < index \/ (p = index /\ detail > 0)}
        /\ Done(t)' = {p \in DOMAIN keys[t] : p < index' \/ (p = index' /\ detail' > 0)}
    BY <1>2, <2>1 DEF Done
  <2>4. Done(t)' = Done(t) \cup {index} /\ index \notin Done(t)
    BY <2>2, <2>3
  <2>5. /\ Looked(t)' = {p \in Done(t)' : ~IsPassed(t, keys[t][p])}
        /\ Looked(t) = {p \in Done(t) : ~IsPassed(t, keys[t][p])}
    BY DEF Looked
  <2>6. Key = keys[t][index]
    BY <1>2 DEF Key
  <2>7. IsPassed(t, Key) => Looked(t)' = Looked(t)
    BY <2>4, <2>5, <2>6
  <2>8. ASSUME ~IsPassed(t, Key) PROVE Cardinality(Looked(t)') = Cardinality(Looked(t)) + 1
    <3>1. Looked(t)' = Looked(t) \cup {index} /\ index \notin Looked(t)
      BY <2>4, <2>5, <2>6, <2>8
    <3>2. IsFiniteSet(Looked(t))
      BY PositionsFinite
    <3> QED
      BY <3>1, <3>2, FS_AddElement
  <2> QED
    BY <1>2, <2>7, <2>8
<1> QED
  BY <1>1, <1>2

\* The walk ends before a key that is not passed over, or after the last one.
LEMMA LookedRest ==
  ASSUME TypeOK, TypeOK', CutRest \/ EndOfKeys, NEW t \in Walked
  PROVE  /\ t # Table => Looked(t)' = Looked(t)
         /\ t = Table => skipped' + Cardinality(Looked(t)) = skipped + Cardinality(Looked(t)')
<1>1. /\ step <= Len(Program[collector]) /\ Op = "walk" /\ detail = 0 /\ NextStep
      /\ UNCHANGED <<collector, keys, detail>>
  BY WalkEndsEffect
<1>2. CASE t # Table
  BY <1>1, <1>2, DoneNext, LookedSame
<1>3. CASE t = Table
  <2>1. /\ index \in Nat \ {0} /\ Len(keys[t]) \in Nat /\ DOMAIN keys[t] = 1 .. Len(keys[t])
        /\ skipped \in Nat
    BY <1>3 DEF TypeOK
  <2>2. /\ Done(t) = {p \in DOMAIN keys[t] : p < index}
        /\ Done(t)' = DOMAIN keys[t]
    <3>1. Done(t)' = DOMAIN keys[t]
      BY <1>1, <1>3, DoneNext
    <3>2. Done(t) = {p \in DOMAIN keys[t] : p < index}
      BY <1>1, <1>3 DEF Done, AtWalk
    <3> QED
      BY <3>1, <3>2
  <2>3. /\ Looked(t)' = {p \in Done(t)' : ~IsPassed(t, keys[t][p])}
        /\ Looked(t) = {p \in Done(t) : ~IsPassed(t, keys[t][p])}
    BY <1>1 DEF Looked
  <2>4. CASE EndOfKeys
    <3>1. index > Len(keys[t]) /\ skipped' = skipped
      BY <1>3, <2>4 DEF EndOfKeys, result
    <3>2. Done(t)' = Done(t)
      BY <2>1, <2>2, <3>1
    <3> QED
      BY <1>3, <2>3, <3>1, <3>2
  <2>5. CASE CutRest
    <3>1. /\ index <= Len(keys[t]) /\ t \notin CountsEntries
          /\ skipped' = skipped + (Len(keys[t]) - index) + 1
      BY <1>3, <2>5 DEF CutRest, Visit
    <3>2. \A k : ~IsPassed(t, k)
      BY <3>1 DEF IsPassed
    <3>3. Looked(t)' = 1 .. Len(keys[t]) /\ Looked(t) = 1 .. (index - 1)
      BY <2>1, <2>2, <2>3, <3>1, <3>2
    <3>4. \A n \in Nat : Cardinality(1 .. n) = n
      BY FS_Interval
    <3>5. Cardinality(Looked(t)') = Len(keys[t]) /\ Cardinality(Looked(t)) = index - 1
      BY <2>1, <3>3, <3>4
    <3> QED
      BY <1>3, <2>1, <3>1, <3>5
  <2> QED
    BY <2>4, <2>5, <1>3
<1> QED
  BY <1>2, <1>3

LEMMA AsicFacts ==
  ASSUME TypeOK, UNCHANGED <<collector, db>>
  PROVE  /\ AsicSkips \in Nat
         /\ step' = step => AsicSkips' = AsicSkips
         /\ step <= Len(Program[collector]) /\ step' = step + 1 =>
              AsicSkips' = AsicSkips + IF Op = "read" THEN Cardinality(Unparsed(Table)) ELSE 0
<1>1. Unparsed("asic") \subseteq Keys /\ Unparsed("asic")' = Unparsed("asic")
  BY DEF Unparsed
<1>2. Cardinality(Unparsed("asic")) \in Nat
  BY <1>1, DatabasesAssumption, FS_Subset, FS_CardinalityType
<1>3. AsicSkips \in Nat
  BY <1>2 DEF AsicSkips
<1>4. step' = step => AsicSkips' = AsicSkips
  BY <1>1 DEF AsicSkips
<1>5. ASSUME step <= Len(Program[collector]), step' = step + 1
      PROVE  AsicSkips' = AsicSkips + IF Op = "read" THEN Cardinality(Unparsed(Table)) ELSE 0
  <2>1. step \in Nat \ {0} /\ step \in DOMAIN Program[collector]
    BY <1>5, StepFacts, TableAtHand
  <2>2. 1 .. step' - 1 = (1 .. step - 1) \cup {step}
    BY <1>5, <2>1
  <2>3. Program[collector][step] = Read("asic") <=> Op = "read" /\ Table = "asic"
    <3>1. Program[collector][step] \in Instructions
      BY <2>1, StepFacts DEF IsProgram
    <3> QED
      BY <3>1 DEF Instructions, Read, Op, Table
  <2>4. CASE Op = "read" /\ Table = "asic"
    <3>1. ~\E i \in 1 .. step - 1 : Program[collector][i] = Read("asic")
      <4>1. SUFFICES ASSUME NEW i \in 1 .. step - 1, Program[collector][i] = Read("asic")
                     PROVE  FALSE
        OBVIOUS
      <4>2. i \in DOMAIN Program[collector] /\ i # step
        BY <1>5, <2>1, StepFacts
      <4> QED
        BY <2>1, <2>3, <2>4, <4>1, <4>2, StepFacts DEF IsProgram
    <3>2. AsicSkips = 0
      BY <3>1 DEF AsicSkips
    <3>3. AsicSkips' = Cardinality(Unparsed("asic"))
      BY <1>1, <2>2, <2>3, <2>4 DEF AsicSkips
    <3> QED
      BY <1>2, <2>4, <3>2, <3>3
  <2>5. CASE ~(Op = "read" /\ Table = "asic")
    <3>1. AsicSkips' = AsicSkips
      BY <1>1, <2>2, <2>3, <2>5 DEF AsicSkips
    <3>2. Op = "read" => Cardinality(Unparsed(Table)) = 0
      BY <2>5, FS_EmptySet DEF Unparsed
    <3> QED
      BY <1>3, <3>1, <3>2
  <2> QED
    BY <2>4, <2>5
<1> QED
  BY <1>3, <1>4, <1>5

LEMMA MoreSum ==
  ASSUME NEW s \in Nat, NEW r, NEW l \in Nat, NEW m, NEW a \in Nat, NEW b,
         r = s, m = l + 1, b = a + 1
  PROVE  r + m + a = s + l + b + 0
OBVIOUS

\* What a step of the walk counts or exports.
LEMMA WalkBalance ==
  ASSUME IInv, RestInv, TypeOK', Balanced, Pass \/ CutOne \/ Skip \/ FindGone,
         collector = "crm" => changed = {}
  PROVE  Balanced'
<1> USE DEF IInv
<1>1. /\ step <= Len(Program[collector]) /\ Op = "walk" /\ detail = 0
      /\ index <= Len(keys[Table]) /\ index' = index + 1 /\ detail' = 0
      /\ UNCHANGED <<db, collector, step, keys, out>>
  BY PassOverEffect
<1>2. PICK t \in MyWalks : t = Table
  BY <1>1, AtHandIsMine
<1>3. t \in Walked /\ Key \in Keys
  BY <1>1, <1>2, TableAtHand DEF TypeOK, Key
<1>4. AsicSkips \in Nat /\ AsicSkips' = AsicSkips + 0
  BY <1>1, AsicFacts
<1>5. \A u \in Walked : u # t => DOMAIN out'[u] = DOMAIN out[u] /\ Looked(u)' = Looked(u)
  BY <1>1, <1>2, LookedHere
<1>6. /\ Cardinality(Looked(t)) \in Nat /\ Cardinality(Looked(t)') \in Nat
      /\ Len(out[t]) \in Nat /\ Len(out'[t]) = Len(out[t]) /\ skipped \in Nat /\ skipped' \in Nat
  BY <1>1, <1>3, PositionsFinite, FS_CardinalityType DEF TypeOK
<1>7. skipped' + Cardinality(Looked(t)) = skipped + Cardinality(Looked(t)')
  <2>1. CASE Pass
    <3>1. Looked(t)' = Looked(t) /\ skipped' = skipped
      BY <1>1, <1>2, <1>3, <2>1, LookedHere DEF Pass, result
    <3> QED
      BY <3>1
  <2>2. CASE CutOne \/ Skip
    <3>1. skipped' = skipped + 1 /\ ~IsPassed(t, Key)
      BY <1>2, <2>2 DEF CutOne, Skip
    <3>2. Cardinality(Looked(t)') = Cardinality(Looked(t)) + 1
      BY <1>1, <1>2, <1>3, <3>1, LookedHere
    <3> QED
      BY <1>6, <3>1, <3>2
  <2>3. CASE FindGone
    <3>1. Table = "acl" /\ db[Table][Key] = Absent
      BY <2>3 DEF FindGone
    <3>2. collector = "crm"
      BY <1>1, <3>1, StepFacts, TableAtHand, OneReader DEF Table
    <3>3. keys[Table][index] \in Present(Source(Table))
      BY <1>1, <1>2, <1>3, <3>2 DEF RestInv, TypeOK
    <3>4. Source(Table) = Table
      BY <3>1 DEF Source
    <3> QED
      BY <3>1, <3>3, <3>4 DEF Present, Key
  <2> QED
    BY <2>1, <2>2, <2>3
<1>8. skipped' + Len(out'[t]) + Cardinality(Looked(t))
        = skipped + Len(out[t]) + Cardinality(Looked(t)') + 0
  <2> DEFINE a == Cardinality(Looked(t))
             b == Cardinality(Looked(t)')
             l == Len(out[t])
             m == Len(out'[t])
             s == skipped
             r == skipped'
  <2>1. /\ a \in Nat /\ b \in Nat /\ l \in Nat /\ m = l /\ s \in Nat /\ r \in Nat
        /\ r + a = s + b
    BY <1>6, <1>7
  <2> HIDE DEF a, b, l, m, s, r
  <2>2. r + m + a = s + l + b + 0
    BY <2>1
  <2> QED
    BY <2>2 DEF a, b, l, m, s, r
<1> QED
  BY <1>1, <1>4, <1>5, <1>8, BalanceStep

LEMMA RestBalance ==
  ASSUME IInv, TypeOK', Balanced, CutRest \/ EndOfKeys
  PROVE  Balanced'
<1> USE DEF IInv
<1>1. /\ step <= Len(Program[collector]) /\ Op = "walk" /\ step' = step + 1
      /\ UNCHANGED <<db, collector, out>>
  BY WalkEndsEffect DEF NextStep
<1>2. PICK t \in MyWalks : t = Table
  BY <1>1, AtHandIsMine
<1>3. t \in Walked
  BY <1>1, <1>2, TableAtHand
<1>4. AsicSkips \in Nat /\ AsicSkips' = AsicSkips + 0
  BY <1>1, AsicFacts
<1>5. \A u \in Walked : u # t => DOMAIN out'[u] = DOMAIN out[u] /\ Looked(u)' = Looked(u)
  BY <1>1, <1>2, LookedRest
<1>6. /\ Cardinality(Looked(t)) \in Nat /\ Cardinality(Looked(t)') \in Nat
      /\ Len(out[t]) \in Nat /\ Len(out'[t]) = Len(out[t]) /\ skipped \in Nat /\ skipped' \in Nat
  BY <1>1, <1>3, PositionsFinite, FS_CardinalityType DEF TypeOK
<1>7. skipped' + Cardinality(Looked(t)) = skipped + Cardinality(Looked(t)')
  BY <1>2, <1>3, LookedRest
<1>8. skipped' + Len(out'[t]) + Cardinality(Looked(t))
        = skipped + Len(out[t]) + Cardinality(Looked(t)') + 0
  <2> DEFINE a == Cardinality(Looked(t))
             b == Cardinality(Looked(t)')
             l == Len(out[t])
             m == Len(out'[t])
             s == skipped
             r == skipped'
  <2>1. /\ a \in Nat /\ b \in Nat /\ l \in Nat /\ m = l /\ s \in Nat /\ r \in Nat
        /\ r + a = s + b
    BY <1>6, <1>7
  <2> HIDE DEF a, b, l, m, s, r
  <2>2. r + m + a = s + l + b + 0
    BY <2>1
  <2> QED
    BY <2>2 DEF a, b, l, m, s, r
<1> QED
  BY <1>1, <1>4, <1>5, <1>8, BalanceStep

LEMMA ExportBalance ==
  ASSUME IInv, TypeOK', Balanced, Export
  PROVE  Balanced'
<1> USE DEF IInv
<1>1. /\ step <= Len(Program[collector]) /\ Op = "walk" /\ detail = 0
      /\ index <= Len(keys[Table])
      /\ \/ index' = index + 1 /\ detail' = 0
         \/ index' = index /\ detail' = 1
      /\ UNCHANGED <<db, collector, step, keys, skipped>>
      /\ out' = [out EXCEPT ![Table] = Append(@, <<Key, Label(Table, db[Table][Key])>>)]
      /\ <<Key, Label(Table, db[Table][Key])>> \in Rows2
  BY ExportEffect
<1>2. PICK t \in MyWalks : t = Table
  BY <1>1, AtHandIsMine
<1>3. t \in Walked /\ t \in Tables
  BY <1>1, <1>2, TableAtHand
<1>4. AsicSkips \in Nat /\ AsicSkips' = AsicSkips + 0
  BY <1>1, AsicFacts
<1>5. Len(out'[t]) = Len(out[t]) + 1 /\ \A u \in Walked : u # t => out'[u] = out[u]
  BY <1>1, <1>2, <1>3, AppendType, TableFacts
<1>6. \A u \in Walked : u # t => DOMAIN out'[u] = DOMAIN out[u] /\ Looked(u)' = Looked(u)
  BY <1>1, <1>2, <1>5, LookedHere
<1>7. /\ Cardinality(Looked(t)) \in Nat /\ Len(out[t]) \in Nat
      /\ skipped \in Nat /\ skipped' = skipped
  BY <1>1, <1>3, PositionsFinite, FS_CardinalityType DEF TypeOK
<1>8. Cardinality(Looked(t)') = Cardinality(Looked(t)) + 1
  BY <1>1, <1>2, <1>3, LookedHere DEF Export
<1>9. skipped' + Len(out'[t]) + Cardinality(Looked(t))
        = skipped + Len(out[t]) + Cardinality(Looked(t)') + 0
  BY <1>5, <1>7, <1>8, MoreSum
<1> QED
  BY <1>1, <1>4, <1>6, <1>9, BalanceStep

\* Nothing is counted but the temperatures.
LEMMA BalanceSame ==
  ASSUME TypeOK, TypeOK', Balanced, UNCHANGED collector,
         \A u \in Walked : DOMAIN out'[u] = DOMAIN out[u] /\ Looked(u)' = Looked(u),
         NEW d \in Nat, AsicSkips \in Nat, AsicSkips' = AsicSkips + d, skipped' = skipped + d
  PROVE  Balanced'
<1>1. MyWalks' = MyWalks
  BY MyWalksFacts
<1>2. RowsAt' = RowsAt /\ LookedAt' = LookedAt
  BY DEF RowsAt, LookedAt
<1>3. Balanced' <=> skipped' + Cardinality(Places(MyWalks, RowsAt))
                      = Cardinality(Places(MyWalks, LookedAt)) + AsicSkips'
  BY <1>1, <1>2 DEF Balanced
<1>4. IsFiniteSet(MyWalks) /\ MyWalks \subseteq Walked
  BY MyWalksFacts
<1>5. FiniteOn(MyWalks, RowsAt) /\ FiniteOn(MyWalks, LookedAt)
  BY <1>4, PositionsFinite DEF FiniteOn, RowsAt, LookedAt
<1>6. Cardinality(Places(MyWalks, RowsAt)) \in Nat /\ Cardinality(Places(MyWalks, LookedAt)) \in Nat
  BY <1>4, <1>5, PlacesFinite
<1> DEFINE F == Cardinality(Places(MyWalks, RowsAt))
           P == Cardinality(Places(MyWalks, LookedAt))
<1>7. F \in Nat /\ P \in Nat /\ skipped \in Nat /\ skipped + F = P + AsicSkips
  BY <1>6 DEF Balanced, TypeOK
<1> HIDE DEF F, P
<1>8. skipped' + F = P + AsicSkips'
  BY <1>7
<1> QED
  BY <1>3, <1>8 DEF F, P

\* Nothing was looked at.
LEMMA BalanceEmpty ==
  /\ step = 1 /\ skipped = 0
  /\ \A t \in Walked : keys[t] = <<>> /\ out[t] = <<>>
  => Balanced
<1> SUFFICES ASSUME step = 1, skipped = 0, \A t \in Walked : keys[t] = <<>> /\ out[t] = <<>>
             PROVE  Balanced
  OBVIOUS
<1>1. \A t \in Walked : RowsAt[t] = {} /\ LookedAt[t] = {}
  <2> TAKE t \in Walked
  <2>1. Done(t) \subseteq DOMAIN keys[t]
    BY DEF Done
  <2> QED
    BY <2>1, EmptyTypes DEF RowsAt, LookedAt, Looked
<1>2. Places(MyWalks, RowsAt) = {} /\ Places(MyWalks, LookedAt) = {}
  BY <1>1, MyWalksFacts DEF Places
<1>3. AsicSkips = 0
  BY DEF AsicSkips
<1>4. Cardinality({}) = 0
  BY FS_EmptySet
<1> QED
  BY <1>2, <1>3, <1>4 DEF Balanced

LEMMA SumStep ==
  ASSUME IInv, AccountInv, TypeOK', [Next]_vars
  PROVE  SumInv'
<1> USE DEF IInv, AccountInv
<1> DEFINE Quiet == collector \in {"thermal", "crm"} => changed = {}
<1>1. ASSUME UNCHANGED <<collector, changed, outcome>>, outcome = "running",
             outcome # "failed" /\ Quiet /\ Balanced => Balanced'
      PROVE  SumInv'
  BY <1>1 DEF SumInv
<1>2. ASSUME outcome' = "failed"
      PROVE  SumInv'
  BY <1>2 DEF SumInv
<1>3. ASSUME Balanced, UNCHANGED <<collector, skipped>>, AsicSkips \in Nat, AsicSkips' = AsicSkips,
             \A t \in Walked : out'[t] = out[t] /\ Looked(t)' = Looked(t)
      PROVE  Balanced'
  <2>1. /\ AsicSkips \in Nat /\ AsicSkips' = AsicSkips + 0
        /\ skipped' = skipped + 0 /\ UNCHANGED collector
    BY <1>3 DEF TypeOK
  <2>2. \A t \in Walked : DOMAIN out'[t] = DOMAIN out[t] /\ Looked(t)' = Looked(t)
    BY <1>3
  <2> QED
    BY <1>3, <2>1, <2>2, BalanceSame
<1>4. CASE ScanKeys \/ ListKeys
  <2>1. /\ step <= Len(Program[collector]) /\ Op \in {"scan", "list"} /\ outcome = "running"
        /\ \A t \in Walked : t # Table => keys'[t] = keys[t]
        /\ step' = step + 1 /\ NextStep
        /\ UNCHANGED <<db, collector, outcome, detail, out, skipped, changed>>
    BY <1>4, ListedKeys DEF NextStep
  <2>2. detail = 0
    BY <2>1 DEF PositionInv, AtWalk, TypeOK
  <2>3. \A t \in Walked : Looked(t)' = Looked(t)
    <3> TAKE t \in Walked
    <3>1. Done(t)' = Done(t) /\ (Done(t) # {} => keys'[t] = keys[t])
      BY <2>1, <2>2, DoneNext
    <3> QED
      BY <3>1, LookedSame
  <2>4. AsicSkips \in Nat /\ AsicSkips' = AsicSkips
    <3>1. AsicSkips \in Nat /\ AsicSkips' = AsicSkips + 0
      BY <2>1, AsicFacts
    <3> QED
      BY <3>1
  <2> QED
    BY <1>1, <1>3, <2>1, <2>3, <2>4
<1>5. CASE Pass \/ CutOne \/ Skip \/ FindGone
  BY <1>1, <1>5, PassOverEffect, WalkBalance
<1>6. CASE CutRest \/ EndOfKeys
  BY <1>1, <1>6, WalkEndsEffect, RestBalance
<1>7. CASE Export
  BY <1>1, <1>7, ExportEffect, ExportBalance
<1>8. CASE ReadDetail
  <2>1. /\ outcome = "running" /\ DetailAtHand \in AllDetails
        /\ UNCHANGED <<db, collector, step, outcome, keys, skipped, changed>>
    BY <1>8, ReadDetailEffect
  <2>2. \A t \in Walked : out'[t] = out[t] /\ Looked(t)' = Looked(t)
    <3> TAKE t \in Walked
    <3>1. out'[t] = out[t]
      BY <1>8, <2>1, ReadDetailEffect, TableFacts DEF ShapeInv
    <3>2. Done(t)' = Done(t)
      BY <1>8, DoneRead
    <3> QED
      BY <2>1, <3>1, <3>2, LookedSame
  <2>3. AsicSkips \in Nat /\ AsicSkips' = AsicSkips
    BY <2>1, AsicFacts
  <2> QED
    BY <1>1, <1>3, <2>1, <2>2, <2>3
<1>9. CASE ReadHash
  <2>1. /\ step <= Len(Program[collector]) /\ Op = "read" /\ outcome = "running"
        /\ Table \in Hashes /\ step' = step + 1 /\ NextStep
        /\ \E r \in Seq(Rows2) : out' = [out EXCEPT ![Table] = r]
        /\ UNCHANGED <<db, collector, outcome, keys, detail, changed>>
    BY <1>9, ReadHashEffect DEF NextStep
  <2>2. detail = 0
    BY <2>1 DEF PositionInv, AtWalk, TypeOK
  <2>3. \A t \in Walked : DOMAIN out'[t] = DOMAIN out[t] /\ Looked(t)' = Looked(t)
    <3> TAKE t \in Walked
    <3>1. out'[t] = out[t]
      BY <2>1, HashType, TableFacts
    <3>2. Done(t)' = Done(t)
      BY <2>1, <2>2, DoneNext
    <3> QED
      BY <2>1, <3>1, <3>2, LookedSame
  <2>4. AsicSkips \in Nat /\ AsicSkips' = AsicSkips + Cardinality(Unparsed(Table))
    BY <2>1, AsicFacts
  <2>5. Cardinality(Unparsed(Table)) \in Nat
    <3>1. Unparsed(Table) \subseteq Keys
      BY DEF Unparsed
    <3> QED
      BY <3>1, DatabasesAssumption, FS_Subset, FS_CardinalityType
  <2>6. PICK d \in Nat : d = Cardinality(Unparsed(Table))
    BY <2>5
  <2>7. skipped' = skipped + d
    BY <1>9, <2>6 DEF ReadHash
  <2>8. Balanced => Balanced'
    BY <2>1, <2>3, <2>4, <2>6, <2>7, BalanceSame
  <2> QED
    BY <1>1, <2>1, <2>8
<1>10. CASE Finish
  <2>1. /\ outcome = "running" /\ outcome' = "done" /\ step > Len(Program[collector])
        /\ UNCHANGED <<db, collector, step, keys, index, detail, out, skipped, changed>>
    BY <1>10, FinishEffect DEF Finish
  <2>2. AsicSkips \in Nat /\ AsicSkips' = AsicSkips
    BY <2>1, AsicFacts
  <2>3. \A t \in Walked : Looked(t)' = Looked(t)
    BY <2>1, DoneSame, LookedSame
  <2>4. Balanced => Balanced'
    BY <1>3, <2>1, <2>2, <2>3
  <2> QED
    BY <2>1, <2>4 DEF SumInv
<1>11. CASE Fail \/ Return
  <2>1. /\ step' = 1 /\ skipped' = 0
        /\ \A t \in Walked : keys'[t] = <<>> /\ out'[t] = <<>>
        /\ outcome' \in {"failed", "running"}
    BY <1>11, ClearEffect, TableFacts
  <2>2. Balanced'
    <3>1. (/\ step = 1 /\ skipped = 0
           /\ \A t \in Walked : keys[t] = <<>> /\ out[t] = <<>>
           => Balanced)'
      BY BalanceEmpty, PTL
    <3> QED
      BY <2>1, <3>1
  <2> QED
    BY <2>1, <2>2 DEF SumInv
<1>12. CASE FailInCollect
  BY <1>2, <1>12, FailInCollectEffect
<1>13. CASE \E u \in Mine, j \in Keys : Change(u, j)
  <2>1. PICK u \in Mine, j \in Keys : Change(u, j)
    BY <1>13
  <2>2. /\ changed' # {} /\ changed' = changed \cup {<<u, j>>}
        /\ UNCHANGED <<collector, step, outcome, keys, index, detail, out, skipped>>
    BY <2>1, ChangeEffect
  <2>3. \A t \in Walked : Looked(t)' = Looked(t)
    BY <2>2, DoneSame, LookedSame
  <2>4. collector # "thermal" => AsicSkips = 0 /\ AsicSkips' = 0
    <3>1. SUFFICES ASSUME collector # "thermal",
                          NEW i \in 1 .. step - 1, Program[collector][i] = Read("asic")
                   PROVE  FALSE
      BY <2>2 DEF AsicSkips
    <3>2. i \in DOMAIN Program[collector]
      BY StepFacts DEF TypeOK
    <3> QED
      BY <3>1, <3>2, OneReader, StepFacts DEF Read
  <2>5. ASSUME collector # "thermal", Balanced PROVE Balanced'
    BY <1>3, <2>2, <2>3, <2>4, <2>5
  <2> QED
    BY <2>2, <2>5 DEF SumInv
<1>14. CASE UNCHANGED vars
  <2>1. UNCHANGED <<db, collector, step, outcome, keys, index, detail, out, skipped, changed>>
    BY <1>14 DEF vars, outside, walk, result, history
  <2>2. AsicSkips \in Nat /\ AsicSkips' = AsicSkips
    BY <2>1, AsicFacts
  <2>3. \A t \in Walked : Looked(t)' = Looked(t)
    BY <2>1, DoneSame, LookedSame
  <2>4. Balanced => Balanced'
    BY <1>3, <2>1, <2>2, <2>3
  <2> QED
    BY <2>1, <2>4 DEF SumInv
<1> QED
  BY <1>4, <1>5, <1>6, <1>7, <1>8, <1>9, <1>10, <1>11, <1>12, <1>13, <1>14 DEF Next

LEMMA AccountingInvariance == Spec => []AccountInv
<1>1. Init => AccountInv
  <2> SUFFICES ASSUME Init PROVE AccountInv
    OBVIOUS
  <2>1. /\ step = 1 /\ skipped = 0 /\ outcome = "running" /\ window = WindowAt(1)
        /\ \A t \in Walked : keys[t] = <<>> /\ out[t] = <<>>
    BY TableFacts DEF Init, Fresh
  <2>2. SumInv
    BY <2>1, BalanceEmpty DEF SumInv
  <2>3. RestInv
    <3>1. ASSUME step <= Len(Program[collector]), Op = "scan"
          PROVE  window.ever = Present(Table)
      <4>1. 1 \in DOMAIN Program[collector] /\ Program[collector][1].op = "scan"
            /\ Table = Program[collector][1].table
        BY <2>1, <3>1, InitTypes, StepFacts DEF Op, Table
      <4> QED
        BY <2>1, <4>1 DEF WindowAt, Redis!Opened
    <3> QED
      BY <2>1, <3>1, EmptyTypes DEF RestInv
  <2> QED
    BY <2>2, <2>3 DEF AccountInv
<1>2. IInv /\ TypeOK' /\ AccountInv /\ [Next]_vars => AccountInv'
  BY RestStep, SumStep DEF AccountInv
<1>3. IInv => TypeOK
  BY DEF IInv
<1> QED
  BY <1>1, <1>2, <1>3, Invariance, PTL DEF Spec

\* At the end every table of the collector was walked.
LEMMA AllWalked ==
  ASSUME TypeOK, step > Len(Program[collector]), NEW t \in MyWalks
  PROVE  t \in Walked /\ IsWalked(t)
<1>1. IsProgram(Program[collector]) /\ DOMAIN Program[collector] = 1 .. Len(Program[collector])
      /\ step \in Nat /\ Len(Program[collector]) \in Nat
  BY StepFacts
<1>2. t \in Walked /\ t \in Mine
  BY DEF MyWalks
<1>3. PICK i \in DOMAIN Program[collector] : t = Program[collector][i].table
  <2>1. PICK u \in {Program[collector][i].table : i \in DOMAIN Program[collector]} :
          t \in {u, Source(u)} \cup ToSet(DetailsOf(u))
    BY <1>2 DEF Mine
  <2>2. u \in Tables
    <3>1. \A i \in DOMAIN Program[collector] : Program[collector][i] \in Instructions
      BY <1>1 DEF IsProgram
    <3>2. \A x \in Instructions : x.table \in Tables
      BY TableFacts DEF Instructions
    <3> QED
      BY <2>1, <3>1, <3>2
  <2>3. t \notin ToSet(DetailsOf(u))
    <3>1. ToSet(DetailsOf(u)) \subseteq AllDetails
      BY DEF DetailsOf, AllDetails, ToSet
    <3> QED
      BY <1>2, <3>1, TableFacts
  <2>4. Source(u) \in Walked => Source(u) = u
    BY TableFacts DEF Source, Hashes
  <2> QED
    BY <1>2, <2>1, <2>3, <2>4
<1>4. \E j \in DOMAIN Program[collector] : Program[collector][j] = Walk(t)
  <2>1. IsCommand(Program[collector][i])
    BY <1>1 DEF IsProgram
  <2>2. CASE Program[collector][i].op \in {"scan", "list"}
    BY <1>1, <1>3, <2>2 DEF IsProgram
  <2>3. CASE Program[collector][i].op \notin {"scan", "list"}
    <3> DEFINE x == Program[collector][i]
    <3>1. t = x.table /\ x.op \notin {"scan", "list"} /\ t \notin Hashes
      BY <1>2, <1>3, <2>3, TableFacts
    <3>2. \/ \E u \in Scanned : x = Scan(u)
          \/ \E u \in Listed : x = List(u)
          \/ \E u \in Walked : x = Walk(u)
          \/ \E u \in Hashes : x = Read(u)
      BY <2>1 DEF IsCommand
    <3> HIDE DEF x
    <3>3. x = Walk(t)
      BY <3>1, <3>2 DEF Scan, List, Walk, Read
    <3> QED
      BY <3>3 DEF x
  <2> QED
    BY <2>2, <2>3
<1> QED
  BY <1>1, <1>2, <1>4 DEF IsWalked

\* A walk that ended looked at every key.
LEMMA AllLooked ==
  ASSUME TypeOK, step > Len(Program[collector]), NEW t \in MyWalks
  PROVE  Looked(t) = ToCount(t)
BY AllWalked, DoneFacts DEF Looked, ToCount

\* When a scrape ends every key it was given is exported, counted as skipped or
\* no entry, and of the temperatures at rest those that are no numbers are counted.
THEOREM EveryKeyAccounted == Spec => []Accounted
<1>1. IInv /\ AccountInv => Accounted
  <2> SUFFICES ASSUME IInv, AccountInv, outcome = "done",
                      collector \in {"thermal", "crm"} => changed = {}
               PROVE  skipped + Cardinality(UNION {{t} \X DOMAIN out[t] : t \in MyWalks})
                        = Cardinality(UNION {{t} \X ToCount(t) : t \in MyWalks})
                          + (IF collector = "thermal" THEN Cardinality(Unparsed("asic")) ELSE 0)
    BY DEF Accounted
  <2> USE DEF IInv, AccountInv
  <2>1. step > Len(Program[collector]) /\ Balanced
    BY DEF SumInv
  <2>2. Places(MyWalks, RowsAt) = UNION {{t} \X DOMAIN out[t] : t \in MyWalks}
    <3>1. \A t \in MyWalks : RowsAt[t] = DOMAIN out[t]
      BY MyWalksFacts DEF RowsAt
    <3>2. {{t} \X RowsAt[t] : t \in MyWalks} = {{t} \X DOMAIN out[t] : t \in MyWalks}
      BY <3>1
    <3> QED
      BY <3>2 DEF Places
  <2>3. Places(MyWalks, LookedAt) = UNION {{t} \X ToCount(t) : t \in MyWalks}
    <3>1. \A t \in MyWalks : LookedAt[t] = ToCount(t)
      BY <2>1, MyWalksFacts, AllLooked DEF LookedAt
    <3>2. {{t} \X LookedAt[t] : t \in MyWalks} = {{t} \X ToCount(t) : t \in MyWalks}
      BY <3>1
    <3> QED
      BY <3>2 DEF Places
  <2>4. AsicSkips = IF collector = "thermal" THEN Cardinality(Unparsed("asic")) ELSE 0
    <3>1. 1 .. Len(Program[collector]) \subseteq 1 .. step - 1
          /\ DOMAIN Program[collector] = 1 .. Len(Program[collector])
      BY <2>1, StepFacts
    <3>2. CASE collector = "thermal"
      <4>1. 1 \in DOMAIN Program["thermal"] /\ Program["thermal"][1] = Read("asic")
        BY ThermalCommands
      <4> QED
        BY <3>1, <3>2, <4>1 DEF AsicSkips
    <3>3. CASE collector # "thermal"
      <4>1. ASSUME NEW i \in 1 .. step - 1, Program[collector][i] = Read("asic")
            PROVE  FALSE
        <5>1. step <= Len(Program[collector]) + 1 /\ collector \in DOMAIN Program
          BY StepFacts DEF TypeOK
        <5>2. i \in DOMAIN Program[collector]
          BY <3>1, <5>1, StepFacts
        <5> QED
          BY <3>3, <4>1, <5>1, <5>2, OneReader DEF Read
      <4> QED
        BY <3>3, <4>1 DEF AsicSkips
    <3> QED
      BY <3>2, <3>3
  <2> QED
    BY <2>1, <2>2, <2>3, <2>4 DEF Balanced
<1> QED
  BY <1>1, Invariance, AccountingInvariance, PTL

-----------------------------------------------------------------------------
(* Tables at rest.  QuietInv is inductive relative to IInv and AccountInv. *)

Quiet == changed = {} /\ ~repeated

Entries(t) == {k \in Keys : IsEntry(t, k)}
Seen(t)    == {keys[t][p] : p \in Done(t)}
RowKeys(t) == {out[t][i][1] : i \in DOMAIN out[t]}

\* The rows are the first ones of the keys looked at; as long as an entry finds
\* room, every entry looked at is one of the first.
ExactOf(t) ==
  /\ RowKeys(t) = FirstRows(t) \cap Seen(t)
  /\ t \in CountsEntries /\ Len(out[t]) < max[t] => Entries(t) \cap Seen(t) \subseteq FirstRows(t)

\* A key was looked at with the limit reached.
CutSoFar(t) ==
  /\ t \in Scanned
  /\ IF t \in CountsEntries
     THEN \E k \in Seen(t) : ~IsPassed(t, k) /\ Cardinality(Before(FirstRows(t), k)) >= max[t]
     ELSE IsWalked(t) /\ Cardinality(Present(t)) > max[t]

SortedInv ==
  \A t \in Scanned : \A i, j \in DOMAIN keys[t] : i < j => keys[t][i] < keys[t][j]

ExactInv == \A t \in Walked : ExactOf(t)

CutInv == truncated = IF \E t \in MyWalks : CutSoFar(t) THEN 1 ELSE 0

\* The walk stops one key beyond a limit on keys.
StopInv ==
  AtWalk /\ Table \in Scanned \ CountsEntries =>
    index <= IF detail > 0 THEN max[Table] ELSE max[Table] + 1

HashInv ==
  \A i \in 1 .. step - 1 :
    Program[collector][i].op = "read" =>
      LET t == Program[collector][i].table
      IN  ToSet(out[t]) = {<<k, db[t][k]>> : k \in Fields(t)}

QuietFacts == SortedInv /\ ExactInv /\ CutInv /\ StopInv /\ HashInv

QuietInv == Quiet /\ outcome # "failed" => QuietFacts

\* The first n values of f, and that they differ.
FirstOf(f, n) == {f[i] : i \in 1 .. n}
Differ(f, n)  == \A i, j \in 1 .. n : f[i] = f[j] => i = j

LEMMA ImageSize ==
  ASSUME NEW n \in Nat, NEW f, Differ(f, n)
  PROVE  IsFiniteSet(FirstOf(f, n)) /\ Cardinality(FirstOf(f, n)) = n
<1> DEFINE T == FirstOf(f, n)
           g == [i \in 1 .. n |-> f[i]]
<1>1. IsFiniteSet(1 .. n) /\ Cardinality(1 .. n) = n
  BY FS_Interval
<1>2. g \in Bijection(1 .. n, T)
  BY DEF Bijection, Injection, Surjection, IsInjective, FirstOf, Differ
<1>3. ExistsBijection(1 .. n, T)
  BY <1>2 DEF ExistsBijection
<1> HIDE DEF T, g
<1>4. IsFiniteSet(T) /\ Cardinality(T) = Cardinality(1 .. n)
  BY <1>1, <1>3, FS_Bijection
<1> QED
  BY <1>1, <1>4 DEF T

\* As many rows as keys.
LEMMA RowCount ==
  ASSUME NEW q, NEW X, q \in Seq(X), OncePerKey(q)
  PROVE  /\ IsFiniteSet({q[i][1] : i \in DOMAIN q})
         /\ Cardinality({q[i][1] : i \in DOMAIN q}) = Len(q)
<1> DEFINE f == [i \in DOMAIN q |-> q[i][1]]
<1>1. PICK n \in Nat : Len(q) = n /\ DOMAIN q = 1 .. n
  BY LenProperties
<1>2. Differ(f, n)
  BY <1>1 DEF OncePerKey, Differ
<1>3. {q[i][1] : i \in DOMAIN q} = FirstOf(f, n)
  BY <1>1 DEF FirstOf
<1> HIDE DEF f
<1>4. IsFiniteSet(FirstOf(f, n)) /\ Cardinality(FirstOf(f, n)) = n
  BY <1>2, ImageSize
<1> QED
  BY <1>1, <1>3, <1>4

\* The fields of a hash, in order, are all of them.
LEMMA AscendingAll ==
  ASSUME NEW S \in SUBSET Keys, NEW s \in Redis!Ascending(S)
  PROVE  ToSet(s) = S
<1>1. IsFiniteSet(S) /\ Cardinality(S) \in Nat
  BY DatabasesAssumption, FS_Subset, FS_CardinalityType
<1>2. s \in [1 .. Cardinality(S) -> S] /\ Injective(s)
  BY AscendingFacts, SameCardinality DEF Redis!Ascending
<1>3. s \in Injection(1 .. Cardinality(S), S)
  BY <1>2 DEF Injection, IsInjective, Injective
<1>4. Cardinality(1 .. Cardinality(S)) = Cardinality(S)
  BY <1>1, FS_Interval
<1>5. s \in Surjection(1 .. Cardinality(S), S)
  BY <1>1, <1>3, <1>4, FS_Injection
<1>6. \A k \in S : \E i \in 1 .. Cardinality(S) : s[i] = k
  BY <1>5 DEF Surjection
<1> QED
  BY <1>2, <1>6 DEF ToSet

LEMMA RankFacts ==
  ASSUME NEW t, NEW k
  PROVE  /\ FirstRows(t) = {j \in Entries(t) : t \in Scanned =>
                              Cardinality(Before(IF t \in CountsEntries THEN Entries(t)
                                                 ELSE Present(t), j)) < max[t]}
         /\ Entries(t) \subseteq Keys /\ Present(t) \subseteq Keys /\ FirstRows(t) \subseteq Entries(t)
         /\ IsFiniteSet(Before(Entries(t), k)) /\ Cardinality(Before(Entries(t), k)) \in Nat
         /\ IsFiniteSet(Before(Present(t), k)) /\ Cardinality(Before(Present(t), k)) \in Nat
         /\ IsFiniteSet(Before(FirstRows(t), k)) /\ Cardinality(Before(FirstRows(t), k)) \in Nat
         /\ IsFiniteSet(Present(t)) /\ Cardinality(Present(t)) \in Nat
         /\ t \in Scanned => Entries(t) \subseteq Present(t)
<1>1. FirstRows(t) = {j \in Entries(t) : t \in Scanned =>
                        Cardinality(Before(IF t \in CountsEntries THEN Entries(t)
                                           ELSE Present(t), j)) < max[t]}
  BY DEF FirstRows, Entries
<1>2. Entries(t) \subseteq Keys /\ Present(t) \subseteq Keys
  BY DEF Entries, Present
<1>3. FirstRows(t) \subseteq Entries(t)
  BY <1>1
<1>4. /\ Before(Entries(t), k) \subseteq Keys
      /\ Before(Present(t), k) \subseteq Keys
      /\ Before(FirstRows(t), k) \subseteq Keys
  BY <1>2, <1>3 DEF Before
<1>5. \A S \in SUBSET Keys : IsFiniteSet(S) /\ Cardinality(S) \in Nat
  BY DatabasesAssumption, FS_Subset, FS_CardinalityType
<1>6. t \in Scanned => Entries(t) \subseteq Present(t)
  BY TableFacts DEF Entries, Present, IsEntry
<1> QED
  BY <1>1, <1>2, <1>3, <1>4, <1>5, <1>6

\* At rest the slice of a table that is or was walked has what is there, in order.
LEMMA SliceIsTable ==
  ASSUME IInv, RestInv, Quiet, NEW t \in Walked, (AtWalk /\ Table = t) \/ IsWalked(t)
  PROVE  /\ Injective(keys[t])
         /\ \A p \in DOMAIN keys[t] : keys[t][p] \in Present(Source(t))
         /\ \A k \in Present(Source(t)) : \E p \in DOMAIN keys[t] : keys[t][p] = k
<1> USE DEF IInv
<1>1. PICK i \in DOMAIN Program[collector] : i <= step /\ Program[collector][i] = Walk(t)
  <2>1. CASE AtWalk /\ Table = t
    <3>1. step \in DOMAIN Program[collector] /\ IsCommand(Program[collector][step])
      BY <2>1, TableAtHand, StepFacts DEF AtWalk, IsProgram
    <3>2. Program[collector][step] = Walk(t)
      BY <2>1, <3>1 DEF AtWalk, Op, Table, IsCommand, Scan, List, Walk, Read
    <3> QED
      BY <3>1, <3>2, StepFacts
  <2>2. CASE IsWalked(t)
    <3>1. PICK i \in 1 .. step - 1 : Program[collector][i] = Walk(t)
      BY <2>2 DEF IsWalked
    <3>2. i \in DOMAIN Program[collector] /\ i <= step
      BY <3>1, StepFacts DEF TypeOK
    <3> QED
      BY <3>1, <3>2
  <2> QED
    BY <2>1, <2>2
<1>2. PICK j \in DOMAIN Program[collector] :
        j < i /\ Program[collector][j].op \in {"scan", "list"} /\ Program[collector][j].table = t
  BY <1>1, ListedBefore
<1>3. j \in 1 .. step - 1
  BY <1>1, <1>2, StepFacts
<1>4. \A k \in Present(Source(t)) : \E p \in DOMAIN keys[t] : keys[t][p] = k
  BY <1>2, <1>3 DEF KeysInv, IsStable, Quiet
<1>5. \A p \in DOMAIN keys[t] : keys[t][p] \in Present(Source(t))
  BY DEF RestInv, Quiet
<1>6. Injective(keys[t])
  <2>1. ~repeated
    BY Zenon DEF Quiet
  <2> QED
    BY <2>1 DEF KeysInv
<1> QED
  BY <1>4, <1>5, <1>6

-----------------------------------------------------------------------------
(* The key at hand.                                                        *)

\* In a sorted slice the keys before the one at hand are those less than it.
LEMMA KeyAtHand ==
  ASSUME IInv, RestInv, Quiet, SortedInv, AtWalk, detail = 0, NEW t \in Walked, t = Table,
         index <= Len(keys[t])
  PROVE  /\ Key \in Keys /\ Key \in Present(Source(t)) /\ Key \notin Seen(t)
         /\ index \in DOMAIN keys[t] /\ index \in Nat \ {0} /\ Key = keys[t][index]
         /\ Done(t) = 1 .. (index - 1)
         /\ t \in Scanned => \A k \in Present(t) : k \in Seen(t) <=> k < Key
         /\ t \in Scanned => Cardinality(Before(Present(t), Key)) = index - 1
<1> USE DEF IInv
<1>1. PICK n \in Nat : n = Len(keys[t]) /\ DOMAIN keys[t] = 1 .. n /\ keys[t] \in Seq(Keys)
  BY LenProperties DEF TypeOK
<1>2. index \in Nat \ {0} /\ index \in DOMAIN keys[t] /\ Key = keys[t][index] /\ Key \in Keys
  BY <1>1 DEF TypeOK, Key
<1>3. Done(t) = 1 .. (index - 1)
  <2>1. Done(t) = {p \in DOMAIN keys[t] : p < index}
    BY DEF Done
  <2> QED
    BY <1>1, <1>2, <2>1
<1>4. /\ Injective(keys[t])
      /\ \A p \in DOMAIN keys[t] : keys[t][p] \in Present(Source(t))
      /\ \A k \in Present(Source(t)) : \E p \in DOMAIN keys[t] : keys[t][p] = k
  BY SliceIsTable
<1>5. Key \in Present(Source(t))
  BY <1>2, <1>4
<1>6. Key \notin Seen(t)
  <2>1. ASSUME NEW p \in 1 .. (index - 1), keys[t][p] = Key PROVE FALSE
    <3>1. p \in DOMAIN keys[t] /\ p # index
      BY <1>1, <1>2
    <3> QED
      BY <1>2, <1>4, <2>1, <3>1 DEF Injective
  <2> QED
    BY <1>3, <2>1 DEF Seen
<1>7. ASSUME t \in Scanned
      PROVE  /\ \A k \in Present(t) : k \in Seen(t) <=> k < Key
             /\ Cardinality(Before(Present(t), Key)) = index - 1
  <2>1. Source(t) = t
    BY <1>7, TableFacts
  <2>2. \A i, j \in DOMAIN keys[t] : i < j => keys[t][i] < keys[t][j]
    BY <1>7 DEF SortedInv
  <2>3. ASSUME NEW k \in Present(t) PROVE k \in Seen(t) <=> k < Key
    <3>1. PICK p \in 1 .. n : keys[t][p] = k
      BY <1>1, <1>4, <2>1
    <3>2. k \in Nat /\ Key \in Nat
      BY <1>2, NamesAssumption DEF Present
    <3>3. CASE p < index
      <4>1. p \in 1 .. (index - 1) /\ k < Key
        BY <1>1, <1>2, <2>2, <3>1, <3>3
      <4> QED
        BY <1>3, <3>1, <4>1 DEF Seen
    <3>4. CASE p = index
      <4>1. k = Key
        BY <1>2, <3>1, <3>4
      <4> QED
        BY <1>6, <3>2, <4>1
    <3>5. CASE index < p
      <4>1. Key < k
        BY <1>1, <1>2, <2>2, <3>1, <3>5
      <4>2. k \notin Seen(t)
        <5>1. ASSUME NEW q \in 1 .. (index - 1), keys[t][q] = k PROVE FALSE
          <6>1. q \in DOMAIN keys[t] /\ p \in DOMAIN keys[t] /\ q # p
            BY <1>1, <1>2, <3>5
          <6> QED
            BY <1>4, <3>1, <5>1, <6>1 DEF Injective
        <5> QED
          BY <1>3, <5>1 DEF Seen
      <4>3. ~(k < Key)
        BY <3>2, <4>1
      <4> QED
        BY <4>2, <4>3
    <3> QED
      BY <1>2, <3>1, <3>3, <3>4, <3>5
  <2>4. Seen(t) \subseteq Present(t)
    BY <1>1, <1>2, <1>3, <1>4, <2>1 DEF Seen
  <2>5. Before(Present(t), Key) = Seen(t)
    BY <2>3, <2>4 DEF Before
  <2>6. PICK m \in Nat : m = index - 1
    BY <1>2
  <2>7. PICK f : f = keys[t]
    OBVIOUS
  <2>8. Seen(t) = FirstOf(f, m)
    BY <1>3, <2>6, <2>7 DEF Seen, FirstOf
  <2>9. Differ(f, m)
    BY <1>1, <1>2, <1>4, <2>6, <2>7 DEF Injective, Differ
  <2>10. Cardinality(FirstOf(f, m)) = m
    BY <2>9, ImageSize
  <2> QED
    BY <2>3, <2>5, <2>6, <2>8, <2>10
<1> QED
  BY <1>2, <1>3, <1>5, <1>6, <1>7

\* The key at hand is one of the first rows if and only if it is an entry and the
\* limit is not reached; what it finds before it is what was exported.
LEMMA NextIsFirst ==
  ASSUME IInv, RestInv, Quiet, SortedInv, ExactInv, AtWalk, detail = 0, NEW t \in Walked,
         t = Table, index <= Len(keys[t])
  PROVE  /\ Key \in FirstRows(t) <=> Key \in Entries(t) /\ ~AtLimit
         /\ t \in CountsEntries =>
              /\ Cardinality(Before(FirstRows(t), Key)) = Len(out[t])
              /\ AtLimit <=> Len(out[t]) >= max[t]
         /\ t \in Scanned \ CountsEntries => (AtLimit <=> index > max[t])
<1> USE DEF IInv
<1>1. /\ Key \in Keys /\ index \in Nat \ {0}
      /\ t \in Scanned => \A k \in Present(t) : k \in Seen(t) <=> k < Key
      /\ t \in Scanned => Cardinality(Before(Present(t), Key)) = index - 1
  BY KeyAtHand
<1>2. ExactOf(t)
  BY DEF ExactInv
<1>3. t \in Scanned => max[t] \in Nat \ {0}
  BY LimitsAssumption DEF TypeOK
<1>4. CASE t \notin Scanned
  BY <1>4, RankFacts DEF AtLimit, CountsEntries, Scanned
<1>5. CASE t \in Scanned \ CountsEntries
  <2>1. Key \in FirstRows(t) <=> Key \in Entries(t) /\ index - 1 < max[t]
    BY <1>1, <1>5, RankFacts
  <2>2. AtLimit <=> index > max[t]
    BY <1>5 DEF AtLimit
  <2>3. index - 1 < max[t] <=> ~(index > max[t])
    BY <1>1, <1>3, <1>5
  <2> QED
    BY <1>5, <2>1, <2>2, <2>3
<1>6. CASE t \in CountsEntries
  <2>1. t \in Scanned
    BY <1>6 DEF CountsEntries, Scanned
  <2>2. Before(FirstRows(t), Key) = RowKeys(t)
    <3>1. \A k \in FirstRows(t) : k \in Seen(t) <=> k < Key
      BY <1>1, <2>1, RankFacts
    <3> QED
      BY <1>2, <3>1 DEF ExactOf, Before
  <2>3. Cardinality(RowKeys(t)) = Len(out[t]) /\ Len(out[t]) \in Nat
    <3>1. OncePerKey(out[t])
      BY SliceIsTable DEF ExportInv, ExportOf
    <3>2. PICK q : q = out[t]
      OBVIOUS
    <3>3. q \in Seq(Rows2)
      BY <3>2, TableFacts DEF TypeOK, Rows2
    <3>4. Cardinality({q[i][1] : i \in DOMAIN q}) = Len(q) /\ Len(q) \in Nat
      BY <3>1, <3>2, <3>3, RowCount, LenProperties
    <3> QED
      BY <3>2, <3>4 DEF RowKeys
  <2>4. Before(Entries(t), Key) = Entries(t) \cap Seen(t)
    BY <1>1, <2>1, RankFacts DEF Before
  <2>5. RowKeys(t) \subseteq Before(Entries(t), Key)
    BY <1>2, <2>4, RankFacts DEF ExactOf
  <2>6. /\ IsFiniteSet(Before(Entries(t), Key)) /\ Cardinality(Before(Entries(t), Key)) \in Nat
        /\ Key \in FirstRows(t) <=> /\ Key \in Entries(t)
                                    /\ Cardinality(Before(Entries(t), Key)) < max[t]
    BY <1>6, <2>1, RankFacts
  <2>7. Len(out[t]) <= Cardinality(Before(Entries(t), Key))
    BY <2>3, <2>5, <2>6, FS_Subset
  <2>8. Len(out[t]) < max[t] => Before(Entries(t), Key) = RowKeys(t)
    BY <1>2, <1>6, <2>4, <2>5 DEF ExactOf
  <2>9. AtLimit <=> Len(out[t]) >= max[t]
    BY <1>6, <2>1 DEF AtLimit
  <2> DEFINE c == Cardinality(Before(Entries(t), Key))
             l == Len(out[t])
             m == max[t]
  <2>10. c \in Nat /\ l \in Nat /\ m \in Nat /\ l <= c /\ (l < m => c = l)
    BY <1>3, <2>1, <2>3, <2>6, <2>7, <2>8
  <2> HIDE DEF c, l, m
  <2>11. c < m <=> ~(l >= m)
    BY <2>10
  <2>12. Cardinality(Before(Entries(t), Key)) < max[t] <=> ~AtLimit
    BY <2>9, <2>11 DEF c, l, m
  <2> QED
    BY <1>6, <2>2, <2>3, <2>6, <2>9, <2>12
<1> QED
  BY <1>4, <1>5, <1>6 DEF CountsEntries, Scanned

-----------------------------------------------------------------------------
(* What a step leaves as it is.                                            *)

LEMMA SameTables ==
  ASSUME UNCHANGED <<db, collector, max>>, NEW t
  PROVE  /\ Entries(t)' = Entries(t) /\ Present(t)' = Present(t) /\ FirstRows(t)' = FirstRows(t)
         /\ Fields(t)' = Fields(t)
<1>1. Entries(t)' = Entries(t) /\ Present(t)' = Present(t)
  BY DEF Entries, Present, IsEntry
<1>2. FirstRows(t)' = FirstRows(t)
  BY <1>1 DEF FirstRows, Entries
<1>3. Fields(t)' = Fields(t)
  BY DEF Fields
<1> QED
  BY <1>1, <1>2, <1>3

LEMMA TableSame ==
  ASSUME UNCHANGED <<db, collector, max>>, NEW t \in Walked,
         Done(t)' = Done(t), Done(t) # {} => keys'[t] = keys[t], IsWalked(t)' <=> IsWalked(t)
  PROVE  /\ Seen(t)' = Seen(t)
         /\ CutSoFar(t)' <=> CutSoFar(t)
         /\ out'[t] = out[t] /\ ExactOf(t) => ExactOf(t)'
<1>1. Seen(t)' = Seen(t)
  <2>1. Seen(t)' = {keys'[t][p] : p \in Done(t)'}
    BY DEF Seen
  <2> QED
    BY <2>1 DEF Seen
<1>2. /\ Entries(t)' = Entries(t) /\ Present(t)' = Present(t) /\ FirstRows(t)' = FirstRows(t)
  BY SameTables
<1>3. CutSoFar(t)' <=> CutSoFar(t)
  BY <1>1, <1>2 DEF CutSoFar, Before
<1>4. ASSUME out'[t] = out[t], ExactOf(t) PROVE ExactOf(t)'
  <2>1. RowKeys(t)' = RowKeys(t)
    BY <1>4 DEF RowKeys
  <2> QED
    BY <1>1, <1>2, <1>4, <2>1 DEF ExactOf
<1> QED
  BY <1>1, <1>3, <1>4

LEMMA CutSame ==
  ASSUME UNCHANGED <<collector, truncated>>, CutInv, \A t \in Walked : CutSoFar(t)' <=> CutSoFar(t)
  PROVE  CutInv'
<1>1. MyWalks' = MyWalks /\ MyWalks \subseteq Walked
  BY MyWalksFacts
<1>2. (\E t \in MyWalks : CutSoFar(t)') <=> (\E t \in MyWalks : CutSoFar(t))
  BY <1>1
<1> QED
  BY <1>1, <1>2 DEF CutInv

LEMMA CutNow ==
  ASSUME UNCHANGED collector, truncated' = 1, NEW t \in MyWalks, CutSoFar(t)'
  PROVE  CutInv'
<1>1. MyWalks' = MyWalks
  BY MyWalksFacts
<1> QED
  BY <1>1 DEF CutInv

LEMMA StopNext ==
  ASSUME TypeOK', index' = 1, detail' = 0
  PROVE  StopInv'
<1> SUFFICES ASSUME AtWalk', Table' \in Scanned \ CountsEntries
             PROVE  1 <= max'[Table'] + 1
  BY DEF StopInv
<1>1. max'[Table'] \in Nat
  BY LimitsAssumption DEF TypeOK
<1> QED
  BY <1>1

\* Which tables a step ends the walk of.
LEMMA WalkedNext ==
  ASSUME TypeOK, UNCHANGED collector, NEW t
  PROVE  /\ step' = step => (IsWalked(t)' <=> IsWalked(t))
         /\ step <= Len(Program[collector]) /\ step' = step + 1 =>
              /\ ~(Op = "walk" /\ Table = t) => (IsWalked(t)' <=> IsWalked(t))
              /\ Op = "walk" /\ Table = t => IsWalked(t)'
<1>1. step' = step => (IsWalked(t)' <=> IsWalked(t))
  BY DEF IsWalked
<1>2. ASSUME step <= Len(Program[collector]), step' = step + 1
      PROVE  /\ ~(Op = "walk" /\ Table = t) => (IsWalked(t)' <=> IsWalked(t))
             /\ Op = "walk" /\ Table = t => IsWalked(t)'
  <2>1. step \in Nat \ {0} /\ step \in DOMAIN Program[collector]
        /\ IsCommand(Program[collector][step])
    BY <1>2, StepFacts, TableAtHand DEF IsProgram
  <2>2. 1 .. step' - 1 = (1 .. step - 1) \cup {step}
    BY <1>2, <2>1
  <2>3. Program[collector][step] = Walk(t) <=> Op = "walk" /\ Table = t
    <3>1. Program[collector][step] \in Instructions
      BY <2>1, StepFacts DEF IsProgram
    <3> QED
      BY <3>1 DEF Instructions, Walk, Op, Table
  <2> QED
    BY <2>2, <2>3 DEF IsWalked
<1> QED
  BY <1>1, <1>2

LEMMA HashSame ==
  ASSUME TypeOK, UNCHANGED <<db, collector, max>>, HashInv,
         \A t \in Hashes : out'[t] = out[t],
         \/ step' = step
         \/ step <= Len(Program[collector]) /\ step' = step + 1 /\ Op # "read"
  PROVE  HashInv'
<1> SUFFICES ASSUME NEW i \in 1 .. step' - 1, Program[collector][i].op = "read"
             PROVE  ToSet(out'[Program[collector][i].table])
                      = {<<k, db[Program[collector][i].table][k]>> :
                           k \in Fields(Program[collector][i].table)'}
  BY DEF HashInv
<1>1. PICK t : t = Program[collector][i].table
  OBVIOUS
<1>2. /\ IsProgram(Program[collector]) /\ step \in Nat \ {0} /\ Len(Program[collector]) \in Nat
      /\ DOMAIN Program[collector] = 1 .. Len(Program[collector])
      /\ step <= Len(Program[collector]) + 1
  BY StepFacts DEF TypeOK
<1>3. i \in 1 .. step - 1 /\ i \in DOMAIN Program[collector]
  BY <1>2 DEF Op
<1>4. t \in Hashes
  <2> DEFINE x == Program[collector][i]
  <2>1. IsCommand(x) /\ x.op = "read" /\ t = x.table
    BY <1>1, <1>2, <1>3 DEF IsProgram
  <2> HIDE DEF x
  <2>2. \/ \E u \in Scanned : x = Scan(u)
        \/ \E u \in Listed : x = List(u)
        \/ \E u \in Walked : x = Walk(u)
        \/ \E u \in Hashes : x = Read(u)
    BY <2>1 DEF IsCommand
  <2> QED
    BY <2>1, <2>2 DEF Scan, List, Walk, Read
<1>5. ToSet(out[t]) = {<<k, db[t][k]>> : k \in Fields(t)}
  BY <1>1, <1>3 DEF HashInv
<1>6. Fields(t)' = Fields(t)
  BY SameTables
<1> QED
  BY <1>1, <1>4, <1>5, <1>6

\* One table is touched, and it is counted as cut when the flag says so.
LEMMA TouchedTable ==
  ASSUME IInv, TypeOK', UNCHANGED <<db, collector, max, keys>>, QuietFacts, NEW t \in MyWalks,
         \A u \in Walked : u # t =>
           Done(u)' = Done(u) /\ out'[u] = out[u] /\ (IsWalked(u)' <=> IsWalked(u)),
         ExactOf(t)', StopInv', HashInv',
         \/ truncated' = truncated /\ (CutSoFar(t)' <=> CutSoFar(t))
         \/ truncated' = 1 /\ CutSoFar(t)'
  PROVE  QuietFacts'
<1> USE DEF QuietFacts
<1>1. t \in Walked
  BY MyWalksFacts
<1>2. ASSUME NEW u \in Walked, u # t PROVE ExactOf(u)' /\ (CutSoFar(u)' <=> CutSoFar(u))
  BY <1>2, TableSame DEF ExactInv
<1>3. ExactInv'
  BY <1>2 DEF ExactInv
<1>4. CutInv'
  BY <1>2, CutSame, CutNow
<1>5. SortedInv'
  BY DEF SortedInv
<1> QED
  BY <1>3, <1>4, <1>5

\* A step that looks at no key of a list.
LEMMA UntouchedTables ==
  ASSUME IInv, TypeOK', UNCHANGED <<db, collector, max, truncated>>, QuietFacts,
         \A u \in Walked : /\ Done(u)' = Done(u) /\ (Done(u) # {} => keys'[u] = keys[u])
                           /\ out'[u] = out[u] /\ (IsWalked(u)' <=> IsWalked(u)),
         SortedInv', StopInv', HashInv'
  PROVE  QuietFacts'
<1> USE DEF QuietFacts
<1>1. \A u \in Walked : ExactOf(u)' /\ (CutSoFar(u)' <=> CutSoFar(u))
  BY TableSame DEF ExactInv
<1>2. ExactInv'
  BY <1>1 DEF ExactInv
<1>3. CutInv'
  BY <1>1, CutSame
<1> QED
  BY <1>2, <1>3

LEMMA SeenGrows ==
  ASSUME IInv, RestInv, Quiet, SortedInv, AtWalk, detail = 0, NEW t \in Walked, t = Table,
         index <= Len(keys[t]), UNCHANGED <<collector, step, keys>>,
         \/ index' = index + 1 /\ detail' = 0
         \/ index' = index /\ detail' = 1
  PROVE  /\ Seen(t)' = Seen(t) \cup {Key}
         /\ \A u \in Walked : /\ u # t => Done(u)' = Done(u)
                              /\ IsWalked(u)' <=> IsWalked(u)
<1> USE DEF IInv
<1>1. /\ index \in DOMAIN keys[t] /\ index \in Nat \ {0} /\ Key = keys[t][index]
      /\ Done(t) = 1 .. (index - 1)
  BY KeyAtHand
<1>2. PICK n \in Nat : n = Len(keys[t]) /\ DOMAIN keys[t] = 1 .. n /\ keys[t] \in Seq(Keys)
  BY LenProperties DEF TypeOK
<1>3. Done(t)' = (1 .. (index - 1)) \cup {index}
  <2>1. Done(t)' = {p \in DOMAIN keys[t] : p < index' \/ (p = index' /\ detail' > 0)}
    BY DEF Done, AtWalk, Op, Table
  <2> QED
    BY <1>1, <1>2, <2>1
<1>4. Seen(t)' = Seen(t) \cup {Key}
  <2>1. Seen(t)' = {keys[t][p] : p \in Done(t)'}
    BY DEF Seen
  <2> QED
    BY <1>1, <1>3, <2>1 DEF Seen
<1>5. ASSUME NEW u \in Walked, u # t PROVE Done(u)' = Done(u)
  BY <1>5, DoneSame
<1>6. ASSUME NEW u \in Walked PROVE IsWalked(u)' <=> IsWalked(u)
  BY DEF IsWalked
<1> QED
  BY <1>4, <1>5, <1>6

\* A key is passed over, counted or cut.
LEMMA QuietPass ==
  ASSUME IInv, TypeOK', RestInv, Quiet, QuietFacts, Pass \/ CutOne \/ Skip \/ FindGone
  PROVE  QuietFacts'
<1> USE DEF IInv
<1>1. /\ AtWalk /\ detail = 0 /\ detail' = 0 /\ index <= Len(keys[Table]) /\ index' = index + 1
      /\ UNCHANGED <<db, collector, max, step, keys, out>>
  BY PassOverEffect DEF AtWalk
<1>2. PICK t : t = Table
  OBVIOUS
<1>3. t \in Walked /\ t \in MyWalks
  BY <1>1, <1>2, TableAtHand, AtHandIsMine DEF AtWalk
<1>4. SortedInv /\ ExactInv /\ CutInv /\ StopInv /\ HashInv
  BY DEF QuietFacts
<1>5. /\ Seen(t)' = Seen(t) \cup {Key}
      /\ \A u \in Walked : /\ u # t => Done(u)' = Done(u)
                           /\ IsWalked(u)' <=> IsWalked(u)
  BY <1>1, <1>2, <1>3, <1>4, SeenGrows
<1>6. /\ Key \in Keys /\ Key \in Present(Source(t)) /\ index \in Nat \ {0}
  BY <1>1, <1>2, <1>3, <1>4, KeyAtHand
<1>7. /\ Key \in FirstRows(t) <=> Key \in Entries(t) /\ ~AtLimit
      /\ t \in CountsEntries =>
           /\ Cardinality(Before(FirstRows(t), Key)) = Len(out[t])
           /\ AtLimit <=> Len(out[t]) >= max[t]
      /\ t \in Scanned \ CountsEntries => (AtLimit <=> index > max[t])
  BY <1>1, <1>2, <1>3, <1>4, NextIsFirst
<1>8. /\ Entries(t)' = Entries(t) /\ Present(t)' = Present(t) /\ FirstRows(t)' = FirstRows(t)
  BY <1>1, SameTables
<1>9. \/ Key \notin Entries(t)
      \/ AtLimit
  <2>1. CASE Pass
    BY <1>2, <2>1 DEF Pass, Entries, IsEntry
  <2>2. CASE CutOne
    BY <2>2 DEF CutOne
  <2>3. CASE Skip
    BY <1>2, <2>3 DEF Skip, Entries, IsEntry
  <2>4. CASE FindGone
    BY <1>2, <1>6, <2>4 DEF FindGone, Present, Source
  <2> QED
    BY <2>1, <2>2, <2>3, <2>4
<1>10. ExactOf(t)'
  <2>1. RowKeys(t)' = RowKeys(t)
    BY <1>1 DEF RowKeys
  <2>2. ExactOf(t)
    BY <1>3, <1>4 DEF ExactInv
  <2>3. RowKeys(t) = FirstRows(t) \cap (Seen(t) \cup {Key})
    BY <1>7, <1>9, <2>2 DEF ExactOf
  <2>4. ASSUME t \in CountsEntries, Len(out[t]) < max[t]
        PROVE  Entries(t) \cap (Seen(t) \cup {Key}) \subseteq FirstRows(t)
    <3>1. Key \in Entries(t) => Key \in FirstRows(t)
      <4>1. max[t] \in Nat /\ Len(out[t]) \in Nat
        <5>1. t \in Scanned
          BY <2>4 DEF CountsEntries, Scanned
        <5> QED
          BY <1>3, <5>1, LimitsAssumption, PositionsFinite DEF TypeOK
      <4>2. ~AtLimit
        BY <1>7, <2>4, <4>1
      <4> QED
        BY <1>7, <4>2
    <3> QED
      BY <2>2, <2>4, <3>1 DEF ExactOf
  <2> QED
    BY <1>1, <1>5, <1>8, <2>1, <2>3, <2>4 DEF ExactOf
<1>11. StopInv'
  <2> SUFFICES ASSUME AtWalk', Table' \in Scanned \ CountsEntries
               PROVE  index' <= max'[Table'] + 1
    BY <1>1 DEF StopInv
  <2>1. Table' = t /\ t \in Scanned \ CountsEntries
    BY <1>1, <1>2 DEF Table
  <2>2. Skip
    BY <1>2, <1>6, <2>1 DEF Pass, IsPassed, CutOne, FindGone, Scanned
  <2>3. ~AtLimit
    BY <2>2 DEF Skip
  <2>4. max[t] \in Nat
    BY <2>1, LimitsAssumption DEF TypeOK
  <2>5. index <= max[t]
    BY <1>6, <1>7, <2>1, <2>3, <2>4
  <2> QED
    BY <1>1, <1>6, <2>1, <2>4, <2>5
<1>12. HashInv'
  BY <1>1, <1>4, HashSame
<1>13. \/ truncated' = truncated /\ (CutSoFar(t)' <=> CutSoFar(t))
       \/ truncated' = 1 /\ CutSoFar(t)'
  <2>1. CutSoFar(t)' <=>
          /\ t \in Scanned
          /\ IF t \in CountsEntries
             THEN \E k \in Seen(t) \cup {Key} :
                    ~IsPassed(t, k) /\ Cardinality(Before(FirstRows(t), k)) >= max[t]
             ELSE IsWalked(t) /\ Cardinality(Present(t)) > max[t]
    BY <1>1, <1>3, <1>5, <1>8 DEF CutSoFar, Before
  <2>2. CASE Pass
    <3>1. IsPassed(t, Key) /\ truncated' = truncated
      BY <1>2, <2>2 DEF Pass, result
    <3> QED
      BY <2>1, <3>1 DEF CutSoFar
  <2>3. CASE CutOne
    <3>1. ~IsPassed(t, Key) /\ truncated' = 1 /\ AtLimit /\ t \in CountsEntries /\ t \in Scanned
      BY <1>2, <2>3 DEF CutOne, CountsEntries, Scanned
    <3>2. Cardinality(Before(FirstRows(t), Key)) >= max[t]
      BY <1>7, <3>1
    <3> QED
      BY <2>1, <3>1, <3>2
  <2>4. CASE Skip
    <3>1. ~AtLimit /\ truncated' = truncated
      BY <2>4 DEF Skip
    <3>2. t \in CountsEntries => ~(Cardinality(Before(FirstRows(t), Key)) >= max[t])
      BY <1>7, <3>1
    <3> QED
      BY <2>1, <3>1, <3>2 DEF CutSoFar
  <2>5. CASE FindGone
    BY <1>2, <1>6, <2>5 DEF FindGone, Present, Source
  <2> QED
    BY <2>2, <2>3, <2>4, <2>5
<1> QED
  BY <1>1, <1>3, <1>5, <1>10, <1>11, <1>12, <1>13, TouchedTable

LEMMA TableSize ==
  ASSUME IInv, RestInv, Quiet, NEW t \in Walked, (AtWalk /\ Table = t) \/ IsWalked(t)
  PROVE  /\ {keys[t][p] : p \in DOMAIN keys[t]} = Present(Source(t))
         /\ Cardinality(Present(Source(t))) = Len(keys[t]) /\ Len(keys[t]) \in Nat
<1>1. PICK n \in Nat : n = Len(keys[t]) /\ DOMAIN keys[t] = 1 .. n /\ keys[t] \in Seq(Keys)
  BY LenProperties DEF IInv, TypeOK
<1>2. /\ Injective(keys[t])
      /\ \A p \in DOMAIN keys[t] : keys[t][p] \in Present(Source(t))
      /\ \A k \in Present(Source(t)) : \E p \in DOMAIN keys[t] : keys[t][p] = k
  BY SliceIsTable
<1>3. {keys[t][p] : p \in DOMAIN keys[t]} = Present(Source(t))
  BY <1>2
<1>4. PICK f : f = keys[t]
  OBVIOUS
<1>5. {keys[t][p] : p \in DOMAIN keys[t]} = FirstOf(f, n)
  BY <1>1, <1>4 DEF FirstOf
<1>6. Differ(f, n)
  BY <1>1, <1>2, <1>4 DEF Injective, Differ
<1>7. Cardinality(FirstOf(f, n)) = n
  BY <1>6, ImageSize
<1> QED
  BY <1>1, <1>3, <1>5, <1>7

\* What is beyond the limit on keys is no first row.
LEMMA BeyondLimit ==
  ASSUME IInv, RestInv, Quiet, SortedInv, AtWalk, detail = 0, NEW t \in Scanned \ CountsEntries,
         t = Table, index <= Len(keys[t]), index > max[t], NEW k \in FirstRows(t)
  PROVE  k \in Seen(t)
<1> SUFFICES ASSUME k \notin Seen(t) PROVE FALSE
  OBVIOUS
<1>1. t \in Walked /\ max[t] \in Nat
  BY LimitsAssumption, TableFacts DEF IInv, TypeOK
<1>2. /\ k \in Present(t) /\ k \in Keys /\ Cardinality(Before(Present(t), k)) < max[t]
  BY RankFacts
<1>3. /\ Key \in Keys /\ index \in Nat \ {0} /\ ~(k < Key)
      /\ Cardinality(Before(Present(t), Key)) = index - 1
  BY <1>1, <1>2, KeyAtHand
<1>4. Keys \subseteq Nat
  BY NamesAssumption
<1>5. \A j \in Keys : j < Key => j < k
  BY <1>2, <1>3, <1>4
<1>6. Before(Present(t), Key) \subseteq Before(Present(t), k)
  BY <1>5, RankFacts DEF Before
<1>7. Cardinality(Before(Present(t), Key)) <= Cardinality(Before(Present(t), k))
  BY <1>6, RankFacts, FS_Subset
<1> DEFINE c == Cardinality(Before(Present(t), k))
           d == Cardinality(Before(Present(t), Key))
           m == max[t]
<1>8. c \in Nat /\ d \in Nat /\ m \in Nat /\ d <= c /\ c < m /\ d = index - 1 /\ index > m
  BY <1>1, <1>2, <1>3, <1>7, RankFacts
<1> HIDE DEF c, d, m
<1> QED
  BY <1>3, <1>8

\* The walk ends, at the last key or at the limit.
LEMMA QuietRest ==
  ASSUME IInv, TypeOK', RestInv, Quiet, QuietFacts, CutRest \/ EndOfKeys
  PROVE  QuietFacts'
<1> USE DEF IInv
<1>1. /\ AtWalk /\ step <= Len(Program[collector]) /\ Op = "walk" /\ detail = 0 /\ detail' = 0
      /\ NextStep /\ step' = step + 1 /\ index' = 1
      /\ UNCHANGED <<db, collector, max, keys, out>>
  BY WalkEndsEffect DEF AtWalk, NextStep
<1>2. PICK t : t = Table
  OBVIOUS
<1>3. t \in Walked /\ t \in MyWalks
  BY <1>1, <1>2, TableAtHand, AtHandIsMine
<1>4. SortedInv /\ ExactInv /\ CutInv /\ StopInv /\ HashInv
  BY DEF QuietFacts
<1>5. ASSUME NEW u \in Walked, u # t PROVE Done(u)' = Done(u) /\ (IsWalked(u)' <=> IsWalked(u))
  BY <1>1, <1>2, <1>5, DoneNext, WalkedNext
<1>6. IsWalked(t)' /\ ~IsWalked(t) /\ Done(t)' = DOMAIN keys[t]
  BY <1>1, <1>2, <1>3, DoneNext, WalkedNext, DoneFacts
<1>7. /\ {keys[t][p] : p \in DOMAIN keys[t]} = Present(Source(t))
      /\ Cardinality(Present(Source(t))) = Len(keys[t]) /\ Len(keys[t]) \in Nat
  BY <1>1, <1>2, <1>3, TableSize
<1>8. Seen(t)' = Present(Source(t))
  <2>1. Seen(t)' = {keys[t][p] : p \in Done(t)'}
    BY <1>1 DEF Seen
  <2> QED
    BY <1>6, <1>7, <2>1
<1>9. Entries(t)' = Entries(t) /\ Present(t)' = Present(t) /\ FirstRows(t)' = FirstRows(t)
  BY <1>1, SameTables
<1>10. StopInv' /\ HashInv'
  BY <1>1, <1>4, StopNext, HashSame
<1>11. RowKeys(t)' = RowKeys(t) /\ ExactOf(t) /\ index \in Nat \ {0}
  BY <1>1, <1>3, <1>4 DEF RowKeys, ExactInv, TypeOK
<1>12. t \in Scanned => Source(t) = t /\ max[t] \in Nat
  BY TableFacts, LimitsAssumption DEF TypeOK
<1>13. CASE EndOfKeys
  <2>1. index > Len(keys[t]) /\ truncated' = truncated
    BY <1>2, <1>13 DEF EndOfKeys, result
  <2>2. Done(t) = DOMAIN keys[t]
    <3>1. PICK n \in Nat : n = Len(keys[t]) /\ DOMAIN keys[t] = 1 .. n
      BY <1>3, LenProperties DEF TypeOK
    <3>2. Done(t) = {p \in DOMAIN keys[t] : p < index \/ (p = index /\ detail > 0)}
      BY <1>1, <1>2, <1>3, DoneFacts
    <3> QED
      BY <1>11, <2>1, <3>1, <3>2
  <2>3. Seen(t)' = Seen(t)
    BY <1>7, <1>8, <2>2 DEF Seen
  <2>4. ExactOf(t)'
    BY <1>1, <1>9, <1>11, <2>3 DEF ExactOf
  <2>5. t \in Scanned \ CountsEntries => ~(Cardinality(Present(t)) > max[t])
    <3> SUFFICES ASSUME t \in Scanned \ CountsEntries PROVE ~(Cardinality(Present(t)) > max[t])
      OBVIOUS
    <3>1. index <= max[t] + 1
      BY <1>1, <1>2, <1>4 DEF StopInv
    <3>2. Cardinality(Present(t)) = Len(keys[t])
      BY <1>7, <1>12
    <3> QED
      BY <1>7, <1>11, <1>12, <2>1, <3>1, <3>2
  <2>6. CutSoFar(t)' <=> CutSoFar(t)
    <3>1. CutSoFar(t)' <=>
            /\ t \in Scanned
            /\ IF t \in CountsEntries
               THEN \E k \in Seen(t) :
                      ~IsPassed(t, k) /\ Cardinality(Before(FirstRows(t), k)) >= max[t]
               ELSE Cardinality(Present(t)) > max[t]
      BY <1>1, <1>6, <1>9, <2>3 DEF CutSoFar, Before
    <3> QED
      BY <1>6, <2>5, <3>1 DEF CutSoFar
  <2> QED
    BY <1>1, <1>3, <1>5, <1>10, <2>1, <2>4, <2>6, TouchedTable
<1>14. CASE CutRest
  <2>1. /\ t \in Scanned \ CountsEntries /\ AtLimit /\ truncated' = 1 /\ index <= Len(keys[t])
        /\ index > max[t]
    BY <1>2, <1>14 DEF CutRest, Visit, AtLimit
  <2>2. Seen(t) \subseteq Seen(t)' /\ Seen(t)' = Present(t)
    BY <1>3, <1>7, <1>8, <1>12, <2>1, DoneFacts DEF Seen
  <2>3. FirstRows(t) \cap Seen(t)' = FirstRows(t) \cap Seen(t)
    BY <1>1, <1>2, <1>4, <2>1, <2>2, BeyondLimit
  <2>4. ExactOf(t)'
    BY <1>1, <1>9, <1>11, <2>1, <2>3 DEF ExactOf
  <2>5. Cardinality(Present(t)) > max[t]
    <3>1. Cardinality(Present(t)) = Len(keys[t])
      BY <1>7, <1>12, <2>1
    <3> QED
      BY <1>7, <1>11, <1>12, <2>1, <3>1
  <2>6. CutSoFar(t)'
    BY <1>1, <1>6, <1>9, <2>1, <2>5 DEF CutSoFar
  <2> QED
    BY <1>1, <1>3, <1>5, <1>10, <2>1, <2>4, <2>6, TouchedTable
<1> QED
  BY <1>13, <1>14

\* An entry that finds room is exported.
LEMMA QuietExport ==
  ASSUME IInv, TypeOK', RestInv, Quiet, QuietFacts, Export
  PROVE  QuietFacts'
<1> USE DEF IInv
<1>1. /\ AtWalk /\ detail = 0 /\ index <= Len(keys[Table])
      /\ \/ detail' = 1 /\ index' = index
         \/ detail' = 0 /\ index' = index + 1
      /\ UNCHANGED <<db, collector, max, step, keys, truncated>>
  BY ExportEffect DEF AtWalk
<1>2. PICK t : t = Table
  OBVIOUS
<1>3. t \in Walked /\ t \in MyWalks /\ t \in Tables
  BY <1>1, <1>2, TableAtHand, AtHandIsMine, TableFacts DEF AtWalk
<1>4. SortedInv /\ ExactInv /\ CutInv /\ StopInv /\ HashInv
  BY DEF QuietFacts
<1>5. /\ Seen(t)' = Seen(t) \cup {Key}
      /\ \A u \in Walked : /\ u # t => Done(u)' = Done(u)
                           /\ IsWalked(u)' <=> IsWalked(u)
  BY <1>1, <1>2, <1>3, <1>4, SeenGrows
<1>6. Key \in Keys /\ Key \in Present(Source(t)) /\ index \in Nat \ {0}
  BY <1>1, <1>2, <1>3, <1>4, KeyAtHand
<1>7. /\ Key \in FirstRows(t) <=> Key \in Entries(t) /\ ~AtLimit
      /\ t \in CountsEntries =>
           /\ Cardinality(Before(FirstRows(t), Key)) = Len(out[t])
           /\ AtLimit <=> Len(out[t]) >= max[t]
      /\ t \in Scanned \ CountsEntries => (AtLimit <=> index > max[t])
  BY <1>1, <1>2, <1>3, <1>4, NextIsFirst
<1>8. Entries(t)' = Entries(t) /\ Present(t)' = Present(t) /\ FirstRows(t)' = FirstRows(t)
  BY <1>1, SameTables
<1>9. ~AtLimit /\ Key \in FirstRows(t)
  <2>1. ~AtLimit /\ Key \notin Malformed[t] /\ ~IsPassed(t, Key) /\ ~IsEmpty(t, db[t][Key])
    BY <1>2 DEF Export
  <2>2. Key \in Entries(t)
    BY <1>6, <2>1 DEF Entries, IsEntry, Present
  <2> QED
    BY <1>7, <2>1, <2>2
<1>10. PICK r \in Rows2 : r[1] = Key /\ out' = [out EXCEPT ![t] = Append(@, r)]
  <2>1. /\ out' = [out EXCEPT ![Table] = Append(@, <<Key, Label(Table, db[Table][Key])>>)]
        /\ <<Key, Label(Table, db[Table][Key])>> \in Rows2
    BY ExportEffect
  <2> QED
    BY <1>2, <2>1
<1>11. /\ \A u \in Tables : u # t => out'[u] = out[u]
       /\ Len(out[t]) \in Nat /\ DOMAIN out[t] = 1 .. Len(out[t])
       /\ Len(out'[t]) = Len(out[t]) + 1 /\ DOMAIN out'[t] = 1 .. Len(out[t]) + 1
       /\ \A i \in DOMAIN out[t] : out'[t][i] = out[t][i]
       /\ out'[t][Len(out[t]) + 1] = r
  BY <1>3, <1>10, AppendType
<1>12. RowKeys(t)' = RowKeys(t) \cup {Key}
  <2>1. RowKeys(t)' = {out'[t][i][1] : i \in DOMAIN out'[t]}
    BY DEF RowKeys
  <2>2. DOMAIN out'[t] = DOMAIN out[t] \cup {Len(out[t]) + 1}
    BY <1>11
  <2>3. \A i \in DOMAIN out[t] : out'[t][i][1] = out[t][i][1]
    BY <1>11
  <2>4. out'[t][Len(out[t]) + 1][1] = Key
    BY <1>10, <1>11
  <2> QED
    BY <2>1, <2>2, <2>3, <2>4 DEF RowKeys
<1>13. ExactOf(t)'
  <2>1. ExactOf(t)
    BY <1>3, <1>4 DEF ExactInv
  <2>2. RowKeys(t)' = FirstRows(t) \cap (Seen(t) \cup {Key})
    BY <1>9, <1>12, <2>1 DEF ExactOf
  <2>3. ASSUME t \in CountsEntries, Len(out'[t]) < max[t]
        PROVE  Entries(t) \cap (Seen(t) \cup {Key}) \subseteq FirstRows(t)
    <3>1. max[t] \in Nat
      BY <2>3, LimitsAssumption DEF TypeOK, CountsEntries, Scanned
    <3>2. Len(out[t]) < max[t]
      BY <1>11, <2>3, <3>1
    <3> QED
      BY <1>9, <2>1, <2>3, <3>2 DEF ExactOf
  <2> QED
    BY <1>1, <1>5, <1>8, <2>2, <2>3 DEF ExactOf
<1>14. StopInv'
  <2> SUFFICES ASSUME AtWalk', Table' \in Scanned \ CountsEntries
               PROVE  index' <= IF detail' > 0 THEN max'[Table'] ELSE max'[Table'] + 1
    BY DEF StopInv
  <2>1. Table' = t /\ t \in Scanned \ CountsEntries
    BY <1>1, <1>2 DEF Table
  <2>2. max[t] \in Nat
    BY <2>1, LimitsAssumption DEF TypeOK
  <2>3. index <= max[t]
    BY <1>6, <1>7, <1>9, <2>1, <2>2
  <2> QED
    BY <1>1, <1>6, <2>1, <2>2, <2>3
<1>15. HashInv'
  <2>1. \A u \in Hashes : out'[u] = out[u]
    BY <1>3, <1>11, TableFacts
  <2> QED
    BY <1>1, <1>4, <2>1, HashSame
<1>16. CutSoFar(t)' <=> CutSoFar(t)
  <2>1. CutSoFar(t)' <=>
          /\ t \in Scanned
          /\ IF t \in CountsEntries
             THEN \E k \in Seen(t) \cup {Key} :
                    ~IsPassed(t, k) /\ Cardinality(Before(FirstRows(t), k)) >= max[t]
             ELSE IsWalked(t) /\ Cardinality(Present(t)) > max[t]
    BY <1>1, <1>3, <1>5, <1>8 DEF CutSoFar, Before
  <2>2. t \in CountsEntries => ~(Cardinality(Before(FirstRows(t), Key)) >= max[t])
    BY <1>7, <1>9
  <2> QED
    BY <2>1, <2>2 DEF CutSoFar
<1> QED
  BY <1>1, <1>3, <1>5, <1>11, <1>13, <1>14, <1>15, <1>16, TableFacts, TouchedTable

\* The hashes of a row are no lists and no single hashes.
LEMMA QuietDetail ==
  ASSUME IInv, TypeOK', RestInv, Quiet, QuietFacts, ReadDetail
  PROVE  QuietFacts'
<1> USE DEF IInv
<1>1. /\ AtWalk /\ detail > 0 /\ index \in Nat \ {0} /\ DetailAtHand \in AllDetails
      /\ \/ detail' = detail + 1 /\ index' = index
         \/ detail' = 0 /\ index' = index + 1
      /\ UNCHANGED <<db, collector, max, step, keys, truncated>>
  BY ReadDetailEffect DEF AtWalk, ReadDetail, TypeOK
<1>2. \A u \in Walked \cup Hashes : out'[u] = out[u]
  <2>1. \E r : out' = [out EXCEPT ![DetailAtHand] = r] \/ out' = out
    BY ReadDetailEffect
  <2>2. out = [t \in Tables |-> out[t]]
    BY DEF ShapeInv
  <2> QED
    BY <1>1, <2>1, <2>2, TableFacts
<1>3. SortedInv /\ ExactInv /\ CutInv /\ StopInv /\ HashInv
  BY DEF QuietFacts
<1>4. \A u \in Walked : Done(u)' = Done(u) /\ (IsWalked(u)' <=> IsWalked(u))
  BY <1>1, DoneRead, WalkedNext
<1>5. StopInv'
  <2> SUFFICES ASSUME AtWalk', Table' \in Scanned \ CountsEntries
               PROVE  index' <= IF detail' > 0 THEN max'[Table'] ELSE max'[Table'] + 1
    BY DEF StopInv
  <2>1. Table' = Table /\ Table \in Scanned \ CountsEntries
    BY <1>1 DEF Table
  <2>2. max[Table] \in Nat
    BY <2>1, LimitsAssumption DEF TypeOK
  <2>3. index <= max[Table]
    BY <1>1, <1>3, <2>1 DEF StopInv
  <2> QED
    BY <1>1, <2>1, <2>2, <2>3
<1>6. HashInv'
  BY <1>1, <1>2, <1>3, HashSame
<1>7. SortedInv'
  BY <1>1, <1>3 DEF SortedInv
<1> QED
  BY <1>1, <1>2, <1>4, <1>5, <1>6, <1>7, UntouchedTables

\* A single hash gives its fields.
LEMMA QuietHash ==
  ASSUME IInv, TypeOK', RestInv, Quiet, QuietFacts, ReadHash
  PROVE  QuietFacts'
<1> USE DEF IInv
<1>1. /\ step <= Len(Program[collector]) /\ Op = "read" /\ Table \in Hashes
      /\ NextStep /\ step' = step + 1 /\ index' = 1 /\ step \in Nat \ {0}
      /\ UNCHANGED <<db, collector, max, keys, detail, truncated>>
  BY ReadHashEffect, StepFacts DEF NextStep
<1>2. PICK t \in Hashes : t = Table
  BY <1>1
<1>3. detail = 0
  BY <1>1 DEF PositionInv, AtWalk, TypeOK
<1>4. SortedInv /\ ExactInv /\ CutInv /\ StopInv /\ HashInv
  BY DEF QuietFacts
<1>5. PICK s \in Redis!Ascending(Fields(t)) :
        out' = [out EXCEPT ![t] = [i \in DOMAIN s |-> <<s[i], db[t][s[i]]>>]]
  BY <1>2 DEF ReadHash
<1>6. /\ \A u \in Tables : u # t => out'[u] = out[u]
      /\ out'[t] = [i \in DOMAIN s |-> <<s[i], db[t][s[i]]>>]
  <2>1. out = [u \in Tables |-> out[u]] /\ t \in Tables
    BY TableFacts DEF ShapeInv
  <2> QED
    BY <1>5, <2>1
<1>7. ToSet(out'[t]) = {<<k, db[t][k]>> : k \in Fields(t)}
  <2>1. Fields(t) \in SUBSET Keys
    BY DEF Fields
  <2>2. ToSet(s) = Fields(t)
    BY <2>1, AscendingAll
  <2>3. ToSet(out'[t]) = {<<s[i], db[t][s[i]]>> : i \in DOMAIN s}
    BY <1>6 DEF ToSet
  <2> QED
    BY <2>2, <2>3 DEF ToSet
<1>8. HashInv'
  <2> SUFFICES ASSUME NEW i \in 1 .. step' - 1, Program[collector][i].op = "read"
               PROVE  ToSet(out'[Program[collector][i].table])
                        = {<<k, db[Program[collector][i].table][k]>> :
                             k \in Fields(Program[collector][i].table)'}
    BY <1>1 DEF HashInv
  <2>1. i \in 1 .. step - 1 \/ i = step
    BY <1>1
  <2>2. PICK u : u = Program[collector][i].table
    OBVIOUS
  <2>3. CASE i = step
    <3>1. u = t
      BY <1>2, <2>2, <2>3 DEF Table
    <3>2. Fields(u)' = Fields(u)
      BY <1>1, SameTables
    <3> QED
      BY <1>1, <1>7, <2>2, <3>1, <3>2
  <2>4. CASE i \in 1 .. step - 1
    <3>1. /\ i \in DOMAIN Program[collector] /\ i # step /\ collector \in DOMAIN Program
          /\ IsCommand(Program[collector][i])
      BY <1>1, <2>4, StepFacts DEF IsProgram
    <3>2. u # t
      BY <1>1, <1>2, <2>2, <3>1, OnlyHere
    <3>3. u \in Tables
      BY <2>2, <3>1, WalkOfTable, TableFacts
    <3>4. ToSet(out[u]) = {<<k, db[u][k]>> : k \in Fields(u)}
      BY <1>4, <2>2, <2>4 DEF HashInv
    <3>5. out'[u] = out[u]
      BY <1>6, <3>2, <3>3
    <3>6. Fields(u)' = Fields(u)
      BY <1>1, SameTables
    <3> QED
      BY <1>1, <2>2, <3>4, <3>5, <3>6
  <2> QED
    BY <2>1, <2>3, <2>4
<1>9. \A u \in Walked : /\ Done(u)' = Done(u) /\ keys'[u] = keys[u]
                        /\ out'[u] = out[u] /\ (IsWalked(u)' <=> IsWalked(u))
  <2> SUFFICES ASSUME NEW u \in Walked
               PROVE  /\ Done(u)' = Done(u) /\ keys'[u] = keys[u]
                      /\ out'[u] = out[u] /\ (IsWalked(u)' <=> IsWalked(u))
    OBVIOUS
  <2>1. Done(u)' = Done(u)
    BY <1>1, <1>3, DoneNext
  <2>2. IsWalked(u)' <=> IsWalked(u)
    BY <1>1, WalkedNext
  <2> QED
    BY <1>1, <1>6, <2>1, <2>2, TableFacts
<1>10. StopInv'
  BY <1>1, <1>3, StopNext
<1>11. SortedInv'
  BY <1>1, <1>4 DEF SortedInv
<1> QED
  BY <1>1, <1>8, <1>9, <1>10, <1>11, UntouchedTables

\* A list was read: it is in order, and nothing of it was looked at.
LEMMA QuietList ==
  ASSUME IInv, TypeOK', Quiet', QuietFacts, ScanKeys \/ ListKeys
  PROVE  QuietFacts'
<1> USE DEF IInv
<1>1. /\ step <= Len(Program[collector]) /\ Op \in {"scan", "list"} /\ Table \in Walked
      /\ \A t \in Walked : t # Table => keys'[t] = keys[t]
      /\ NextStep /\ step' = step + 1 /\ index' = 1
      /\ UNCHANGED <<db, collector, max, out, detail, truncated>>
  BY ListedKeys DEF NextStep
<1>2. detail = 0
  BY <1>1 DEF PositionInv, AtWalk, TypeOK
<1>3. SortedInv /\ ExactInv /\ CutInv /\ StopInv /\ HashInv
  BY DEF QuietFacts
<1>4. Injective(keys'[Table])
  <2>1. ~repeated'
    BY Zenon DEF Quiet
  <2> QED
    BY <2>1, ListedKeys
<1>5. SortedInv'
  <2> SUFFICES ASSUME NEW t \in Scanned, NEW i \in DOMAIN keys'[t], NEW j \in DOMAIN keys'[t], i < j
               PROVE  keys'[t][i] < keys'[t][j]
    BY DEF SortedInv
  <2>1. t \in Walked
    BY TableFacts
  <2>2. CASE t # Table
    BY <1>1, <1>3, <2>1, <2>2 DEF SortedInv
  <2>3. CASE t = Table
    <3>1. ScanKeys
      BY <1>1, <2>3, TableAtHand DEF ListKeys, Running, Scanned, Listed
    <3>2. PICK s \in Redis!SortedLists(window) : keys' = [keys EXCEPT ![Table] = s]
      BY <3>1 DEF ScanKeys
    <3>3. keys'[t] = s
      <4>1. keys = [u \in Walked |-> keys[u]]
        BY DEF ShapeInv
      <4> QED
        BY <2>1, <2>3, <3>2, <4>1
    <3>4. \A a, b \in DOMAIN s : a <= b => s[a] <= s[b]
      BY DEF Redis!SortedLists
    <3>5. s \in Seq(Keys)
      BY ScanFacts DEF TypeOK
    <3>6. i \in DOMAIN s /\ j \in DOMAIN s /\ i # j /\ i <= j /\ s[i] \in Nat /\ s[j] \in Nat
      <4>1. PICK n \in Nat : DOMAIN s = 1 .. n
        BY <3>5, LenProperties
      <4>2. i \in 1 .. n /\ j \in 1 .. n /\ s[i] \in Keys /\ s[j] \in Keys
        BY <3>3, <3>5, <4>1
      <4>3. i # j /\ i <= j
        BY <4>2
      <4> QED
        BY <4>1, <4>2, <4>3, NamesAssumption
    <3>7. s[i] # s[j]
      BY <1>4, <2>3, <3>3, <3>6 DEF Injective
    <3>8. s[i] <= s[j]
      BY <3>4, <3>6
    <3> QED
      BY <3>3, <3>6, <3>7, <3>8
  <2> QED
    BY <2>2, <2>3
<1>6. \A u \in Walked : /\ Done(u)' = Done(u) /\ (Done(u) # {} => keys'[u] = keys[u])
                        /\ out'[u] = out[u] /\ (IsWalked(u)' <=> IsWalked(u))
  <2> SUFFICES ASSUME NEW u \in Walked
               PROVE  /\ Done(u)' = Done(u) /\ (Done(u) # {} => keys'[u] = keys[u])
                      /\ out'[u] = out[u] /\ (IsWalked(u)' <=> IsWalked(u))
    OBVIOUS
  <2>1. Done(u)' = Done(u) /\ (Done(u) # {} => keys'[u] = keys[u])
    BY <1>1, <1>2, DoneNext
  <2>2. IsWalked(u)' <=> IsWalked(u)
    BY <1>1, WalkedNext
  <2> QED
    BY <1>1, <2>1, <2>2
<1>7. StopInv'
  BY <1>1, <1>2, StopNext
<1>8. HashInv'
  BY <1>1, <1>3, HashSame
<1> QED
  BY <1>1, <1>5, <1>6, <1>7, <1>8, UntouchedTables

\* Nothing was read yet.
LEMMA QuietEmpty ==
  /\ TypeOK /\ step = 1 /\ index = 1 /\ detail = 0 /\ truncated = 0
  /\ \A t \in Walked : keys[t] = <<>> /\ out[t] = <<>>
  => QuietFacts
<1> SUFFICES ASSUME TypeOK, step = 1, index = 1, detail = 0, truncated = 0,
                    \A t \in Walked : keys[t] = <<>> /\ out[t] = <<>>
             PROVE  QuietFacts
  OBVIOUS
<1>1. \A t \in Walked : DOMAIN keys[t] = {} /\ DOMAIN out[t] = {}
  OBVIOUS
<1>2. ASSUME NEW t \in Walked PROVE Seen(t) = {} /\ ~IsWalked(t) /\ RowKeys(t) = {}
  <2>1. Done(t) = {}
    BY <1>1, DoneFacts
  <2>2. ~IsWalked(t)
    BY DEF IsWalked
  <2> QED
    BY <1>1, <2>1, <2>2 DEF Seen, RowKeys
<1>3. ExactInv
  BY <1>2 DEF ExactInv, ExactOf
<1>4. CutInv
  BY <1>2, MyWalksFacts DEF CutInv, CutSoFar
<1>5. SortedInv
  BY <1>1, TableFacts DEF SortedInv
<1>6. StopInv
  <2> SUFFICES ASSUME AtWalk, Table \in Scanned \ CountsEntries PROVE 1 <= max[Table] + 1
    BY DEF StopInv
  <2>1. max[Table] \in Nat
    BY LimitsAssumption DEF TypeOK
  <2> QED
    BY <2>1
<1>7. HashInv
  BY DEF HashInv
<1> QED
  BY <1>3, <1>4, <1>5, <1>6, <1>7 DEF QuietFacts

LEMMA QuietStep ==
  ASSUME IInv, TypeOK', AccountInv, QuietInv, [Next]_vars
  PROVE  QuietInv'
<1> SUFFICES ASSUME Quiet', outcome' # "failed" PROVE QuietFacts'
  BY DEF QuietInv
<1> USE DEF IInv, AccountInv
<1>1. ASSUME UNCHANGED changed, UNCHANGED repeated, outcome # "failed"
      PROVE  Quiet /\ QuietFacts
  <2>1. Quiet
    BY <1>1, Zenon DEF Quiet
  <2> QED
    BY <1>1, <2>1 DEF QuietInv
<1>2. CASE ScanKeys \/ ListKeys
  <2>1. UNCHANGED changed /\ outcome = "running" /\ (~repeated' => ~repeated)
    BY <1>2, ListedKeys
  <2>2. Quiet
    BY <2>1, Zenon DEF Quiet
  <2> QED
    BY <1>2, <2>1, <2>2, QuietList DEF QuietInv
<1>3. CASE Pass \/ CutOne \/ Skip \/ FindGone
  <2>1. UNCHANGED changed /\ UNCHANGED repeated /\ outcome # "failed"
    BY <1>3, PassOverEffect
  <2> QED
    BY <1>1, <1>3, <2>1, QuietPass
<1>4. CASE CutRest \/ EndOfKeys
  <2>1. UNCHANGED changed /\ UNCHANGED repeated /\ outcome # "failed"
    BY <1>4, WalkEndsEffect
  <2> QED
    BY <1>1, <1>4, <2>1, QuietRest
<1>5. CASE Export
  <2>1. UNCHANGED changed /\ UNCHANGED repeated /\ outcome # "failed"
    BY <1>5, ExportEffect
  <2> QED
    BY <1>1, <1>5, <2>1, QuietExport
<1>6. CASE ReadDetail
  <2>1. UNCHANGED changed /\ UNCHANGED repeated /\ outcome # "failed"
    BY <1>6, ReadDetailEffect
  <2> QED
    BY <1>1, <1>6, <2>1, QuietDetail
<1>7. CASE ReadHash
  <2>1. UNCHANGED changed /\ UNCHANGED repeated /\ outcome # "failed"
    BY <1>7, ReadHashEffect
  <2> QED
    BY <1>1, <1>7, <2>1, QuietHash
<1>8. CASE Finish \/ UNCHANGED vars
  <2>1. /\ UNCHANGED <<db, collector, max, step, keys, index, detail, out, truncated>>
        /\ UNCHANGED changed /\ UNCHANGED repeated /\ outcome # "failed"
    BY <1>8, FinishEffect DEF Finish, vars, outside, walk, result, history
  <2>2. QuietFacts
    BY <1>1, <2>1
  <2>3. \A u \in Walked : Done(u)' = Done(u) /\ (IsWalked(u)' <=> IsWalked(u))
    BY <2>1, DoneSame, WalkedNext
  <2>4. SortedInv' /\ StopInv'
    BY <2>1, <2>2 DEF QuietFacts, SortedInv, StopInv, AtWalk, Op, Table
  <2>5. HashInv'
    BY <2>1, <2>2, HashSame DEF QuietFacts
  <2> QED
    BY <2>1, <2>2, <2>3, <2>4, <2>5, UntouchedTables
<1>9. CASE Fail \/ FailInCollect
  BY <1>9, FailInCollectEffect DEF Fail
<1>10. CASE Return
  <2>1. /\ step' = 1 /\ index' = 1 /\ detail' = 0 /\ truncated' = 0
        /\ \A t \in Walked : keys'[t] = <<>> /\ out'[t] = <<>>
    BY <1>10, ClearEffect, TableFacts
  <2>2. (/\ TypeOK /\ step = 1 /\ index = 1 /\ detail = 0 /\ truncated = 0
         /\ \A t \in Walked : keys[t] = <<>> /\ out[t] = <<>>
         => QuietFacts)'
    BY QuietEmpty, PTL
  <2> QED
    BY <2>1, <2>2
<1>11. ASSUME NEW t \in Mine, NEW k \in Keys, Change(t, k) PROVE FALSE
  BY <1>11 DEF Change, Quiet
<1> QED
  BY <1>2, <1>3, <1>4, <1>5, <1>6, <1>7, <1>8, <1>9, <1>10, <1>11 DEF Next

LEMMA QuietInvariance == Spec => []QuietInv
<1>1. Init => QuietInv
  <2> SUFFICES ASSUME Init PROVE QuietFacts
    BY DEF QuietInv
  <2>1. /\ step = 1 /\ index = 1 /\ detail = 0 /\ truncated = 0
        /\ \A t \in Walked : keys[t] = <<>> /\ out[t] = <<>>
    BY TableFacts DEF Init, Fresh
  <2> QED
    BY <2>1, InitTypes, QuietEmpty
<1>2. IInv /\ TypeOK' /\ AccountInv /\ QuietInv /\ [Next]_vars => QuietInv'
  BY QuietStep
<1>3. IInv => TypeOK
  BY DEF IInv
<1> QED
  BY <1>1, <1>2, <1>3, Invariance, AccountingInvariance, PTL DEF Spec

\* A scrape of tables at rest exports the first rows of each table and the
\* fields of each hash, and truncated says whether a list was cut.
THEOREM QuietTablesAreExact == Spec => []QuietScrapeIsExact
<1>1. IInv /\ AccountInv /\ QuietInv => QuietScrapeIsExact
  <2> SUFFICES ASSUME IInv, AccountInv, QuietInv, outcome = "done", changed = {}, ~repeated
               PROVE  /\ \A t \in MyWalks :
                           /\ ToSet(out[t]) = {<<k, Label(t, db[t][k])>> : k \in FirstRows(t)}
                           /\ Len(out[t]) = Cardinality(FirstRows(t))
                      /\ \A t \in MyReads : ToSet(out[t]) = {<<k, db[t][k]>> : k \in Fields(t)}
                      /\ truncated = IF \E t \in MyWalks : IsCut(t) THEN 1 ELSE 0
    BY DEF QuietScrapeIsExact
  <2> USE DEF IInv, AccountInv
  <2>1. step > Len(Program[collector])
    BY DEF SumInv
  <2>2. Quiet
    BY Zenon DEF Quiet
  <2>3. SortedInv /\ ExactInv /\ CutInv /\ StopInv /\ HashInv
    BY <2>2 DEF QuietInv, QuietFacts
  <2>4. ASSUME NEW t \in MyWalks
        PROVE  /\ t \in Walked /\ IsWalked(t) /\ Seen(t) = Present(Source(t))
               /\ RowKeys(t) = FirstRows(t) /\ Injective(keys[t])
    <3>1. t \in Walked /\ IsWalked(t)
      BY <2>1, AllWalked
    <3>2. Seen(t) = Present(Source(t))
      BY <2>2, <3>1, TableSize, DoneFacts DEF Seen
    <3>3. Entries(t) \subseteq Present(Source(t))
      BY DEF Entries, IsEntry, Present
    <3>4. FirstRows(t) \subseteq Seen(t)
      BY <3>2, <3>3, RankFacts
    <3> QED
      BY <2>2, <2>3, <3>1, <3>2, <3>4, SliceIsTable DEF ExactInv, ExactOf
  <2>5. ASSUME NEW t \in MyWalks
        PROVE  /\ ToSet(out[t]) = {<<k, Label(t, db[t][k])>> : k \in FirstRows(t)}
               /\ Len(out[t]) = Cardinality(FirstRows(t))
    <3>1. t \in Walked /\ t \in Tables /\ RowKeys(t) = FirstRows(t) /\ Injective(keys[t])
      BY <2>4, TableFacts
    <3>2. PICK q : q = out[t]
      OBVIOUS
    <3>3. q \in Seq(Rows2)
      BY <3>1, <3>2 DEF TypeOK, Rows2
    <3>4. ASSUME NEW i \in DOMAIN q PROVE q[i] = <<q[i][1], Label(t, db[t][q[i][1]])>>
      <4>1. q[i] \in Keys \X (Values \cup {Unknown, Blank})
        BY <3>3 DEF Rows2
      <4>2. q[i][2] = Label(t, db[t][q[i][1]])
        BY <3>1, <3>2 DEF ExportInv, ExportOf, IsStable
      <4> QED
        BY <4>1, <4>2
    <3>5. {q[i][1] : i \in DOMAIN q} = FirstRows(t)
      BY <3>1, <3>2 DEF RowKeys
    <3>6. ToSet(q) = {<<k, Label(t, db[t][k])>> : k \in FirstRows(t)}
      BY <3>4, <3>5 DEF ToSet
    <3>7. OncePerKey(q)
      BY <3>1, <3>2 DEF ExportInv, ExportOf
    <3>8. Len(q) = Cardinality(FirstRows(t))
      BY <3>3, <3>5, <3>7, RowCount
    <3> QED
      BY <3>2, <3>6, <3>8
  <2>6. ASSUME NEW t \in MyReads
        PROVE  ToSet(out[t]) = {<<k, db[t][k]>> : k \in Fields(t)}
    <3>1. PICK i \in DOMAIN Program[collector] : Program[collector][i] = Read(t)
      BY DEF MyReads
    <3>2. i \in 1 .. step - 1
      BY <2>1, StepFacts
    <3> QED
      BY <2>3, <3>1, <3>2 DEF HashInv, Read
  <2>7. ASSUME NEW t \in MyWalks PROVE CutSoFar(t) <=> IsCut(t)
    <3>1. t \in Scanned => Source(t) = t
      BY TableFacts
    <3> QED
      BY <2>4, <3>1 DEF CutSoFar, IsCut
  <2>8. truncated = IF \E t \in MyWalks : IsCut(t) THEN 1 ELSE 0
    BY <2>3, <2>7 DEF CutInv
  <2> QED
    BY <2>5, <2>6, <2>8
<1> QED
  BY <1>1, Invariance, AccountingInvariance, QuietInvariance, PTL

=============================================================================
