-------------------------- MODULE LldpScrapeProofs --------------------------
(***************************************************************************)
(* Proofs about LldpScrape, for any keys, peers, limits and changes of the *)
(* table: types, accounting, that what did not change is exported, that no *)
(* series is appended twice unless SCAN repeats a key, and that a table at *)
(* rest always gives the same series.                                      *)
(***************************************************************************)
EXTENDS LldpScrape, FiniteSetTheorems, TLAPS

\* A hash is read with the limit not reached; before the loop nothing is counted.
PhaseInv ==
  /\ IF pc = "read" THEN at \in Keys ELSE at = NoKey
  /\ pc = "read" => neighbors < config.maxNeighbors
  /\ pc \in {"scan", "chassis"} =>
       series = NoSeries /\ neighbors = 0 /\ skipped = 0 /\ ignored = 0
  /\ pc = "done" => \A k \in Keys : scan.found[k] = 0

\* The occurrences of the keys still to visit; a set of pairs stands for the bag.
LeftOf(f) == {x \in Keys \X (1 .. Repeats + 1) : x[2] <= f[x[1]]}

InRead == IF at = NoKey THEN 0 ELSE 1

\* Each key SCAN returned was counted, is being read, or is still to visit.
CountInv == neighbors + skipped + ignored + InRead + Cardinality(LeftOf(scan.found)) = scanned

\* What becomes of a key that does not change: it is in the SCAN's promise, then
\* among the keys to visit, then read, then exported.
StableInv ==
  /\ pc = "scan" => \A k \in stable : db[k] # "absent" => k \in scan.throughout
  /\ pc = "chassis" => \A k \in stable : db[k] # "absent" => scan.found[k] > 0
  /\ pc \in {"loop", "read", "done"} /\ neighbors < config.maxNeighbors =>
       \A k \in stable :
         Wanted(k) => scan.found[k] > 0 \/ at = k \/ series[<<k, db[k]>>] > 0

Exported == {s \in Keys \X Peers : series[s] > 0}

\* A key returned once is to visit, being read, or behind one series at most.
OnceEach ==
  \A k \in Keys, p \in Peers :
    series[<<k, p>>] + scan.found[k] + (IF at = k THEN 1 ELSE 0) <= 1

UniqueFacts == OnceEach /\ IsFiniteSet(Exported) /\ neighbors = Cardinality(Exported)

UniqueInv == ~repeated => UniqueFacts

IInv == TypeOK /\ PhaseInv /\ CountInv /\ StableInv /\ UniqueInv

-----------------------------------------------------------------------------
(* The bag of the keys to visit.                                           *)

LEMMA LeftFinite ==
  ASSUME NEW f
  PROVE  IsFiniteSet(LeftOf(f)) /\ Cardinality(LeftOf(f)) \in Nat
<1>1. IsFiniteSet(1 .. Repeats + 1)
  BY FS_Interval, RepeatsAssumption
<1>2. IsFiniteSet(Keys \X (1 .. Repeats + 1))
  BY <1>1, FS_Product, KeysAssumption
<1>3. LeftOf(f) \subseteq Keys \X (1 .. Repeats + 1)
  BY DEF LeftOf
<1> QED
  BY <1>2, <1>3, FS_Subset, FS_CardinalityType

LEMMA LeftAdd ==
  ASSUME NEW f \in [Keys -> 0 .. Repeats + 1], NEW k \in Keys, f[k] <= Repeats
  PROVE  Cardinality(LeftOf([f EXCEPT ![k] = @ + 1])) = Cardinality(LeftOf(f)) + 1
<1> DEFINE x == <<k, f[k] + 1>>
<1>1. x \notin LeftOf(f)
  BY DEF LeftOf
<1>2. LeftOf([f EXCEPT ![k] = @ + 1]) = LeftOf(f) \cup {x}
  <2>1. ASSUME NEW j \in Keys, NEW i \in 1 .. Repeats + 1
        PROVE  i <= [f EXCEPT ![k] = @ + 1][j] <=> i <= f[j] \/ <<j, i>> = x
    <3>1. CASE j = k
      BY <3>1, RepeatsAssumption
    <3>2. CASE j # k
      BY <3>2
    <3> QED
      BY <3>1, <3>2
  <2>2. x \in Keys \X (1 .. Repeats + 1)
    BY RepeatsAssumption
  <2> HIDE DEF x
  <2> QED
    BY <2>1, <2>2 DEF LeftOf
<1> QED
  BY <1>1, <1>2, LeftFinite, FS_AddElement

LEMMA LeftRemove ==
  ASSUME NEW f \in [Keys -> 0 .. Repeats + 1], NEW k \in Keys, f[k] > 0
  PROVE  Cardinality(LeftOf(f)) = Cardinality(LeftOf([f EXCEPT ![k] = @ - 1])) + 1
<1> DEFINE g == [f EXCEPT ![k] = @ - 1]
<1>1. g \in [Keys -> 0 .. Repeats + 1] /\ g[k] = f[k] - 1 /\ g[k] <= Repeats
  BY RepeatsAssumption
<1>2. f = [g EXCEPT ![k] = @ + 1]
  <2>1. ASSUME NEW j \in Keys PROVE [g EXCEPT ![k] = @ + 1][j] = f[j]
    <3>1. CASE j = k
      BY <1>1, <3>1
    <3>2. CASE j # k
      BY <1>1, <3>2
    <3> QED
      BY <3>1, <3>2
  <2>2. DOMAIN [g EXCEPT ![k] = @ + 1] = Keys
    BY <1>1
  <2>3. [g EXCEPT ![k] = @ + 1] = [j \in Keys |-> f[j]]
    BY <2>1, <2>2
  <2> QED
    BY <2>3
<1> HIDE DEF g
<1>3. Cardinality(LeftOf([g EXCEPT ![k] = @ + 1])) = Cardinality(LeftOf(g)) + 1
  BY <1>1, LeftAdd
<1> QED
  BY <1>2, <1>3 DEF g

LEMMA NothingLeft ==
  ASSUME NEW f, \A k \in Keys : f[k] = 0
  PROVE  Cardinality(LeftOf(f)) = 0
<1>1. LeftOf(f) = {}
  BY DEF LeftOf
<1> QED
  BY <1>1, FS_EmptySet

LEMMA ScanTypes ==
  ASSUME scan \in Redis!ScanType
  PROVE  /\ scan = [found |-> scan.found, throughout |-> scan.throughout]
         /\ scan.found \in [Keys -> 0 .. Repeats + 1]
         /\ scan.throughout \subseteq Keys
BY DEF Redis!ScanType

-----------------------------------------------------------------------------
(* The beginning of a scrape.                                              *)

\* What Init, Fail and Return leave.
Fresh ==
  /\ db \in [Keys -> Hashes]
  /\ config \in [maxNeighbors : Limits, includeMgmt : BOOLEAN]
  /\ pc \in {"scan", "failed"}
  /\ scan = Redis!ScanOf(Present) /\ at = NoKey /\ series = NoSeries
  /\ neighbors = 0 /\ skipped = 0 /\ ignored = 0 /\ scanned = 0 /\ stable = Keys
  /\ repeated = FALSE

LEMMA FreshIInv == Fresh => IInv
<1> SUFFICES ASSUME Fresh PROVE IInv
  OBVIOUS
<1> USE DEF Fresh
<1>1. /\ scan.found = [k \in Keys |-> 0] /\ scan.throughout = {k \in Keys : db[k] # "absent"}
      /\ scan \in Redis!ScanType
  BY RepeatsAssumption DEF Redis!ScanOf, Redis!ScanType, Present
<1>2. config.maxNeighbors \in Nat \ {0}
  BY LimitsAssumption
<1>3. NoSeries \in [Keys \X Peers -> Nat]
  BY DEF NoSeries
<1>4. repeated \in BOOLEAN
  BY Zenon
<1>5. TypeOK
  BY <1>1, <1>2, <1>3, <1>4 DEF TypeOK
<1>6. PhaseInv
  BY <1>1, <1>2 DEF PhaseInv
<1>7. CountInv
  <2>1. Cardinality(LeftOf(scan.found)) = 0
    BY <1>1, NothingLeft
  <2> QED
    BY <2>1 DEF CountInv, InRead
<1>8. StableInv
  BY <1>1 DEF StableInv
<1>9. UniqueInv
  <2>1. Exported = {}
    BY DEF Exported, NoSeries
  <2>2. OnceEach
    BY <1>1, KeysAssumption DEF OnceEach, NoSeries
  <2>3. IsFiniteSet(Exported) /\ neighbors = Cardinality(Exported)
    BY <2>1, FS_EmptySet
  <2> QED
    BY <2>2, <2>3, Zenon DEF UniqueInv, UniqueFacts
<1> QED
  BY <1>5, <1>6, <1>7, <1>8, <1>9 DEF IInv

LEMMA InitIInv == Init => IInv
BY FreshIInv DEF Init, Fresh

LEMMA ClearStep ==
  ASSUME IInv, ClearLocals, UNCHANGED <<db, config>>, pc' \in {"scan", "failed"}
  PROVE  IInv'
<1>1. Present' = Present
  BY DEF Present
<1>2. scan' = Redis!ScanOf(Present)'
  BY <1>1 DEF ClearLocals, Redis!ScanOf
<1>3. Fresh'
  BY <1>2 DEF ClearLocals, IInv, TypeOK, Fresh
<1>4. Fresh' => IInv'
  BY FreshIInv, PTL
<1> QED
  BY <1>3, <1>4

-----------------------------------------------------------------------------
(* SCAN and the chassis.                                                   *)

LEMMA ScanReturnsStep == ASSUME IInv, NEW k \in Keys, ScanReturns(k) PROVE IInv'
<1> USE DEF IInv
<1>1. /\ pc = "scan" /\ scan.found[k] <= Repeats
      /\ scan' = [scan EXCEPT !.found[k] = @ + 1]
      /\ scanned' = scanned + 1
      /\ UNCHANGED <<db, config, pc, at, series, neighbors, skipped, ignored, stable>>
  BY DEF ScanReturns, Redis!ScanReply, counts
<1>2. /\ scan'.found = [scan.found EXCEPT ![k] = @ + 1]
      /\ scan'.throughout = scan.throughout
      /\ scan.found \in [Keys -> 0 .. Repeats + 1]
      /\ scan'.found \in [Keys -> 0 .. Repeats + 1]
      /\ scan' \in Redis!ScanType
  <2>1. scan \in Redis!ScanType
    BY DEF TypeOK
  <2>2. scan.found[k] + 1 \in 0 .. Repeats + 1
    BY <1>1, <2>1, ScanTypes, RepeatsAssumption
  <2> QED
    BY <1>1, <2>1, <2>2, ScanTypes DEF Redis!ScanType
<1>3. repeated' \in BOOLEAN
  BY Zenon DEF ScanReturns
<1>4. TypeOK'
  BY <1>1, <1>2, <1>3 DEF TypeOK
<1>5. PhaseInv'
  BY <1>1 DEF PhaseInv
<1>6. CountInv'
  <2>1. Cardinality(LeftOf(scan'.found)) = Cardinality(LeftOf(scan.found)) + 1
    BY <1>1, <1>2, LeftAdd
  <2>2. InRead' = InRead /\ InRead \in Nat
    BY <1>1 DEF InRead
  <2>3. Cardinality(LeftOf(scan.found)) \in Nat
    BY LeftFinite
  <2>4. neighbors = 0 /\ skipped = 0 /\ ignored = 0 /\ scanned \in Nat
    BY <1>1 DEF PhaseInv, TypeOK
  <2> HIDE DEF InRead, LeftOf
  <2> QED
    BY <1>1, <2>1, <2>2, <2>3, <2>4 DEF CountInv
<1>7. StableInv'
  BY <1>1, <1>2 DEF StableInv
<1>8. UniqueInv'
  <2> SUFFICES ASSUME ~repeated' PROVE UniqueFacts'
    BY Zenon DEF UniqueInv
  <2>1. ~repeated /\ ~(scan.found[k] > 0)
    BY Zenon DEF ScanReturns
  <2>2. UniqueFacts
    BY <2>1, Zenon DEF UniqueInv
  <2>3. scan.found[k] = 0
    BY <1>2, <2>1
  <2>4. series = NoSeries /\ at = NoKey
    BY <1>1 DEF PhaseInv
  <2>5. OnceEach'
    <3> SUFFICES ASSUME NEW j \in Keys, NEW p \in Peers
                 PROVE  (series[<<j, p>>] + scan.found[j] + (IF at = j THEN 1 ELSE 0) <= 1)'
      BY DEF OnceEach
    <3>1. CASE j = k
      BY <1>1, <1>2, <2>3, <2>4, <3>1, KeysAssumption DEF NoSeries
    <3>2. CASE j # k
      BY <1>1, <1>2, <2>2, <3>2 DEF UniqueFacts, OnceEach
    <3> QED
      BY <3>1, <3>2
  <2>6. Exported' = Exported
    BY <1>1 DEF Exported
  <2> QED
    BY <1>1, <2>2, <2>5, <2>6 DEF UniqueFacts
<1> QED
  BY <1>4, <1>5, <1>6, <1>7, <1>8

LEMMA ScanEndsStep == ASSUME IInv, ScanEnds PROVE IInv'
<1> USE DEF IInv
<1>1. /\ pc = "scan" /\ pc' = "chassis"
      /\ \A k \in scan.throughout : scan.found[k] > 0
      /\ scan' = [scan EXCEPT !.throughout = {}]
      /\ UNCHANGED <<db, config, at, series, neighbors, skipped, ignored, scanned, stable,
                     repeated>>
  BY DEF ScanEnds, Redis!ScanComplete, Redis!ScanEnd, counts, history
<1>2. scan'.found = scan.found /\ scan' \in Redis!ScanType
  BY <1>1, ScanTypes DEF TypeOK, Redis!ScanType
<1>3. TypeOK'
  BY <1>1, <1>2 DEF TypeOK
<1>4. PhaseInv'
  BY <1>1, <1>2 DEF PhaseInv
<1>5. CountInv'
  BY <1>1, <1>2 DEF CountInv, InRead
<1>6. StableInv'
  BY <1>1, <1>2 DEF StableInv, TypeOK
<1>7. UniqueInv'
  BY <1>1, <1>2 DEF UniqueInv, UniqueFacts, OnceEach, Exported
<1> QED
  BY <1>3, <1>4, <1>5, <1>6, <1>7

LEMMA ChassisStep == ASSUME IInv, Chassis PROVE IInv'
<1> USE DEF IInv
<1>1. /\ pc = "chassis" /\ pc' = "loop"
      /\ UNCHANGED <<db, config, scan, at, series, neighbors, skipped, ignored, scanned, stable,
                     repeated>>
  BY DEF Chassis, counts, history
<1>2. TypeOK'
  BY <1>1 DEF TypeOK
<1>3. PhaseInv' /\ CountInv'
  BY <1>1 DEF PhaseInv, CountInv, InRead
<1>4. StableInv'
  <2>1. ASSUME NEW k \in stable, Wanted(k) PROVE scan.found[k] > 0
    BY <1>1, <2>1, PeersAssumption DEF Wanted, StableInv
  <2> QED
    BY <1>1, <2>1 DEF StableInv, Wanted
<1>5. UniqueInv'
  BY <1>1 DEF UniqueInv, UniqueFacts, OnceEach, Exported
<1> QED
  BY <1>2, <1>3, <1>4, <1>5

LEMMA FinishStep == ASSUME IInv, Finish PROVE IInv'
<1> USE DEF IInv
<1>1. /\ pc = "loop" /\ pc' = "done" /\ \A k \in Keys : scan.found[k] = 0
      /\ UNCHANGED <<db, config, scan, at, series, neighbors, skipped, ignored, scanned, stable,
                     repeated>>
  BY DEF Finish, counts, history
<1>2. TypeOK'
  BY <1>1 DEF TypeOK
<1>3. PhaseInv' /\ CountInv'
  BY <1>1 DEF PhaseInv, CountInv, InRead
<1>4. StableInv'
  BY <1>1 DEF StableInv, Wanted
<1>5. UniqueInv'
  BY <1>1 DEF UniqueInv, UniqueFacts, OnceEach, Exported
<1> QED
  BY <1>2, <1>3, <1>4, <1>5

LEMMA StutterStep == ASSUME IInv, UNCHANGED vars PROVE IInv'
<1> USE DEF IInv
<1>1. UNCHANGED <<db, config, pc, scan, at, series, neighbors, skipped, ignored, scanned,
                  stable, repeated>>
  BY DEF vars, counts, history
<1>2. TypeOK' /\ PhaseInv' /\ CountInv' /\ StableInv'
  BY <1>1 DEF TypeOK, PhaseInv, CountInv, InRead, StableInv, Wanted
<1>3. UniqueInv'
  BY <1>1 DEF UniqueInv, UniqueFacts, OnceEach, Exported
<1> QED
  BY <1>2, <1>3

-----------------------------------------------------------------------------
(* The loop.                                                               *)

LEMMA VisitFacts ==
  ASSUME IInv, NEW k \in Keys, Visit(k)
  PROVE  /\ pc = "loop" /\ at = NoKey /\ scan.found[k] > 0
         /\ scan'.found = [scan.found EXCEPT ![k] = @ - 1]
         /\ scan.found \in [Keys -> 0 .. Repeats + 1]
         /\ scan'.found \in [Keys -> 0 .. Repeats + 1]
         /\ scan' \in Redis!ScanType
         /\ Cardinality(LeftOf(scan.found)) = Cardinality(LeftOf(scan'.found)) + 1
         /\ Cardinality(LeftOf(scan'.found)) \in Nat
<1>1. /\ pc = "loop" /\ at = NoKey /\ scan.found[k] > 0
      /\ scan' = [scan EXCEPT !.found[k] = @ - 1]
  BY DEF Visit, IsNext, IInv, PhaseInv
<1>2. scan \in Redis!ScanType
  BY DEF IInv, TypeOK
<1>3. scan.found[k] - 1 \in 0 .. Repeats + 1
  BY <1>1, <1>2, ScanTypes, RepeatsAssumption
<1>4. /\ scan'.found = [scan.found EXCEPT ![k] = @ - 1]
      /\ scan.found \in [Keys -> 0 .. Repeats + 1]
      /\ scan'.found \in [Keys -> 0 .. Repeats + 1]
      /\ scan' \in Redis!ScanType
  BY <1>1, <1>2, <1>3, ScanTypes DEF Redis!ScanType
<1> QED
  BY <1>1, <1>4, LeftRemove, LeftFinite

LEMMA CountTypes ==
  ASSUME TypeOK
  PROVE  /\ neighbors \in Nat /\ skipped \in Nat /\ ignored \in Nat /\ scanned \in Nat
         /\ config.maxNeighbors \in Nat /\ neighbors <= config.maxNeighbors
<1>1. config.maxNeighbors \in Nat
  BY LimitsAssumption DEF TypeOK
<1> QED
  BY <1>1 DEF TypeOK

\* A key that is visited and not read.
LEMMA PassOverStep ==
  ASSUME IInv, NEW k \in Keys, Visit(k),
         UNCHANGED <<db, config, pc, at, series, neighbors, scanned, stable, repeated>>,
         skipped' \in Nat, ignored' \in Nat, skipped' + ignored' = skipped + ignored + 1,
         neighbors < config.maxNeighbors => ~Wanted(k)
  PROVE  IInv'
<1> USE DEF IInv
<1>1. TypeOK'
  BY VisitFacts DEF TypeOK
<1>2. PhaseInv'
  BY VisitFacts DEF PhaseInv
<1>3. CountInv'
  <2> DEFINE a == Cardinality(LeftOf(scan.found))
             b == Cardinality(LeftOf(scan'.found))
  <2>1. InRead' = InRead /\ InRead \in Nat
    BY DEF InRead
  <2>2. a = b + 1 /\ b \in Nat
    BY VisitFacts
  <2>3. neighbors + skipped + ignored + InRead + a = scanned
    BY DEF CountInv
  <2>4. neighbors \in Nat /\ skipped \in Nat /\ ignored \in Nat
    BY CountTypes
  <2> HIDE DEF InRead, a, b
  <2> DEFINE c == skipped + ignored
             d == skipped' + ignored'
  <2>5. c \in Nat /\ d = c + 1
    <3>1. c \in Nat
      BY <2>4
    <3>2. d = c + 1
      OBVIOUS
    <3> QED
      BY <3>1, <3>2
  <2>6. neighbors + skipped' + ignored' = neighbors + d
    BY <2>4
  <2>7. neighbors + skipped + ignored = neighbors + c
    BY <2>4
  <2> HIDE DEF c, d
  <2>8. neighbors + d + InRead + b = scanned
    BY <2>1, <2>2, <2>3, <2>4, <2>5, <2>7
  <2>9. neighbors + skipped' + ignored' + InRead + b = scanned
    BY <2>6, <2>8
  <2> QED
    BY <2>1, <2>9 DEF CountInv, b
<1>4. StableInv'
  <2>1. ASSUME NEW j \in stable, Wanted(j), neighbors < config.maxNeighbors
        PROVE  scan'.found[j] > 0 \/ at = j \/ series[<<j, db[j]>>] > 0
    <3>1. j # k /\ j \in Keys
      BY <2>1 DEF TypeOK
    <3>2. scan'.found[j] = scan.found[j]
      BY <3>1, VisitFacts
    <3> QED
      BY <2>1, <3>2, VisitFacts DEF StableInv
  <2>2. \A j : Wanted(j)' <=> Wanted(j)
    BY DEF Wanted
  <2> HIDE DEF Wanted
  <2> QED
    BY <2>1, <2>2, VisitFacts DEF StableInv
<1>5. UniqueInv'
  <2>1. ASSUME OnceEach PROVE OnceEach'
    <3> SUFFICES ASSUME NEW j \in Keys, NEW p \in Peers
                 PROVE  (series[<<j, p>>] + scan.found[j] + (IF at = j THEN 1 ELSE 0) <= 1)'
      BY DEF OnceEach
    <3>1. scan'.found[j] <= scan.found[j] /\ scan.found[j] \in Nat /\ scan'.found[j] \in Nat
      <4>1. /\ scan'.found = [scan.found EXCEPT ![k] = @ - 1]
            /\ scan.found \in [Keys -> 0 .. Repeats + 1]
            /\ scan'.found \in [Keys -> 0 .. Repeats + 1]
        BY VisitFacts
      <4> QED
        BY <4>1, RepeatsAssumption
    <3>2. series[<<j, p>>] \in Nat
      BY DEF TypeOK
    <3> QED
      BY <2>1, <3>1, <3>2 DEF OnceEach
  <2>2. Exported' = Exported
    BY DEF Exported
  <2> QED
    BY <2>1, <2>2 DEF UniqueInv, UniqueFacts
<1> QED
  BY <1>1, <1>2, <1>3, <1>4, <1>5

LEMMA OverLimitStep == ASSUME IInv, NEW k \in Keys, OverLimit(k) PROVE IInv'
<1>1. /\ Visit(k) /\ neighbors >= config.maxNeighbors /\ skipped' = skipped + 1
      /\ UNCHANGED <<db, config, pc, at, series, neighbors, ignored, scanned, stable, repeated>>
  BY DEF OverLimit, Full, history
<1> QED
  BY <1>1, CountTypes, PassOverStep DEF IInv

LEMMA MalformedKeyStep == ASSUME IInv, NEW k \in Keys, MalformedKey(k) PROVE IInv'
<1>1. /\ Visit(k) /\ k \in Malformed /\ skipped' = skipped + 1
      /\ UNCHANGED <<db, config, pc, at, series, neighbors, ignored, scanned, stable, repeated>>
  BY DEF MalformedKey, history
<1>2. ~Wanted(k)
  BY <1>1 DEF Wanted
<1> QED
  BY <1>1, <1>2, CountTypes, PassOverStep DEF IInv

LEMMA ManagementStep == ASSUME IInv, NEW k \in Keys, Management(k) PROVE IInv'
<1>1. /\ Visit(k) /\ ignored' = ignored + 1
      /\ UNCHANGED <<db, config, pc, at, series, neighbors, skipped, scanned, stable, repeated>>
  BY DEF Management, history
<1>2. ~Wanted(k)
  BY Zenon DEF Management, Wanted
<1> QED
  BY <1>1, <1>2, CountTypes, PassOverStep DEF IInv

LEMMA ReadHashStep == ASSUME IInv, NEW k \in Keys, ReadHash(k) PROVE IInv'
<1> USE DEF IInv
<1>1. /\ Visit(k) /\ ~(neighbors >= config.maxNeighbors) /\ at' = k /\ pc' = "read"
      /\ UNCHANGED <<db, config, series, neighbors, skipped, ignored, scanned, stable, repeated>>
  BY DEF ReadHash, Full, counts, history
<1>2. k # NoKey
  BY KeysAssumption
<1>3. TypeOK'
  BY <1>1, VisitFacts DEF TypeOK
<1>4. PhaseInv'
  BY <1>1, VisitFacts, CountTypes DEF PhaseInv
<1>5. CountInv'
  <2> DEFINE a == Cardinality(LeftOf(scan.found))
             b == Cardinality(LeftOf(scan'.found))
  <2>1. InRead' = 1 /\ InRead = 0
    BY <1>1, <1>2, VisitFacts DEF InRead
  <2>2. a = b + 1 /\ b \in Nat
    BY <1>1, VisitFacts
  <2>3. neighbors + skipped + ignored + InRead + a = scanned
    BY DEF CountInv
  <2>4. neighbors \in Nat /\ skipped \in Nat /\ ignored \in Nat
    BY CountTypes
  <2> HIDE DEF InRead, a, b
  <2>5. neighbors + skipped + ignored + InRead' + b = scanned
    BY <2>1, <2>2, <2>3, <2>4
  <2> QED
    BY <1>1, <2>5 DEF CountInv, b
<1>6. StableInv'
  <2>1. ASSUME NEW j \in stable, Wanted(j), neighbors < config.maxNeighbors
        PROVE  scan'.found[j] > 0 \/ at' = j \/ series[<<j, db[j]>>] > 0
    <3>1. CASE j = k
      BY <1>1, <3>1
    <3>2. CASE j # k
      <4>1. j \in Keys /\ at # j
        <5>1. at = NoKey
          BY <1>1, VisitFacts
        <5>2. j \in Keys
          BY <2>1 DEF TypeOK
        <5> QED
          BY <5>1, <5>2, KeysAssumption
      <4>2. scan'.found[j] = scan.found[j]
        BY <1>1, <3>2, <4>1, VisitFacts
      <4> QED
        BY <1>1, <2>1, <4>1, <4>2, VisitFacts DEF StableInv
    <3> QED
      BY <3>1, <3>2
  <2>2. \A j : Wanted(j)' <=> Wanted(j)
    BY <1>1 DEF Wanted
  <2> HIDE DEF Wanted
  <2> QED
    BY <1>1, <2>1, <2>2 DEF StableInv
<1>7. UniqueInv'
  <2>1. ASSUME OnceEach PROVE OnceEach'
    <3> SUFFICES ASSUME NEW j \in Keys, NEW p \in Peers
                 PROVE  (series[<<j, p>>] + scan.found[j] + (IF at = j THEN 1 ELSE 0) <= 1)'
      BY DEF OnceEach
    <3>1. series[<<j, p>>] \in Nat /\ scan.found[j] \in Nat /\ at # j
      <4>1. at = NoKey /\ scan.found \in [Keys -> 0 .. Repeats + 1]
        BY <1>1, VisitFacts
      <4>2. series[<<j, p>>] \in Nat
        BY DEF TypeOK
      <4>3. scan.found[j] \in Nat
        BY <4>1, RepeatsAssumption
      <4> QED
        BY <4>1, <4>2, <4>3, KeysAssumption
    <3>2. series[<<j, p>>] + scan.found[j] <= 1
      BY <2>1, <3>1 DEF OnceEach
    <3>3. CASE j = k
      <4>1. scan'.found[j] = scan.found[j] - 1
        BY <1>1, <3>3, VisitFacts
      <4> QED
        BY <1>1, <3>1, <3>2, <3>3, <4>1
    <3>4. CASE j # k
      <4>1. scan'.found[j] = scan.found[j]
        BY <1>1, <3>4, VisitFacts
      <4> QED
        BY <1>1, <3>1, <3>2, <3>4, <4>1
    <3> QED
      BY <3>3, <3>4
  <2>2. Exported' = Exported
    BY <1>1 DEF Exported
  <2> QED
    BY <1>1, <2>1, <2>2 DEF UniqueInv, UniqueFacts
<1> QED
  BY <1>3, <1>4, <1>5, <1>6, <1>7

LEMMA EntryStep == ASSUME IInv, Entry PROVE IInv'
<1> USE DEF IInv
<1>1. /\ pc = "read" /\ pc' = "loop" /\ at' = NoKey
      /\ UNCHANGED <<db, config, scan, ignored, scanned, stable, repeated>>
  BY DEF Entry, history
<1>2. at \in Keys /\ at # NoKey /\ neighbors < config.maxNeighbors
  BY <1>1, KeysAssumption DEF PhaseInv
<1>3. /\ series \in [Keys \X Peers -> Nat] /\ scan.found \in [Keys -> 0 .. Repeats + 1]
      /\ neighbors \in Nat /\ skipped \in Nat /\ ignored \in Nat
      /\ config.maxNeighbors \in Nat
  BY CountTypes, ScanTypes DEF TypeOK
<1>4. \A j : Wanted(j)' <=> Wanted(j)
  BY <1>1 DEF Wanted
<1>5. CASE db[at] \in Peers
  <2> DEFINE s == <<at, db[at]>>
  <2>1. /\ series' = [series EXCEPT ![s] = @ + 1] /\ neighbors' = neighbors + 1
        /\ skipped' = skipped
    BY <1>5 DEF Entry
  <2>2. s \in Keys \X Peers
    BY <1>2, <1>5
  <2>3. series' \in [Keys \X Peers -> Nat] /\ series'[s] = series[s] + 1
    BY <1>3, <2>1, <2>2
  <2>4. \A t \in Keys \X Peers : t # s => series'[t] = series[t]
    BY <1>3, <2>1
  <2>5. TypeOK'
    BY <1>1, <1>2, <1>3, <2>1, <2>3 DEF TypeOK
  <2>6. PhaseInv'
    BY <1>1 DEF PhaseInv
  <2>7. CountInv'
    <3>1. Cardinality(LeftOf(scan.found)) \in Nat
      BY LeftFinite
    <3> HIDE DEF LeftOf
    <3> QED
      BY <1>1, <1>2, <1>3, <2>1, <3>1 DEF CountInv, InRead
  <2>8. StableInv'
    <3>1. ASSUME NEW j \in stable, Wanted(j)
          PROVE  scan.found[j] > 0 \/ series'[<<j, db[j]>>] > 0
      <4>1. j \in Keys /\ <<j, db[j]>> \in Keys \X Peers
        BY <3>1 DEF Wanted, TypeOK
      <4>2. CASE j = at
        BY <1>3, <2>2, <2>3, <4>2
      <4>3. CASE j # at
        <5>1. series'[<<j, db[j]>>] = series[<<j, db[j]>>]
          BY <2>4, <4>1, <4>3
        <5> QED
          BY <1>1, <1>2, <3>1, <4>3, <5>1 DEF StableInv
      <4> QED
        BY <4>2, <4>3
    <3> HIDE DEF Wanted
    <3> QED
      BY <1>1, <1>4, <3>1 DEF StableInv
  <2>9. UniqueInv'
    <3>1. ASSUME UniqueFacts PROVE UniqueFacts'
      <4>1. series[s] = 0
        <5>1. series[s] + scan.found[at] + 1 <= 1
          BY <1>2, <1>5, <3>1 DEF UniqueFacts, OnceEach
        <5>2. series[s] \in Nat /\ scan.found[at] \in Nat
          BY <1>2, <1>3, <2>2, RepeatsAssumption
        <5> HIDE DEF s
        <5> QED
          BY <5>1, <5>2
      <4>2. OnceEach'
        <5> SUFFICES ASSUME NEW j \in Keys, NEW p \in Peers
                     PROVE  (series[<<j, p>>] + scan.found[j] + (IF at = j THEN 1 ELSE 0) <= 1)'
          BY DEF OnceEach
        <5>1. series[<<j, p>>] + scan.found[j] + (IF at = j THEN 1 ELSE 0) <= 1
          BY <3>1 DEF UniqueFacts, OnceEach
        <5>2. series[<<j, p>>] \in Nat
          BY <1>3
        <5>3. scan.found[j] \in Nat
          BY <1>3, RepeatsAssumption
        <5>4. at' # j
          BY <1>1, KeysAssumption
        <5>5. CASE <<j, p>> = s
          <6>1. j = at
            BY <5>5
          <6>2. series'[<<j, p>>] = series[<<j, p>>] + 1
            BY <2>3, <5>5
          <6> QED
            BY <1>1, <5>1, <5>2, <5>3, <5>4, <6>1, <6>2
        <5>6. CASE <<j, p>> # s
          <6>1. series'[<<j, p>>] = series[<<j, p>>]
            BY <2>4, <5>6
          <6> QED
            BY <1>1, <5>1, <5>2, <5>3, <5>4, <6>1
        <5> QED
          BY <5>5, <5>6
      <4>3. s \notin Exported
        BY <4>1 DEF Exported
      <4>4. Exported' = Exported \cup {s}
        <5>1. ASSUME NEW t \in Keys \X Peers
              PROVE  series'[t] > 0 <=> series[t] > 0 \/ t = s
          <6>1. CASE t = s
            BY <2>3, <4>1, <6>1
          <6>2. CASE t # s
            BY <2>4, <6>2
          <6> QED
            BY <6>1, <6>2
        <5> HIDE DEF s
        <5> QED
          BY <2>2, <5>1 DEF Exported
      <4>5. IsFiniteSet(Exported) /\ neighbors = Cardinality(Exported)
        BY <3>1 DEF UniqueFacts
      <4> HIDE DEF s
      <4>6. /\ IsFiniteSet(Exported \cup {s})
            /\ Cardinality(Exported \cup {s}) = Cardinality(Exported) + 1
        BY <4>3, <4>5, FS_AddElement
      <4> QED
        BY <2>1, <4>2, <4>4, <4>5, <4>6 DEF UniqueFacts
    <3> QED
      BY <1>1, <3>1, Zenon DEF UniqueInv
  <2> QED
    BY <2>5, <2>6, <2>7, <2>8, <2>9
<1>6. CASE db[at] \notin Peers
  <2>1. series' = series /\ neighbors' = neighbors /\ skipped' = skipped + 1
    BY <1>6 DEF Entry
  <2>2. TypeOK'
    BY <1>1, <1>3, <2>1 DEF TypeOK
  <2>3. PhaseInv'
    BY <1>1 DEF PhaseInv
  <2>4. CountInv'
    <3>1. Cardinality(LeftOf(scan.found)) \in Nat
      BY LeftFinite
    <3> HIDE DEF LeftOf
    <3> QED
      BY <1>1, <1>2, <1>3, <2>1, <3>1 DEF CountInv, InRead
  <2>5. StableInv'
    <3>1. ASSUME NEW j \in stable, Wanted(j)
          PROVE  scan.found[j] > 0 \/ series[<<j, db[j]>>] > 0
      <4>1. j # at
        BY <1>6, <3>1 DEF Wanted
      <4> QED
        BY <1>1, <1>2, <3>1, <4>1 DEF StableInv
    <3> HIDE DEF Wanted
    <3> QED
      BY <1>1, <1>4, <2>1, <3>1 DEF StableInv
  <2>6. UniqueInv'
    <3>1. ASSUME OnceEach PROVE OnceEach'
      <4> SUFFICES ASSUME NEW j \in Keys, NEW p \in Peers
                   PROVE  (series[<<j, p>>] + scan.found[j] + (IF at = j THEN 1 ELSE 0) <= 1)'
        BY DEF OnceEach
      <4>1. series[<<j, p>>] + scan.found[j] + (IF at = j THEN 1 ELSE 0) <= 1
        BY <3>1 DEF OnceEach
      <4>2. series[<<j, p>>] \in Nat
        BY <1>3
      <4>3. scan.found[j] \in Nat
        BY <1>3, RepeatsAssumption
      <4>4. at' # j
        BY <1>1, KeysAssumption
      <4> QED
        BY <1>1, <2>1, <4>1, <4>2, <4>3, <4>4
    <3>2. Exported' = Exported
      BY <2>1 DEF Exported
    <3> QED
      BY <1>1, <2>1, <3>1, <3>2 DEF UniqueInv, UniqueFacts
  <2> QED
    BY <2>2, <2>3, <2>4, <2>5, <2>6
<1> QED
  BY <1>5, <1>6

-----------------------------------------------------------------------------
(* The table changes.                                                      *)

LEMMA ChangeStep == ASSUME IInv, NEW k \in Keys, Change(k) PROVE IInv'
<1> USE DEF IInv
<1>1. PICK h \in Hashes : db' = [db EXCEPT ![k] = h]
  BY DEF Change
<1>2. /\ stable' = stable \ {k}
      /\ UNCHANGED <<config, pc, at, series, neighbors, skipped, ignored, scanned, repeated>>
  BY DEF Change, counts
<1>3. scan' = [scan EXCEPT !.throughout = @ \ {k}] \/ scan' = scan
  BY DEF Change, Redis!ScanLoses
<1>4. scan \in Redis!ScanType /\ db \in [Keys -> Hashes]
  BY DEF TypeOK
<1>5. /\ scan' \in Redis!ScanType /\ scan'.found = scan.found
      /\ \A j \in scan.throughout : j # k => j \in scan'.throughout
  BY <1>3, <1>4, ScanTypes DEF Redis!ScanType
<1>6. db' \in [Keys -> Hashes] /\ \A j \in Keys : j # k => db'[j] = db[j]
  BY <1>1, <1>4
<1>7. TypeOK'
  BY <1>2, <1>5, <1>6 DEF TypeOK
<1>8. PhaseInv'
  BY <1>2, <1>5 DEF PhaseInv
<1>9. CountInv'
  BY <1>2, <1>5 DEF CountInv, InRead
<1>10. StableInv'
  <2>1. \A j \in stable' : j \in stable /\ j \in Keys /\ j # k /\ db'[j] = db[j]
    BY <1>2, <1>6 DEF TypeOK
  <2>2. \A j \in stable' : Wanted(j)' <=> Wanted(j)
    BY <1>2, <2>1 DEF Wanted
  <2> HIDE DEF Wanted
  <2>3. pc' = "scan" => \A j \in stable' : db'[j] # "absent" => j \in scan'.throughout
    BY <1>2, <1>5, <2>1 DEF StableInv
  <2>4. pc' = "chassis" => \A j \in stable' : db'[j] # "absent" => scan'.found[j] > 0
    BY <1>2, <1>5, <2>1 DEF StableInv
  <2>5. pc' \in {"loop", "read", "done"} /\ neighbors' < config'.maxNeighbors =>
          \A j \in stable' :
            Wanted(j)' => scan'.found[j] > 0 \/ at' = j \/ series'[<<j, db'[j]>>] > 0
    BY <1>2, <1>5, <2>1, <2>2 DEF StableInv
  <2> QED
    BY <2>3, <2>4, <2>5 DEF StableInv
<1>11. UniqueInv'
  BY <1>2, <1>5 DEF UniqueInv, UniqueFacts, OnceEach, Exported
<1> QED
  BY <1>7, <1>8, <1>9, <1>10, <1>11

LEMMA NextIInv == IInv /\ [Next]_vars => IInv'
<1> SUFFICES ASSUME IInv, [Next]_vars PROVE IInv'
  OBVIOUS
<1>1. CASE ScanEnds \/ Chassis \/ Entry \/ Finish
  BY <1>1, ScanEndsStep, ChassisStep, EntryStep, FinishStep
<1>2. CASE Fail \/ Return
  BY <1>2, ClearStep DEF Fail, Return
<1>3. CASE \E k \in Keys : ScanReturns(k) \/ VisitKey(k) \/ Change(k)
  <2> PICK k \in Keys : ScanReturns(k) \/ VisitKey(k) \/ Change(k)
    BY <1>3
  <2>1. CASE ScanReturns(k) \/ Change(k)
    BY <2>1, ScanReturnsStep, ChangeStep
  <2>2. CASE VisitKey(k)
    BY <2>2, OverLimitStep, MalformedKeyStep, ManagementStep, ReadHashStep DEF VisitKey
  <2> QED
    BY <2>1, <2>2
<1>4. CASE UNCHANGED vars
  BY <1>4, StutterStep
<1> QED
  BY <1>1, <1>2, <1>3, <1>4 DEF Next

-----------------------------------------------------------------------------
LEMMA Invariant == Spec => []IInv
BY InitIInv, NextIInv, PTL DEF Spec

\* The locals of scrapeMetrics have their types; sonic_lldp_neighbors never
\* passes LLDP_MAX_NEIGHBORS.
THEOREM LldpTypeCorrect == Spec => []TypeOK
<1>1. IInv => TypeOK
  BY DEF IInv
<1> QED
  BY <1>1, Invariant, PTL

\* Each key that ScanKeysFromDb returned is exported, counted in
\* sonic_lldp_skipped_entries, or a management entry, exactly once.
THEOREM LldpAccounted == Spec => []Accounted
<1>1. IInv => Accounted
  <2> SUFFICES ASSUME IInv, pc = "done" PROVE neighbors + skipped + ignored = scanned
    BY DEF Accounted
  <2>1. InRead = 0 /\ Cardinality(LeftOf(scan.found)) = 0
    BY NothingLeft DEF IInv, PhaseInv, InRead
  <2> QED
    BY <2>1, CountTypes DEF IInv, CountInv
<1> QED
  BY <1>1, Invariant, PTL

\* An entry of LLDP_ENTRY_TABLE that stays as it is during the refresh is in the
\* refreshed cache, unless the limit was reached.
THEOREM StableNeighborsExported == Spec => []StableNeighborExported
<1>1. IInv => StableNeighborExported
  <2> SUFFICES ASSUME IInv, pc = "done", ~Full, NEW k \in stable, Wanted(k)
               PROVE  series[<<k, db[k]>>] > 0
    BY DEF StableNeighborExported
  <2>1. neighbors < config.maxNeighbors
    BY CountTypes DEF IInv, Full
  <2>2. k \in Keys
    BY DEF IInv, TypeOK
  <2>3. scan.found[k] = 0 /\ at # k
    BY <2>2, KeysAssumption DEF IInv, PhaseInv
  <2> QED
    BY <2>1, <2>3 DEF IInv, StableInv
<1> QED
  BY <1>1, Invariant, PTL

\* Unless SCAN repeats a key, the registry is not handed a series twice and
\* sonic_lldp_neighbors is the number of series, however the table changes.
THEOREM UniqueScanIsUnique == Spec => []UniqueScanGivesUniqueSeries
<1>1. IInv => UniqueScanGivesUniqueSeries
  <2> SUFFICES ASSUME IInv, pc = "done", ~repeated
               PROVE  GaugeCountsSeries /\ \A s \in DOMAIN series : series[s] <= 1
    BY DEF UniqueScanGivesUniqueSeries
  <2>1. UniqueFacts
    BY Zenon DEF IInv, UniqueInv
  <2>2. DOMAIN series = Keys \X Peers /\ series \in [Keys \X Peers -> Nat]
    BY DEF IInv, TypeOK
  <2>3. GaugeCountsSeries
    BY <2>1, <2>2 DEF UniqueFacts, Exported, GaugeCountsSeries
  <2>4. ASSUME NEW k \in Keys, NEW p \in Peers PROVE series[<<k, p>>] <= 1
    <3>1. scan.found[k] = 0
      BY DEF IInv, PhaseInv
    <3>2. at # k
      BY KeysAssumption DEF IInv, PhaseInv
    <3>3. series[<<k, p>>] \in Nat
      BY <2>2
    <3>4. series[<<k, p>>] + scan.found[k] + (IF at = k THEN 1 ELSE 0) <= 1
      BY <2>1 DEF UniqueFacts, OnceEach
    <3> QED
      BY <3>1, <3>2, <3>3, <3>4
  <2> QED
    BY <2>2, <2>3, <2>4
<1> QED
  BY <1>1, Invariant, PTL

-----------------------------------------------------------------------------
(* A table at rest.  QuietInv is inductive relative to IInv.               *)

Quiet == stable = Keys /\ ~repeated

\* The keys to come, the one being read among them.
ToVisit == {k \in Keys : scan.found[k] > 0 \/ at = k}

WantedKeys == {k \in Keys : Wanted(k)}
Below(k)   == {j \in WantedKeys : j < k}

\* Those of the first neighbors that were visited.
Shown == FirstNeighbors \ ToVisit

\* The keys visited are the first ones: a position is a rank.
OrderInv ==
  \A j, k \in Keys : db[j] # "absent" /\ j \notin ToVisit /\ k \in ToVisit => j < k

ShownInv ==
  /\ neighbors = Cardinality(Shown)
  /\ \A k \in Keys, p \in Peers :
       series[<<k, p>>] = IF k \in Shown /\ p = db[k] THEN 1 ELSE 0
  /\ neighbors < config.maxNeighbors => WantedKeys \ ToVisit \subseteq FirstNeighbors

OnceInv ==
  \A k \in Keys : /\ scan.found[k] <= 1
                  /\ scan.found[k] > 0 => db[k] # "absent"

ReadInv ==
  /\ scan.found[at] = 0
  /\ at \notin Malformed /\ (at \in Mgmt => config.includeMgmt)
  /\ \A k \in Keys : scan.found[k] > 0 => at < k

LoopFacts == OrderInv /\ ShownInv /\ (pc = "read" => ReadInv)

QuietInv ==
  Quiet => /\ OnceInv
           /\ pc \in {"loop", "read", "done"} => LoopFacts

LEMMA FirstFacts ==
  /\ FirstNeighbors = {k \in WantedKeys : Cardinality(Below(k)) < config.maxNeighbors}
  /\ WantedKeys \subseteq Keys /\ IsFiniteSet(WantedKeys)
  /\ \A k : IsFiniteSet(Below(k)) /\ Cardinality(Below(k)) \in Nat
<1>1. WantedKeys \subseteq Keys /\ IsFiniteSet(WantedKeys)
  BY KeysAssumption, FS_Subset DEF WantedKeys
<1>2. \A k : IsFiniteSet(Below(k)) /\ Cardinality(Below(k)) \in Nat
  BY <1>1, FS_Subset, FS_CardinalityType DEF Below
<1>3. FirstNeighbors = {k \in WantedKeys : Cardinality(Below(k)) < config.maxNeighbors}
  BY DEF FirstNeighbors, WantedKeys, Below
<1> QED
  BY <1>1, <1>2, <1>3

\* The key at hand, which is the least of those to come, is one of the first
\* neighbors if and only if the limit is not reached.
LEMMA NextIsFirst ==
  ASSUME TypeOK, OrderInv, ShownInv, NEW k \in Keys, k \in ToVisit, k \in WantedKeys,
         \A j \in ToVisit : k <= j
  PROVE  k \in FirstNeighbors <=> neighbors < config.maxNeighbors
<1>1. /\ IsFiniteSet(WantedKeys) /\ IsFiniteSet(Below(k))
      /\ Cardinality(Below(k)) \in Nat
      /\ k \in FirstNeighbors <=> Cardinality(Below(k)) < config.maxNeighbors
  BY FirstFacts
<1>2. /\ config.maxNeighbors \in Nat /\ neighbors \in Nat
      /\ neighbors = Cardinality(Shown)
  BY CountTypes DEF ShownInv
<1>3. Below(k) = WantedKeys \ ToVisit
  <2>1. ASSUME NEW j \in WantedKeys PROVE j < k <=> j \notin ToVisit
    <3>1. j \in Keys /\ db[j] # "absent" /\ j \in Nat /\ k \in Nat
      BY PeersAssumption, KeysAssumption DEF WantedKeys, Wanted
    <3>2. j \in ToVisit => ~(j < k)
      BY <3>1
    <3> QED
      BY <3>1, <3>2 DEF OrderInv
  <2> QED
    BY <2>1 DEF Below
<1>4. Shown \subseteq Below(k)
  BY <1>3, FirstFacts DEF Shown
<1>5. Cardinality(Shown) <= Cardinality(Below(k)) /\ Cardinality(Shown) \in Nat
  BY <1>1, <1>4, FS_Subset, FS_CardinalityType
<1>6. neighbors < config.maxNeighbors => Below(k) = Shown
  BY <1>3, <1>4 DEF ShownInv, Shown
<1>7. CASE neighbors < config.maxNeighbors
  BY <1>1, <1>2, <1>6, <1>7
<1>8. CASE ~(neighbors < config.maxNeighbors)
  BY <1>1, <1>2, <1>5, <1>8
<1> QED
  BY <1>7, <1>8

LEMMA SameTable ==
  ASSUME UNCHANGED <<db, config>>
  PROVE  WantedKeys' = WantedKeys /\ FirstNeighbors' = FirstNeighbors
<1>1. WantedKeys' = WantedKeys
  BY DEF WantedKeys, Wanted
<1>2. FirstNeighbors' = FirstNeighbors
  BY DEF FirstNeighbors, Wanted
<1> QED
  BY <1>1, <1>2

\* The least of the keys to come is visited, and not exported.
LEMMA QuietLeaves ==
  ASSUME TypeOK, TypeOK', OrderInv, ShownInv, NEW k \in Keys, k \in ToVisit,
         \A j \in ToVisit : k <= j, ToVisit' = ToVisit \ {k},
         k \in WantedKeys => k \notin FirstNeighbors,
         UNCHANGED <<db, config, neighbors, series>>
  PROVE  OrderInv' /\ ShownInv'
<1>1. WantedKeys' = WantedKeys /\ FirstNeighbors' = FirstNeighbors
  BY SameTable
<1>2. OrderInv'
  <2>1. \A j \in ToVisit' : k < j
    BY KeysAssumption DEF ToVisit
  <2> QED
    BY <2>1 DEF OrderInv
<1>3. Shown' = Shown
  BY <1>1, FirstFacts DEF Shown
<1>4. neighbors < config.maxNeighbors => k \notin WantedKeys
  BY NextIsFirst
<1>5. ShownInv'
  BY <1>1, <1>3, <1>4 DEF ShownInv
<1> QED
  BY <1>2, <1>5

LEMMA QuietVisit ==
  ASSUME IInv, OnceInv, NEW k \in Keys, Visit(k)
  PROVE  /\ pc = "loop" /\ at = NoKey /\ k \in ToVisit /\ \A j \in ToVisit : k <= j
         /\ scan'.found[k] = 0 /\ \A j \in Keys : j # k => scan'.found[j] = scan.found[j]
         /\ at' = NoKey => ToVisit' = ToVisit \ {k}
         /\ at' = k => ToVisit' = ToVisit
<1>1. /\ pc = "loop" /\ at = NoKey /\ scan.found[k] > 0
      /\ scan'.found = [scan.found EXCEPT ![k] = @ - 1]
      /\ scan.found \in [Keys -> 0 .. Repeats + 1]
  BY VisitFacts
<1>2. scan.found[k] = 1
  BY <1>1, RepeatsAssumption DEF OnceInv
<1>3. scan'.found[k] = 0 /\ \A j \in Keys : j # k => scan'.found[j] = scan.found[j]
  BY <1>1, <1>2
<1>4. NoKey \notin Keys
  BY KeysAssumption
<1>5. ToVisit = {j \in Keys : scan.found[j] > 0}
  BY <1>1, <1>4 DEF ToVisit
<1>6. \A j \in ToVisit : k <= j
  BY <1>5 DEF Visit, IsNext
<1>7. at' = NoKey => ToVisit' = ToVisit \ {k}
  BY <1>3, <1>4, <1>5 DEF ToVisit
<1>8. at' = k => ToVisit' = ToVisit
  BY <1>1, <1>3, <1>5 DEF ToVisit
<1> QED
  BY <1>1, <1>3, <1>5, <1>6, <1>7, <1>8

LEMMA QuietPassOver ==
  ASSUME IInv, IInv', NEW k \in Keys, OverLimit(k) \/ MalformedKey(k) \/ Management(k), Quiet, QuietInv
  PROVE  OnceInv' /\ LoopFacts'
<1>1. /\ Visit(k) /\ UNCHANGED <<db, config, pc, at, series, neighbors>>
      /\ neighbors < config.maxNeighbors => ~Wanted(k)
  <2>1. CASE OverLimit(k)
    BY <2>1, CountTypes DEF OverLimit, Full, IInv
  <2>2. CASE MalformedKey(k)
    BY <2>2 DEF MalformedKey, Wanted
  <2>3. CASE Management(k)
    <3>1. ~Wanted(k)
      BY <2>3, Zenon DEF Management, Wanted
    <3> QED
      BY <2>3, <3>1 DEF Management
  <2> QED
    BY <2>1, <2>2, <2>3
<1>2. OnceInv
  BY DEF QuietInv
<1>3. pc = "loop" /\ LoopFacts
  BY <1>1, <1>2, QuietVisit DEF QuietInv
<1>4. k \in WantedKeys => k \notin FirstNeighbors
  BY <1>1, <1>2, <1>3, QuietVisit, NextIsFirst DEF WantedKeys, LoopFacts, IInv
<1>5. OrderInv' /\ ShownInv'
  BY <1>1, <1>2, <1>3, <1>4, QuietVisit, QuietLeaves DEF LoopFacts, IInv
<1>6. OnceInv'
  BY <1>1, <1>2, QuietVisit DEF OnceInv
<1> QED
  BY <1>1, <1>3, <1>5, <1>6 DEF LoopFacts

LEMMA QuietRead ==
  ASSUME IInv, IInv', NEW k \in Keys, ReadHash(k), Quiet, QuietInv
  PROVE  OnceInv' /\ LoopFacts'
<1>1. /\ Visit(k) /\ at' = k /\ k \notin Malformed /\ (k \in Mgmt => config.includeMgmt)
      /\ UNCHANGED <<db, config, series, neighbors>>
  BY DEF ReadHash, counts
<1>2. OnceInv
  BY DEF QuietInv
<1>3. pc = "loop" /\ LoopFacts
  BY <1>1, <1>2, QuietVisit DEF QuietInv
<1>4. WantedKeys' = WantedKeys /\ FirstNeighbors' = FirstNeighbors /\ ToVisit' = ToVisit
  BY <1>1, <1>2, SameTable, QuietVisit
<1>5. OrderInv' /\ ShownInv'
  BY <1>1, <1>3, <1>4 DEF LoopFacts, OrderInv, ShownInv, Shown
<1>6. OnceInv'
  BY <1>1, <1>2, QuietVisit DEF OnceInv
<1>7. ReadInv'
  <2>1. ASSUME NEW j \in Keys, scan'.found[j] > 0 PROVE k < j
    <3>1. j # k /\ scan.found[j] > 0
      BY <1>1, <1>2, <2>1, QuietVisit
    <3>2. j \in ToVisit
      BY <3>1 DEF ToVisit
    <3>3. k <= j
      BY <1>1, <1>2, <3>2, QuietVisit
    <3>4. j \in Nat /\ k \in Nat
      BY KeysAssumption
    <3> QED
      BY <3>1, <3>3, <3>4
  <2>2. scan'.found[k] = 0
    BY <1>1, <1>2, QuietVisit
  <2> QED
    BY <1>1, <2>1, <2>2, Zenon DEF ReadInv
<1> QED
  BY <1>5, <1>6, <1>7 DEF LoopFacts

LEMMA QuietEntry ==
  ASSUME IInv, IInv', Entry, Quiet, QuietInv
  PROVE  OnceInv' /\ LoopFacts'
<1>1. /\ pc = "read" /\ pc' = "loop" /\ at' = NoKey /\ UNCHANGED <<db, config, scan>>
  BY DEF Entry
<1>2. OnceInv /\ OrderInv /\ ShownInv /\ ReadInv
  BY <1>1 DEF QuietInv, LoopFacts
<1>3. PICK k \in Keys : k = at
  BY <1>1 DEF IInv, PhaseInv
<1>4. NoKey \notin Keys /\ neighbors < config.maxNeighbors
  BY <1>1, KeysAssumption DEF IInv, PhaseInv
<1>5. k \in ToVisit /\ ToVisit' = ToVisit \ {k} /\ \A j \in ToVisit : k <= j
  <2>1. \A j \in Keys : j \in ToVisit <=> scan.found[j] > 0 \/ j = k
    BY <1>3 DEF ToVisit
  <2>2. \A j \in Keys : j \in ToVisit' <=> scan.found[j] > 0
    BY <1>1, <1>4 DEF ToVisit
  <2>3. scan.found[k] = 0
    BY <1>2, <1>3 DEF ReadInv
  <2>4. \A j \in Keys : scan.found[j] > 0 => k < j
    BY <1>2, <1>3 DEF ReadInv
  <2>5. ToVisit \subseteq Keys /\ ToVisit' \subseteq Keys
    BY DEF ToVisit
  <2>6. \A j \in ToVisit : k <= j
    BY <2>1, <2>4, <2>5, KeysAssumption
  <2>7. \A j \in Keys : j \in ToVisit' <=> j \in ToVisit /\ j # k
    BY <2>1, <2>2, <2>3
  <2> QED
    BY <2>1, <2>5, <2>6, <2>7
<1>6. OnceInv'
  BY <1>1, <1>2 DEF OnceInv
<1>7. CASE db[k] \notin Peers
  <2>1. UNCHANGED <<series, neighbors>> /\ k \notin WantedKeys
    BY <1>3, <1>7 DEF Entry, WantedKeys, Wanted
  <2>2. OrderInv' /\ ShownInv'
    BY <1>1, <1>2, <1>5, <2>1, QuietLeaves DEF IInv
  <2> QED
    BY <1>1, <1>6, <2>2 DEF LoopFacts
<1>8. CASE db[k] \in Peers
  <2>1. /\ series' = [series EXCEPT ![<<k, db[k]>>] = @ + 1] /\ neighbors' = neighbors + 1
        /\ k \in WantedKeys
    BY <1>2, <1>3, <1>8, Zenon DEF Entry, WantedKeys, Wanted, ReadInv
  <2>2. WantedKeys' = WantedKeys /\ FirstNeighbors' = FirstNeighbors
    BY <1>1, SameTable
  <2>3. k \in FirstNeighbors
    BY <1>2, <1>4, <1>5, <2>1, NextIsFirst DEF IInv
  <2>4. Shown' = Shown \cup {k} /\ k \notin Shown
    BY <1>5, <2>2, <2>3 DEF Shown
  <2>5. OrderInv'
    <3>1. \A j \in ToVisit' : k < j
      BY <1>5, KeysAssumption DEF ToVisit
    <3> QED
      BY <1>1, <1>2, <1>5, <3>1 DEF OrderInv
  <2>6. IsFiniteSet(Shown)
    BY FirstFacts, FS_Subset DEF Shown
  <2>7. neighbors' = Cardinality(Shown')
    <3>1. Cardinality(Shown \cup {k}) = Cardinality(Shown) + 1
      BY <2>4, <2>6, FS_AddElement
    <3> QED
      BY <1>2, <2>1, <2>4, <3>1 DEF ShownInv
  <2>8. ASSUME NEW j \in Keys, NEW p \in Peers
        PROVE  series'[<<j, p>>] = IF j \in Shown' /\ p = db'[j] THEN 1 ELSE 0
    <3>1. /\ series \in [Keys \X Peers -> Nat] /\ <<j, p>> \in Keys \X Peers
          /\ series[<<j, p>>] = IF j \in Shown /\ p = db[j] THEN 1 ELSE 0
      BY <1>2 DEF IInv, TypeOK, ShownInv
    <3>2. CASE <<j, p>> = <<k, db[k]>>
      <4>1. j = k /\ p = db[k]
        BY <3>2
      <4>2. series[<<j, p>>] = 0
        BY <2>4, <3>1, <4>1
      <4>3. series'[<<j, p>>] = series[<<j, p>>] + 1
        BY <2>1, <3>1, <3>2
      <4> QED
        BY <1>1, <2>4, <4>1, <4>2, <4>3
    <3>3. CASE <<j, p>> # <<k, db[k]>>
      <4>1. j # k \/ p # db[j]
        BY <3>3
      <4>2. series'[<<j, p>>] = series[<<j, p>>]
        BY <2>1, <3>1, <3>3
      <4> QED
        BY <1>1, <2>4, <3>1, <4>1, <4>2
    <3> QED
      BY <3>2, <3>3
  <2>9. WantedKeys' \ ToVisit' \subseteq FirstNeighbors'
    BY <1>2, <1>4, <1>5, <2>2, <2>3 DEF ShownInv
  <2>10. ShownInv'
    BY <2>7, <2>8, <2>9 DEF ShownInv
  <2> QED
    BY <1>1, <1>6, <2>5, <2>10 DEF LoopFacts
<1> QED
  BY <1>7, <1>8

\* When the loop begins every key that is there is to come.
LEMMA QuietChassis ==
  ASSUME IInv, IInv', Chassis, Quiet, QuietInv
  PROVE  OnceInv' /\ LoopFacts'
<1>1. /\ pc = "chassis" /\ pc' = "loop" /\ UNCHANGED <<db, config, scan, at, series, neighbors>>
      /\ series = NoSeries /\ neighbors = 0
  BY DEF Chassis, counts, IInv, PhaseInv
<1>2. \A k \in Keys : db[k] # "absent" => k \in ToVisit
  BY <1>1 DEF IInv, StableInv, Quiet, ToVisit
<1>3. WantedKeys \subseteq ToVisit
  BY <1>2, PeersAssumption DEF WantedKeys, Wanted
<1>4. ToVisit' = ToVisit /\ WantedKeys' = WantedKeys /\ FirstNeighbors' = FirstNeighbors
  BY <1>1, SameTable DEF ToVisit
<1>5. Shown' = {}
  BY <1>3, <1>4, FirstFacts DEF Shown
<1>6. OrderInv'
  BY <1>1, <1>2, <1>4 DEF OrderInv
<1>7. ShownInv'
  <2>1. Cardinality({}) = 0
    BY FS_EmptySet
  <2> QED
    BY <1>1, <1>3, <1>4, <1>5, <2>1 DEF ShownInv, NoSeries
<1>8. OnceInv'
  BY <1>1 DEF QuietInv, OnceInv
<1> QED
  BY <1>1, <1>6, <1>7, <1>8 DEF LoopFacts

LEMMA QuietStep ==
  ASSUME IInv, IInv', QuietInv, [Next]_vars
  PROVE  QuietInv'
<1> SUFFICES ASSUME Quiet'
             PROVE  /\ OnceInv'
                    /\ pc' \in {"loop", "read", "done"} => LoopFacts'
  BY DEF QuietInv
<1>1. ASSUME NEW k \in Keys, ScanReturns(k) PROVE OnceInv' /\ pc' = "scan"
  <2>1. /\ pc' = "scan" /\ db[k] # "absent" /\ UNCHANGED <<db, stable>>
        /\ scan' = [scan EXCEPT !.found[k] = @ + 1]
        /\ repeated' = (repeated \/ scan.found[k] > 0)
    BY <1>1 DEF ScanReturns, Redis!ScanReply, Present
  <2>2. ~repeated /\ ~(scan.found[k] > 0) /\ Quiet
    BY <2>1, Zenon DEF Quiet
  <2>3. OnceInv
    BY <2>2 DEF QuietInv
  <2>4. scan'.found = [scan.found EXCEPT ![k] = @ + 1] /\ scan.found \in [Keys -> 0 .. Repeats + 1]
    BY <2>1, ScanTypes DEF IInv, TypeOK
  <2>5. scan'.found[k] = 1 /\ \A j \in Keys : j # k => scan'.found[j] = scan.found[j]
    BY <2>2, <2>4, RepeatsAssumption
  <2> QED
    BY <2>1, <2>3, <2>5 DEF OnceInv
<1>2. CASE ScanEnds
  <2>1. /\ pc' = "chassis" /\ scan' = [scan EXCEPT !.throughout = {}]
        /\ UNCHANGED <<db, stable, repeated>>
    BY <1>2 DEF ScanEnds, Redis!ScanEnd, history
  <2>2. scan'.found = scan.found
    BY <2>1, ScanTypes DEF IInv, TypeOK
  <2>3. OnceInv
    BY <2>1, Zenon DEF QuietInv, Quiet
  <2> QED
    BY <2>1, <2>2, <2>3 DEF OnceInv
<1>3. CASE Chassis
  <2>1. Quiet
    BY <1>3, Zenon DEF Chassis, history, Quiet
  <2> QED
    BY <1>3, <2>1, QuietChassis
<1>4. CASE Fail \/ Return
  <2>1. pc' \in {"scan", "failed"} /\ scan' = Redis!ScanOf(Present)
    BY <1>4 DEF Fail, Return, ClearLocals
  <2>2. scan'.found = [k \in Keys |-> 0]
    BY <2>1 DEF Redis!ScanOf
  <2> QED
    BY <2>1, <2>2 DEF OnceInv
<1>5. ASSUME NEW k \in Keys, OverLimit(k) \/ MalformedKey(k) \/ Management(k) PROVE OnceInv' /\ LoopFacts'
  <2>1. Quiet
    <3>1. UNCHANGED <<stable, repeated>>
      BY <1>5 DEF OverLimit, MalformedKey, Management, history
    <3> QED
      BY <3>1, Zenon DEF Quiet
  <2> QED
    BY <1>5, <2>1, QuietPassOver
<1>6. ASSUME NEW k \in Keys, ReadHash(k) PROVE OnceInv' /\ LoopFacts'
  <2>1. Quiet
    BY <1>6, Zenon DEF ReadHash, history, Quiet
  <2> QED
    BY <1>6, <2>1, QuietRead
<1>7. CASE Entry
  <2>1. Quiet
    BY <1>7, Zenon DEF Entry, history, Quiet
  <2> QED
    BY <1>7, <2>1, QuietEntry
<1>8. CASE Finish \/ UNCHANGED vars
  <2>1. /\ UNCHANGED <<db, config, scan, at, series, neighbors, stable, repeated>>
        /\ pc' = pc \/ (pc = "loop" /\ pc' = "done")
    BY <1>8 DEF Finish, vars, counts, history
  <2>2. Quiet
    BY <2>1, Zenon DEF Quiet
  <2>3. WantedKeys' = WantedKeys /\ FirstNeighbors' = FirstNeighbors /\ ToVisit' = ToVisit
    BY <2>1, SameTable DEF ToVisit
  <2>4. OnceInv'
    BY <2>1, <2>2 DEF QuietInv, OnceInv
  <2>5. ASSUME pc' \in {"loop", "read", "done"} PROVE LoopFacts'
    <3>1. LoopFacts /\ (pc' = "read" => pc = "read")
      BY <2>1, <2>2, <2>5 DEF QuietInv
    <3>2. OrderInv' /\ ShownInv'
      BY <2>1, <2>3, <3>1 DEF LoopFacts, OrderInv, ShownInv, Shown
    <3>3. ReadInv => ReadInv'
      BY <2>1 DEF ReadInv
    <3> QED
      BY <3>1, <3>2, <3>3 DEF LoopFacts
  <2> QED
    BY <2>4, <2>5
<1>9. ASSUME NEW k \in Keys, Change(k) PROVE FALSE
  BY <1>9 DEF Change, Quiet
<1> QED
  BY <1>1, <1>2, <1>3, <1>4, <1>5, <1>6, <1>7, <1>8, <1>9 DEF Next, VisitKey

LEMMA QuietInvariant == Spec => []QuietInv
<1>1. Init => QuietInv
  <2> SUFFICES ASSUME Init PROVE QuietInv
    OBVIOUS
  <2>1. pc = "scan" /\ scan.found = [k \in Keys |-> 0]
    BY DEF Init, Redis!ScanOf
  <2> QED
    BY <2>1 DEF QuietInv, OnceInv
<1>2. IInv /\ IInv' /\ QuietInv /\ [Next]_vars => QuietInv'
  BY QuietStep
<1> QED
  BY <1>1, <1>2, Invariant, PTL DEF Spec

\* A table that does not change gives the same series at every refresh, however
\* SCAN orders its keys: those of the first neighbors by name.
THEOREM QuietLldpIsExact == Spec => []QuietScrapeIsExact
<1>1. IInv /\ QuietInv => QuietScrapeIsExact
  <2> SUFFICES ASSUME IInv, QuietInv, pc = "done", Quiet
               PROVE  /\ neighbors = Cardinality(FirstNeighbors)
                      /\ \A k \in Keys, p \in Peers :
                           series[<<k, p>>] = IF k \in FirstNeighbors /\ p = db[k] THEN 1 ELSE 0
    BY DEF QuietScrapeIsExact, Quiet
  <2>1. ToVisit = {}
    <3>1. \A k \in Keys : scan.found[k] = 0 /\ at # k
      BY KeysAssumption DEF IInv, PhaseInv
    <3> QED
      BY <3>1 DEF ToVisit
  <2>2. Shown = FirstNeighbors
    BY <2>1 DEF Shown
  <2>3. ShownInv
    BY DEF QuietInv, LoopFacts
  <2> QED
    BY <2>2, <2>3 DEF ShownInv
<1> QED
  BY <1>1, Invariant, QuietInvariant, PTL

=============================================================================
