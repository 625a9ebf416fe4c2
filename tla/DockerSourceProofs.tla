-------------------------- MODULE DockerSourceProofs --------------------------
(***************************************************************************)
(* Proofs about DockerSource, for any containers, limit, threshold, skew   *)
(* and duration of a refresh: what the flag and the containers on display  *)
(* say of the update time next to them.                                    *)
(***************************************************************************)
EXTENDS DockerSource, TLAPS

\* An update in progress has written some entries with its number, and the others
\* still have the number of the update before it.
UpdateInv ==
  /\ unwritten # {} => current < Updates
  /\ stamp.update <= current
  /\ \A c \in Containers : entry[c] \notin {Absent, Nameless} =>
       entry[c] = IF unwritten # {} /\ c \notin unwritten THEN current + 1 ELSE current

\* What the refresh in progress has read.
GotInv ==
  /\ got.stamp.update <= current
  /\ \A c \in Containers : got.containers[c] # Absent => got.containers[c] >= got.stamp.update
  /\ got.stale = 0 => got.stamp.known /\ got.stamp.age <= Threshold + elapsed
  /\ pc = "idle" => got.stale = 1

\* What is published.
CacheInv ==
  /\ \A c \in Containers :
       cache.containers[c] # Absent => cache.containers[c] >= cache.stamp.update
  /\ cache.stale = 0 => cache.stamp.age <= Threshold + age + Longest

IInv == TypeOK /\ UpdateInv /\ GotInv /\ CacheInv

-----------------------------------------------------------------------------
LEMMA StampFacts ==
  ASSUME NEW s \in Stamps
  PROVE  /\ s.age \in Ages /\ s.update \in 0 .. Updates
         /\ s.known => s \in [known : {TRUE}, age : Ages, update : 0 .. Updates]
<1>1. 0 \in Ages /\ 0 \in 0 .. Updates
  BY TimeAssumption DEF Ages
<1>2. CASE s = NoStamp
  BY <1>1, <1>2 DEF NoStamp
<1>3. CASE s \in [known : {TRUE}, age : Ages, update : 0 .. Updates]
  BY <1>3
<1> QED
  BY <1>2, <1>3 DEF Stamps

\* A stamp grows older by a unit, or has reached Horizon, or is none.
LEMMA OlderFacts ==
  ASSUME NEW s \in Stamps
  PROVE  /\ Older(s) \in Stamps
         /\ Older(s).update = s.update
         /\ Older(s).known <=> s.known
         /\ Older(s).age = s.age \/ Older(s).age = s.age + 1
<1>1. s.age \in Ages /\ s.update \in 0 .. Updates
  BY StampFacts
<1>2. CASE s.known /\ s.age < Horizon
  <2>1. s \in [known : {TRUE}, age : Ages, update : 0 .. Updates]
    BY <1>2, StampFacts
  <2>2. Older(s) = [known |-> TRUE, age |-> s.age + 1, update |-> s.update]
    BY <1>2, <2>1 DEF Older
  <2>3. s.age + 1 \in Ages
    BY <1>1, <1>2, TimeAssumption DEF Ages
  <2>4. Older(s) \in Stamps
    BY <1>1, <2>2, <2>3 DEF Stamps
  <2> QED
    BY <1>2, <2>2, <2>4
<1>3. CASE ~(s.known /\ s.age < Horizon)
  BY <1>3 DEF Older
<1> QED
  BY <1>2, <1>3

LEMMA NoReadType == NoRead \in Reads
<1>1. NoStamp \in Stamps
  BY DEF Stamps
<1>2. [c \in Containers |-> Absent] \in [Containers -> {Absent} \cup 0 .. Updates]
  OBVIOUS
<1> QED
  BY <1>1, <1>2 DEF NoRead, Reads

LEMMA InitIInv == Init => IInv
<1> SUFFICES ASSUME Init PROVE IInv
  OBVIOUS
<1> USE TimeAssumption DEF Init
<1>1. stamp \in Stamps /\ stamp.update = 0
  <2>1. CASE stamp = NoStamp
    BY <2>1 DEF Stamps, NoStamp
  <2>2. CASE stamp \in [known : {TRUE}, age : Ages, update : {0}]
    <3>1. PICK a \in Ages : stamp = [known |-> TRUE, age |-> a, update |-> 0]
      BY <2>2
    <3>2. 0 \in 0 .. Updates
      OBVIOUS
    <3> QED
      BY <3>1, <3>2 DEF Stamps
  <2> QED
    BY <2>1, <2>2
<1>2. cache \in Reads /\ got \in Reads
  <2>1. cache = [stamp |-> NoStamp, stale |-> 0, containers |-> [c \in Containers |-> Absent]]
    BY DEF NoRead
  <2>2. NoStamp \in Stamps
    BY DEF Stamps
  <2> QED
    BY <2>1, <2>2, NoReadType DEF Reads
<1>3. entry \in [Containers -> Entries]
  BY DEF Entries
<1>4. ok \in BOOLEAN
  BY Zenon
<1>5. TypeOK
  BY <1>1, <1>2, <1>3, <1>4, LimitsAssumption DEF TypeOK
<1>6. UpdateInv
  BY <1>1 DEF UpdateInv
<1>7. GotInv
  BY DEF GotInv, NoRead, NoStamp
<1>8. CacheInv
  BY DEF CacheInv, NoRead, NoStamp
<1> QED
  BY <1>5, <1>6, <1>7, <1>8 DEF IInv

-----------------------------------------------------------------------------
(* One lemma for each kind of step.                                        *)

LEMMA BeginUpdateStep == IInv /\ BeginUpdate => IInv'
<1> SUFFICES ASSUME IInv, BeginUpdate PROVE IInv'
  OBVIOUS
<1>1. /\ unwritten = {} /\ current < Updates /\ unwritten' = Containers
      /\ stamp' \in {stamp, NoStamp}
      /\ UNCHANGED <<entry, current, limit, pc, elapsed, locals, fields, age>>
  BY DEF BeginUpdate
<1>2. stamp' \in Stamps /\ stamp'.update <= current
  <2>1. CASE stamp' = stamp
    BY <2>1 DEF IInv, TypeOK, UpdateInv
  <2>2. CASE stamp' = NoStamp
    BY <2>2 DEF IInv, TypeOK, Stamps, NoStamp
  <2> QED
    BY <1>1, <2>1, <2>2
<1>3. TypeOK'
  BY <1>1, <1>2 DEF IInv, TypeOK, locals, fields
<1>4. UpdateInv'
  BY <1>1, <1>2 DEF IInv, UpdateInv
<1>5. GotInv' /\ CacheInv'
  BY <1>1 DEF IInv, GotInv, CacheInv, locals, fields
<1> QED
  BY <1>3, <1>4, <1>5 DEF IInv

LEMMA WriteEntryStep ==
  ASSUME IInv, NEW c \in Containers, WriteEntry(c)
  PROVE  IInv'
<1>1. /\ c \in unwritten /\ unwritten' = unwritten \ {c}
      /\ UNCHANGED <<limit, pc, elapsed, locals, fields, age>>
  BY DEF WriteEntry
<1>2. PICK e \in {Absent, Nameless, current + 1} : entry' = [entry EXCEPT ![c] = e]
  BY DEF WriteEntry
<1>3. /\ entry \in [Containers -> Entries] /\ current \in 0 .. Updates /\ stamp \in Stamps
      /\ current < Updates /\ Updates \in Nat
  BY <1>1, TimeAssumption DEF IInv, TypeOK, UpdateInv
<1>4. entry' \in [Containers -> Entries]
  BY <1>2, <1>3 DEF Entries
<1>5. current' \in 0 .. Updates /\ stamp' \in Stamps /\ current <= current'
      /\ stamp'.update <= current'
  <2>1. CASE unwritten = {c}
    <3>1. current' = current + 1
      BY <2>1 DEF WriteEntry
    <3>2. CASE stamp' = NoStamp
      BY <1>3, <3>1, <3>2 DEF Stamps, NoStamp
    <3>3. CASE stamp' # NoStamp
      <4>1. PICK a \in -Skew .. 0 :
              stamp' = [known |-> TRUE, age |-> a, update |-> current + 1]
        BY <2>1, <3>3 DEF WriteEntry
      <4>2. a \in Ages /\ current + 1 \in 0 .. Updates
        BY <1>3, TimeAssumption DEF Ages
      <4> QED
        BY <1>3, <3>1, <4>1, <4>2 DEF Stamps
    <3> QED
      BY <3>2, <3>3
  <2>2. CASE unwritten # {c}
    BY <1>3, <2>2 DEF WriteEntry, IInv, UpdateInv
  <2> QED
    BY <2>1, <2>2
<1>6. TypeOK'
  BY <1>1, <1>4, <1>5 DEF IInv, TypeOK, locals, fields
<1>7. UpdateInv'
  <2>1. CASE unwritten = {c}
    <3>1. current' = current + 1 /\ unwritten' = {}
      BY <1>1, <2>1 DEF WriteEntry
    <3>2. ASSUME NEW d \in Containers, entry'[d] \notin {Absent, Nameless}
          PROVE  entry'[d] = current'
      <4>1. CASE d = c
        BY <1>2, <1>3, <3>1, <3>2, <4>1
      <4>2. CASE d # c
        BY <1>2, <1>3, <2>1, <3>1, <3>2, <4>2 DEF IInv, UpdateInv
      <4> QED
        BY <4>1, <4>2
    <3> QED
      BY <1>5, <3>1, <3>2 DEF UpdateInv
  <2>2. CASE unwritten # {c}
    <3>1. current' = current /\ unwritten' # {} /\ unwritten # {}
      BY <1>1, <2>2 DEF WriteEntry
    <3>2. ASSUME NEW d \in Containers, entry'[d] \notin {Absent, Nameless}
          PROVE  entry'[d] = IF unwritten' # {} /\ d \notin unwritten' THEN current' + 1
                             ELSE current'
      <4>1. CASE d = c
        BY <1>1, <1>2, <1>3, <3>1, <3>2, <4>1
      <4>2. CASE d # c
        BY <1>1, <1>2, <1>3, <3>1, <3>2, <4>2 DEF IInv, UpdateInv
      <4> QED
        BY <4>1, <4>2
    <3> QED
      BY <1>3, <1>5, <3>1, <3>2 DEF UpdateInv
  <2> QED
    BY <2>1, <2>2
<1>8. GotInv'
  <2>1. got.stamp.update \in 0 .. Updates
    BY StampFacts DEF IInv, TypeOK, Reads
  <2>2. got' = got /\ elapsed' = elapsed /\ pc' = pc
    BY <1>1 DEF locals
  <2>3. got'.stamp.update <= current'
    BY <1>3, <1>5, <2>1, <2>2 DEF IInv, GotInv
  <2> QED
    BY <2>2, <2>3 DEF IInv, GotInv
<1>9. CacheInv'
  BY <1>1 DEF IInv, CacheInv, fields
<1> QED
  BY <1>6, <1>7, <1>8, <1>9 DEF IInv

\* A refresh that has read nothing.
LEMMA NoReadInv == IInv /\ got' = NoRead /\ current' = current => GotInv'
<1> SUFFICES ASSUME IInv, got' = NoRead, current' = current PROVE GotInv'
  OBVIOUS
<1>1. /\ got'.stamp.update = 0 /\ got'.stale = 1
      /\ \A c \in Containers : got'.containers[c] = Absent
  BY DEF NoRead, NoStamp
<1>2. current' \in Nat
  BY TimeAssumption DEF IInv, TypeOK
<1> QED
  BY <1>1, <1>2 DEF GotInv

LEMMA ReadStampStep == IInv /\ ReadStamp => IInv'
<1> SUFFICES ASSUME IInv, ReadStamp PROVE IInv'
  OBVIOUS
<1>1. /\ pc' = "scan"
      /\ UNCHANGED <<source, limit, elapsed, ok, toRead, fields, age>>
  BY DEF ReadStamp
<1>2. got' = [stamp |-> stamp, stale |-> Stale(stamp),
              containers |-> [c \in Containers |-> Absent]]
  BY DEF ReadStamp, NoRead
<1>3. stamp \in Stamps /\ stamp.age \in Ages /\ stamp.update \in 0 .. Updates
  BY StampFacts DEF IInv, TypeOK
<1>4. got' \in Reads
  <2>1. Stale(stamp) \in {0, 1}
    BY DEF Stale
  <2>2. [c \in Containers |-> Absent] \in [Containers -> {Absent} \cup 0 .. Updates]
    OBVIOUS
  <2> QED
    BY <1>2, <1>3, <2>1, <2>2 DEF Reads
<1>5. TypeOK'
  BY <1>1, <1>4 DEF IInv, TypeOK, source, fields
<1>6. UpdateInv' /\ CacheInv'
  BY <1>1 DEF IInv, UpdateInv, CacheInv, source, fields
<1>7. GotInv'
  <2>1. got'.stamp = stamp /\ got'.stale = Stale(stamp)
        /\ \A c \in Containers : got'.containers[c] = Absent
    BY <1>2
  <2>2. got'.stamp.update <= current'
    BY <1>1, <2>1 DEF IInv, UpdateInv, source
  <2>3. ASSUME got'.stale = 0 PROVE got'.stamp.known /\ got'.stamp.age <= Threshold + elapsed'
    <3>1. stamp.known /\ ~(stamp.age > Threshold)
      BY <2>1, <2>3 DEF Stale
    <3>2. elapsed' \in Nat /\ Threshold \in Nat /\ stamp.age \in Int
      BY <1>1, <1>3, TimeAssumption DEF IInv, TypeOK, Ages
    <3>3. stamp.age <= Threshold + elapsed'
      BY <3>1, <3>2
    <3> QED
      BY <2>1, <3>1, <3>3
  <2> QED
    BY <1>1, <2>1, <2>2, <2>3 DEF GotInv
<1> QED
  BY <1>5, <1>6, <1>7 DEF IInv

LEMMA VisitStep ==
  ASSUME IInv, NEW c \in Containers, Visit(c)
  PROVE  IInv'
<1>1. /\ toRead' = toRead \ {c}
      /\ UNCHANGED <<source, limit, pc, elapsed, ok, fields, age>>
  BY DEF Visit
<1>2. CASE got' = got
  <2>1. TypeOK'
    BY <1>1, <1>2 DEF IInv, TypeOK, source, fields
  <2>2. UpdateInv' /\ GotInv' /\ CacheInv'
    BY <1>1, <1>2 DEF IInv, UpdateInv, GotInv, CacheInv, source, fields
  <2> QED
    BY <2>1, <2>2 DEF IInv
<1>3. CASE got' # got
  <2>1. got' = [got EXCEPT !.containers[c] = entry[c]] /\ entry[c] \notin {Absent, Nameless}
    BY <1>3 DEF Visit
  <2>2. got \in Reads /\ got.stamp \in Stamps /\ entry[c] \in Entries
        /\ got.containers \in [Containers -> {Absent} \cup 0 .. Updates]
    BY DEF IInv, TypeOK, Reads
  <2>3. entry[c] \in 0 .. Updates
    BY <2>1, <2>2 DEF Entries
  <2>4. got'.stamp = got.stamp /\ got'.stale = got.stale
        /\ got'.containers = [got.containers EXCEPT ![c] = entry[c]]
    BY <2>1, <2>2 DEF Reads
  <2>5. got' \in Reads
    BY <2>1, <2>2, <2>3 DEF Reads
  <2>6. TypeOK'
    BY <1>1, <2>5 DEF IInv, TypeOK, source, fields
  <2>7. UpdateInv' /\ CacheInv'
    BY <1>1 DEF IInv, UpdateInv, CacheInv, source, fields
  <2>8. GotInv'
    <3>1. entry[c] >= got.stamp.update
      <4>1. current \in Nat /\ got.stamp.update \in Int /\ got.stamp.update <= current
        <5>1. got.stamp.update \in 0 .. Updates
          BY <2>2, StampFacts
        <5>2. current \in 0 .. Updates /\ Updates \in Nat
          BY TimeAssumption DEF IInv, TypeOK
        <5> QED
          BY <5>1, <5>2 DEF IInv, GotInv
      <4>2. entry[c] = current \/ entry[c] = current + 1
        BY <2>1 DEF IInv, UpdateInv
      <4> QED
        BY <4>1, <4>2
    <3>2. ASSUME NEW d \in Containers, got'.containers[d] # Absent
          PROVE  got'.containers[d] >= got'.stamp.update
      <4>1. CASE d = c
        BY <2>2, <2>4, <3>1, <4>1
      <4>2. CASE d # c
        BY <2>2, <2>4, <3>2, <4>2 DEF IInv, GotInv
      <4> QED
        BY <4>1, <4>2
    <3>3. got'.stamp.update <= current'
      BY <1>1, <2>4 DEF IInv, GotInv, source
    <3>4. /\ got'.stale = 0 => got'.stamp.known /\ got'.stamp.age <= Threshold + elapsed'
          /\ pc' = "idle" => got'.stale = 1
      BY <1>1, <2>4 DEF IInv, GotInv
    <3> QED
      BY <3>2, <3>3, <3>4 DEF GotInv
  <2> QED
    BY <2>6, <2>7, <2>8 DEF IInv
<1> QED
  BY <1>2, <1>3

\* The steps that leave what was read alone, and those that throw it away.
LEMMA ControlStep == IInv /\ (Scan \/ EndOfKeys \/ StartRefresh \/ Fail) => IInv'
<1> SUFFICES ASSUME IInv, Scan \/ EndOfKeys \/ StartRefresh \/ Fail PROVE IInv'
  OBVIOUS
<1>1. UNCHANGED <<source, limit, elapsed, fields, age>> /\ (got' = got \/ got' = NoRead)
      /\ toRead' \subseteq Containers
  BY DEF Scan, EndOfKeys, StartRefresh, Fail, locals, IInv, TypeOK
<1>2. pc' \in {"stamp", "read", "publish"}
  BY DEF Scan, EndOfKeys, StartRefresh, Fail
<1>3. ok' \in BOOLEAN
  <2>1. ok \in BOOLEAN
    BY DEF IInv, TypeOK
  <2>2. ok' = ok \/ ok' = TRUE \/ ok' = FALSE
    BY Zenon DEF Scan, EndOfKeys, StartRefresh, Fail, locals
  <2> QED
    BY <2>1, <2>2, Zenon
<1>4. TypeOK'
  <2>1. got' \in Reads
    BY <1>1, NoReadType DEF IInv, TypeOK
  <2> QED
    BY <1>1, <1>2, <1>3, <2>1 DEF IInv, TypeOK, source, fields
<1>5. UpdateInv' /\ CacheInv'
  BY <1>1 DEF IInv, UpdateInv, CacheInv, source, fields
<1>6. GotInv'
  <2>1. CASE got' = got
    BY <1>1, <1>2, <2>1 DEF IInv, GotInv, source
  <2>2. CASE got' = NoRead
    BY <1>1, <2>2, NoReadInv DEF source
  <2> QED
    BY <1>1, <2>1, <2>2
<1> QED
  BY <1>4, <1>5, <1>6 DEF IInv

LEMMA PublishStep == IInv /\ Publish => IInv'
<1> SUFFICES ASSUME IInv, Publish PROVE IInv'
  OBVIOUS
<1>1. /\ pc' = "idle" /\ duration' = elapsed /\ ok' = FALSE /\ got' = NoRead /\ elapsed' = 0
      /\ UNCHANGED <<source, limit, toRead>>
      /\ \/ cache' = got /\ success' = 1 /\ age' = 0
         \/ cache' = cache /\ success' = 0 /\ age' = age
  BY DEF Publish
<1>2. ok' \in BOOLEAN
  BY <1>1, Zenon
<1>3. TypeOK'
  <2>1. cache' \in Reads /\ success' \in {0, 1} /\ age' \in 0 .. Horizon
    BY <1>1, TimeAssumption DEF IInv, TypeOK
  <2>2. elapsed' \in 0 .. Longest
    BY <1>1, TimeAssumption
  <2> QED
    BY <1>1, <1>2, <2>1, <2>2, NoReadType DEF IInv, TypeOK, source
<1>4. UpdateInv' /\ GotInv'
  BY <1>1, NoReadInv DEF IInv, UpdateInv, source
<1>5. CacheInv'
  <2>1. CASE cache' = got /\ age' = 0
    <3>1. \A c \in Containers :
            cache'.containers[c] # Absent => cache'.containers[c] >= cache'.stamp.update
      BY <2>1 DEF IInv, GotInv
    <3>2. ASSUME got.stale = 0 PROVE got.stamp.age <= Threshold + 0 + Longest
      <4>1. got.stamp.age <= Threshold + elapsed
        BY <3>2 DEF IInv, GotInv
      <4>2. got.stamp.age \in Int /\ elapsed \in Nat /\ elapsed <= Longest
            /\ Threshold \in Nat /\ Longest \in Nat
        <5>1. got.stamp \in Stamps
          BY DEF IInv, TypeOK, Reads
        <5>2. got.stamp.age \in Ages
          BY <5>1, StampFacts
        <5>3. elapsed \in 0 .. Longest
          BY DEF IInv, TypeOK
        <5> QED
          BY <5>2, <5>3, TimeAssumption DEF Ages
      <4> QED
        BY <4>1, <4>2
    <3> QED
      BY <2>1, <3>1, <3>2 DEF CacheInv
  <2>2. CASE cache' = cache /\ age' = age
    BY <2>2 DEF IInv, CacheInv
  <2> QED
    BY <1>1, <2>1, <2>2
<1> QED
  BY <1>3, <1>4, <1>5 DEF IInv

LEMMA TickStep == IInv /\ Tick => IInv'
<1> SUFFICES ASSUME IInv, Tick PROVE IInv'
  OBVIOUS
<1>1. /\ elapsed' = elapsed \/ (elapsed < Longest /\ elapsed' = elapsed + 1)
      /\ stamp' = Older(stamp)
      /\ got' = [got EXCEPT !.stamp = Older(got.stamp)]
      /\ cache' = [cache EXCEPT !.stamp = Older(cache.stamp)]
      /\ age' = IF age < Horizon THEN age + 1 ELSE age
      /\ UNCHANGED <<entry, current, unwritten, limit, pc, ok, toRead, success, duration>>
  BY DEF Tick
<1>2. /\ stamp \in Stamps /\ got \in Reads /\ got.stamp \in Stamps
      /\ cache \in Reads /\ cache.stamp \in Stamps
  BY DEF IInv, TypeOK, Reads
<1>3. /\ got'.stamp = Older(got.stamp) /\ got'.stale = got.stale
      /\ got'.containers = got.containers
      /\ cache'.stamp = Older(cache.stamp) /\ cache'.stale = cache.stale
      /\ cache'.containers = cache.containers
  BY <1>1, <1>2 DEF Reads
<1>4. got' \in Reads /\ cache' \in Reads /\ stamp' \in Stamps
  <2>1. Older(got.stamp) \in Stamps /\ Older(cache.stamp) \in Stamps
    BY <1>2, OlderFacts
  <2> QED
    BY <1>1, <1>2, <2>1, OlderFacts DEF Reads
<1>5. TypeOK'
  <2>1. elapsed' \in 0 .. Longest /\ age' \in 0 .. Horizon
    BY <1>1, TimeAssumption DEF IInv, TypeOK
  <2> QED
    BY <1>1, <1>4, <2>1 DEF IInv, TypeOK
<1>6. UpdateInv'
  BY <1>1, <1>2, OlderFacts DEF IInv, UpdateInv
<1>7. GotInv'
  <2>1. got.stamp.age \in Int /\ Threshold \in Nat /\ elapsed \in Nat
    <3>1. got.stamp.age \in Ages
      BY <1>2, StampFacts
    <3>2. elapsed \in 0 .. Longest
      BY DEF IInv, TypeOK
    <3> QED
      BY <3>1, <3>2, TimeAssumption DEF Ages
  <2>2. ASSUME got.stale = 0
        PROVE  got'.stamp.known /\ got'.stamp.age <= Threshold + elapsed'
    <3>1. got.stamp.known /\ got.stamp.age <= Threshold + elapsed /\ pc # "idle"
      BY <2>2 DEF IInv, GotInv
    <3>2. elapsed' = elapsed + 1
      BY <3>1 DEF Tick
    <3>3. got'.stamp.known
      BY <1>2, <1>3, <3>1, OlderFacts
    <3>4. got'.stamp.age = got.stamp.age \/ got'.stamp.age = got.stamp.age + 1
      BY <1>2, <1>3, OlderFacts
    <3>5. got'.stamp.age <= Threshold + elapsed'
      BY <2>1, <3>1, <3>2, <3>4
    <3> QED
      BY <3>3, <3>5
  <2>3. got'.stamp.update = got.stamp.update
    BY <1>2, <1>3, OlderFacts
  <2> QED
    BY <1>1, <1>3, <2>2, <2>3 DEF IInv, GotInv
<1>8. CacheInv'
  <2>1. cache.stamp.age \in Ages /\ age \in 0 .. Horizon /\ Horizon \in Nat
        /\ Threshold \in Nat /\ Longest \in Nat /\ Skew \in Nat
    BY <1>2, StampFacts, TimeAssumption DEF IInv, TypeOK
  <2>2. ASSUME cache.stale = 0 PROVE cache'.stamp.age <= Threshold + age' + Longest
    <3>1. cache.stamp.age <= Threshold + age + Longest
      BY <2>2 DEF IInv, CacheInv
    <3>2. cache'.stamp.age = cache.stamp.age \/ cache'.stamp.age = cache.stamp.age + 1
      BY <1>2, <1>3, OlderFacts
    <3>3. CASE age < Horizon
      <4>1. age' = age + 1
        BY <1>1, <3>3
      <4> QED
        BY <2>1, <3>1, <3>2, <4>1 DEF Ages
    <3>4. CASE ~(age < Horizon)
      <4>1. age' = Horizon
        BY <1>1, <2>1, <3>4
      <4>2. cache'.stamp.age \in Ages
        BY <1>2, <1>3, OlderFacts, StampFacts
      <4> QED
        BY <2>1, <4>1, <4>2 DEF Ages
    <3> QED
      BY <3>3, <3>4
  <2>3. cache'.stamp.update = cache.stamp.update
    BY <1>2, <1>3, OlderFacts
  <2> QED
    BY <1>3, <2>2, <2>3 DEF IInv, CacheInv
<1> QED
  BY <1>5, <1>6, <1>7, <1>8 DEF IInv

LEMMA NextIInv == IInv /\ [Next]_vars => IInv'
<1> SUFFICES ASSUME IInv, [Next]_vars PROVE IInv'
  OBVIOUS
<1>1. CASE UNCHANGED vars
  BY <1>1 DEF vars, source, locals, fields, IInv, TypeOK, UpdateInv, GotInv, CacheInv
<1>2. CASE BeginUpdate
  BY <1>2, BeginUpdateStep
<1>3. CASE \E c \in Containers : WriteEntry(c)
  BY <1>3, WriteEntryStep
<1>4. CASE ReadStamp
  BY <1>4, ReadStampStep
<1>5. CASE \E c \in Containers : Visit(c)
  BY <1>5, VisitStep
<1>6. CASE Scan \/ EndOfKeys \/ StartRefresh \/ Fail
  BY <1>6, ControlStep
<1>7. CASE Publish
  BY <1>7, PublishStep
<1>8. CASE Tick
  BY <1>8, TickStep
<1> QED
  BY <1>1, <1>2, <1>3, <1>4, <1>5, <1>6, <1>7, <1>8 DEF Next, Daemon, Refresher

-----------------------------------------------------------------------------
\* The state of the Docker collector and of its source stays in its type.
THEOREM DockerTypeCorrect == Spec => []TypeOK
<1>1. IInv => TypeOK
  BY DEF IInv
<1> QED
  BY <1>1, InitIInv, NextIInv, PTL DEF Spec, SafetySpec

\* For every threshold, source_stale 0 bounds source_age_seconds by the threshold,
\* cache_age_seconds and the duration of a refresh.
THEOREM NotStaleIsRecent == Spec => []NotStaleMeansRecent
<1>1. IInv => NotStaleMeansRecent
  <2> SUFFICES ASSUME IInv, cache.stale = 0 PROVE SourceAge <= Threshold + age + Longest
    BY DEF NotStaleMeansRecent
  <2>1. cache.stamp.age <= Threshold + age + Longest
    BY DEF IInv, CacheInv
  <2>2. age \in Nat /\ Threshold \in Nat /\ Longest \in Nat
    BY TimeAssumption DEF IInv, TypeOK
  <2> QED
    BY <2>1, <2>2 DEF SourceAge
<1> QED
  BY <1>1, InitIInv, NextIInv, PTL DEF Spec, SafetySpec

\* For any number of containers and updates, no container on display was written
\* by an update before the one whose time is on display.
THEOREM ContainersAreOfStamp == Spec => []ContainersMatchStamp
<1>1. IInv => ContainersMatchStamp
  BY DEF IInv, CacheInv, ContainersMatchStamp
<1> QED
  BY <1>1, InitIInv, NextIInv, PTL DEF Spec, SafetySpec

=============================================================================
