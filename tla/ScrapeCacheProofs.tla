------------------------- MODULE ScrapeCacheProofs -------------------------
(***************************************************************************)
(* Proofs about ScrapeCache, for any scrapes, ports and window.            *)
(***************************************************************************)
EXTENDS ScrapeCache, TLAPS

-----------------------------------------------------------------------------
(* The inductive invariant.                                                *)

\* The mutex is held from check to unlock, by one scrape.
MutexInv == \A c \in Scrapes : mu = c <=> pc[c] \notin {"idle", "lock"}

\* The error flag is down until scrapeMetrics has returned.
ErrInv ==
  \A c \in Scrapes : err[c] => pc[c] \in {"health", "emit", "unlock"}

\* The groups of the port being visited that were appended when a refresh is
\* at a step.
DoneGroups(step) ==
  {g \in PortGroups :
     CASE step = "counters"  -> FALSE
       [] step = "config"    -> g = "counters"
       [] step = "operation" -> g \in {"counters", "config"}
       [] OTHER              -> TRUE}

\* A refresh under way has appended what it visited, once, and nothing else.
Progress(c) ==
  /\ left[c] \subseteq listed
  /\ pc[c] \in {"counters", "config", "operation"} => port[c] \in listed \ left[c]
  /\ pc[c] \in {"optics", "finish"} => left[c] = {}
  /\ \A p \in Ports, g \in PortGroups :
       cachedMetrics[<<p, g>>] =
         IF p \in listed \ left[c] /\ (p = port[c] => g \in DoneGroups(pc[c]))
         THEN 1 ELSE 0
  /\ cachedMetrics[<<Collector, "optics">>] \in IF pc[c] = "finish" THEN {0, 1} ELSE {0}
  /\ \A g \in {"duration", "success", "failure"} : cachedMetrics[<<Collector, g>>] = 0

\* What a refresh that failed has left behind.
Remains ==
  /\ \A s \in Series : cachedMetrics[s] \in {0, 1}
  /\ cachedMetrics[<<Collector, "success">>] = 0

AllButSuccess ==
  /\ \A p \in Ports, g \in PortGroups :
       cachedMetrics[<<p, g>>] = IF p \in listed THEN 1 ELSE 0
  /\ cachedMetrics[<<Collector, "duration">>] = 1
  /\ cachedMetrics[<<Collector, "optics">>] \in {0, 1}
  /\ cachedMetrics[<<Collector, "success">>] = 0
  /\ cachedMetrics[<<Collector, "failure">>] = 0

\* The cache as the holder of the mutex sees it.
Holder(c) ==
  /\ pc[c] = "check" /\ age < Window => Complete(cachedMetrics, listed)
  /\ pc[c] \in Steps \cup {"reset"} => age = Window
  /\ pc[c] = "names" => cachedMetrics = None
  /\ pc[c] \in Steps \ {"names"} => Progress(c)
  /\ pc[c] = "health" =>
       IF err[c]
       THEN age = Window /\ Remains /\ cachedMetrics[<<Collector, "failure">>] = 0
       ELSE AllButSuccess
  /\ pc[c] \in {"emit", "unlock"} =>
       IF err[c]
       THEN age = Window /\ Remains /\ cachedMetrics[<<Collector, "failure">>] = 1
       ELSE Complete(cachedMetrics, listed)
  /\ pc[c] = "unlock" => out[c] = cachedMetrics

HolderInv == \A c \in Scrapes : Holder(c)

IInv == TypeOK /\ MutexInv /\ ErrInv /\ HolderInv /\ FailureIsNotCached

-----------------------------------------------------------------------------
(* Series.                                                                 *)

LEMMA SeriesFacts ==
  /\ \A p \in Ports, g \in PortGroups : <<p, g>> \in Series
  /\ \A g \in OwnGroups : <<Collector, g>> \in Series
  /\ \A p \in Ports, g, h \in PortGroups \cup OwnGroups : <<p, g>> # <<Collector, h>>
  /\ "optics" \in OwnGroups /\ "duration" \in OwnGroups
  /\ "success" \in OwnGroups /\ "failure" \in OwnGroups
  /\ "counters" \in PortGroups /\ "config" \in PortGroups /\ "operation" \in PortGroups
  BY NameAssumption DEF Series, PortGroups, OwnGroups

LEMMA AppendType ==
  ASSUME cachedMetrics \in [Series -> Nat], NEW s, AppendSeries(s)
  PROVE  cachedMetrics' \in [Series -> Nat]
<1>1. cachedMetrics' = [x \in Series |-> IF x = s THEN cachedMetrics[s] + 1
                                                 ELSE cachedMetrics[x]]
  BY DEF AppendSeries
<1>2. CASE s \in Series
  BY <1>1, <1>2
<1>3. CASE s \notin Series
  <2>1. \A x \in Series : x # s
    BY <1>3
  <2> QED
    BY <1>1, <2>1
<1> QED
  BY <1>2, <1>3

\* What an append does to each series.
LEMMA Appended ==
  ASSUME cachedMetrics \in [Series -> Nat], NEW s \in Series, AppendSeries(s)
  PROVE  /\ cachedMetrics'[s] = cachedMetrics[s] + 1
         /\ \A x \in Series : x # s => cachedMetrics'[x] = cachedMetrics[x]
<1>1. DOMAIN cachedMetrics = Series
  OBVIOUS
<1>2. cachedMetrics' = [x \in Series |-> IF x = s THEN cachedMetrics[s] + 1
                                                 ELSE cachedMetrics[x]]
  BY <1>1 DEF AppendSeries
<1> QED
  BY <1>2

-----------------------------------------------------------------------------
(* Types.                                                                  *)

LEMMA NoneType == None \in [Series -> Nat]
  BY DEF None

LEMMA TypeInit == Init => TypeOK
<1> SUFFICES ASSUME Init PROVE TypeOK
  OBVIOUS
<1> USE DEF Init
<1>1. out \in [Scrapes -> [Series -> Nat]] /\ cachedMetrics \in [Series -> Nat]
  BY NoneType
<1>2. pc \in [Scrapes -> Steps \cup {"idle", "lock", "check", "reset", "health",
                                    "emit", "unlock"}]
  OBVIOUS
<1>3. /\ mu \in Scrapes \cup {Nobody}
      /\ age \in 0 .. Window
      /\ left \in [Scrapes -> SUBSET Ports]
      /\ port \in [Scrapes -> Ports \cup {Collector}]
      /\ err \in [Scrapes -> BOOLEAN]
      /\ listed \subseteq Ports
  BY WindowAssumption
<1> QED
  BY <1>1, <1>2, <1>3 DEF TypeOK

LEMMA TypeStep == TypeOK /\ [Next]_vars => TypeOK'
<1> SUFFICES ASSUME TypeOK, [Next]_vars PROVE TypeOK'
  OBVIOUS
<1> USE DEF TypeOK
<1>1. CASE UNCHANGED vars
  BY <1>1 DEF vars, locals
<1>2. CASE TimePasses
  BY <1>2, WindowAssumption DEF TimePasses, locals
<1>3. ASSUME NEW c \in Scrapes, Call(c) \/ Lock(c) \/ Check(c) PROVE TypeOK'
  BY <1>3 DEF Call, Lock, Check, Goto, locals, Steps
<1>4. ASSUME NEW c \in Scrapes, Health(c) PROVE TypeOK'
  BY <1>4, AppendType DEF Health, Goto, locals, Steps
<1>5. ASSUME NEW c \in Scrapes, Emit(c) PROVE TypeOK'
  BY <1>5 DEF Emit, Goto, locals, Steps
<1>6. ASSUME NEW c \in Scrapes, Unlock(c) PROVE TypeOK'
  BY <1>6, NoneType DEF Unlock, Goto, Steps
<1>7. ASSUME NEW c \in Scrapes, Reset(c) PROVE TypeOK'
  BY <1>7, NoneType DEF Reset, Goto, locals, Steps
<1>8. ASSUME NEW c \in Scrapes, ReadNames(c) PROVE TypeOK'
  BY <1>8 DEF ReadNames, ReturnError, Goto, Steps
<1>9. ASSUME NEW c \in Scrapes, NextPort(c) \/ NoMorePorts(c) PROVE TypeOK'
  <2>1. CASE NextPort(c)
    <3>1. PICK p \in left[c] : /\ port' = [port EXCEPT ![c] = p]
                               /\ left' = [left EXCEPT ![c] = @ \ {p}]
      BY <2>1 DEF NextPort
    <3>2. p \in Ports
      OBVIOUS
    <3> QED
      BY <2>1, <3>1, <3>2 DEF NextPort, Goto, Steps
  <2>2. CASE NoMorePorts(c)
    BY <2>2 DEF NoMorePorts, Goto, locals, Steps
  <2> QED
    BY <1>9, <2>1, <2>2
<1>10. ASSUME NEW c \in Scrapes, Counters(c) PROVE TypeOK'
  <2>1. CASE CountersRead(c)
    <3>1. cachedMetrics' \in [Series -> Nat]
      BY <2>1, AppendType DEF CountersRead
    <3> QED
      BY <1>10, <2>1, <3>1 DEF Counters, CountersRead, Goto, Steps
  <2>2. CASE CountersBroken(c)
    <3>1. cachedMetrics' \in [Series -> Nat]
      BY <2>2, AppendType DEF CountersBroken
    <3> QED
      BY <1>10, <2>2, <3>1 DEF Counters, CountersBroken, ReturnError, Goto, Steps
  <2> QED
    BY <1>10, <2>1, <2>2 DEF Counters
<1>11. ASSUME NEW c \in Scrapes, ConfigInfo(c) PROVE TypeOK'
  BY <1>11, AppendType DEF ConfigInfo, ReturnError, Goto, Steps
<1>12. ASSUME NEW c \in Scrapes, OperationInfo(c) PROVE TypeOK'
  BY <1>12, AppendType DEF OperationInfo, ReturnError, Goto, Steps
<1>13. ASSUME NEW c \in Scrapes, OpticalInfo(c) PROVE TypeOK'
  BY <1>13, AppendType DEF OpticalInfo, ReturnError, Goto, Steps
<1>14. ASSUME NEW c \in Scrapes, Finish(c) PROVE TypeOK'
  BY <1>14, AppendType, WindowAssumption DEF Finish, Goto, locals, Steps
<1> QED
  BY <1>1, <1>2, <1>3, <1>4, <1>5, <1>6, <1>7, <1>8, <1>9, <1>10, <1>11, <1>12,
     <1>13, <1>14 DEF Next, Inside, Refresh

\* The variables of interface_collector.go's Collect and scrapeMetrics keep their
\* types: no series is ever counted outside the known ones, and the age of the
\* cache stays within the window (lines 117-201).
THEOREM CacheTypeCorrect == SafetySpec => []TypeOK
  BY TypeInit, TypeStep, PTL DEF SafetySpec

-----------------------------------------------------------------------------
(* The mutex and the error flag.                                           *)

LEMMA MutexStep == TypeOK /\ MutexInv /\ [Next]_vars => MutexInv'
<1> SUFFICES ASSUME TypeOK, MutexInv, [Next]_vars PROVE MutexInv'
  OBVIOUS
<1> USE DEF MutexInv, TypeOK
<1>1. CASE UNCHANGED vars
  BY <1>1 DEF vars
<1>2. CASE TimePasses
  BY <1>2 DEF TimePasses
<1>3. ASSUME NEW c \in Scrapes, Call(c) PROVE MutexInv'
  BY <1>3 DEF Call, Goto
<1>4. ASSUME NEW c \in Scrapes, Lock(c) PROVE MutexInv'
  BY <1>4, NameAssumption DEF Lock, Goto
<1>5. ASSUME NEW c \in Scrapes, Unlock(c) PROVE MutexInv'
  BY <1>5, NameAssumption DEF Unlock, Goto
<1>6. ASSUME NEW c \in Scrapes, Check(c) \/ Health(c) \/ Emit(c) \/ Refresh(c)
      PROVE  MutexInv'
  <2>1. /\ mu' = mu
        /\ pc[c] \notin {"idle", "lock"}
        /\ \E step \in Steps \cup {"reset", "health", "emit", "unlock"} : Goto(c, step)
    BY <1>6 DEF Check, Health, Emit, Refresh, Reset, ReadNames, NextPort, NoMorePorts,
                Counters, CountersRead, CountersBroken, ConfigInfo, OperationInfo,
                OpticalInfo, Finish, ReturnError, Steps
  <2> QED
    BY <2>1 DEF Goto, Steps
<1> QED
  BY <1>1, <1>2, <1>3, <1>4, <1>5, <1>6 DEF Next, Inside

LEMMA ErrStep == TypeOK /\ ErrInv /\ [Next]_vars => ErrInv'
<1> SUFFICES ASSUME TypeOK, ErrInv, [Next]_vars PROVE ErrInv'
  OBVIOUS
<1> USE DEF ErrInv, TypeOK
<1>1. CASE UNCHANGED vars
  BY <1>1 DEF vars, locals
<1>2. CASE TimePasses
  BY <1>2 DEF TimePasses, locals
<1>3. ASSUME NEW c \in Scrapes, Call(c) \/ Lock(c) \/ Check(c) PROVE ErrInv'
  BY <1>3 DEF Call, Lock, Check, Goto, locals
<1>4. ASSUME NEW c \in Scrapes, Health(c) \/ Emit(c) PROVE ErrInv'
  BY <1>4 DEF Health, Emit, Goto, locals
<1>5. ASSUME NEW c \in Scrapes, Unlock(c) PROVE ErrInv'
  BY <1>5 DEF Unlock, Goto
<1>6. ASSUME NEW c \in Scrapes, Refresh(c) PROVE ErrInv'
  <2>1. pc[c] \in Steps \cup {"reset"}
    BY <1>6 DEF Refresh, Reset, ReadNames, NextPort, NoMorePorts, Counters, ConfigInfo,
                OperationInfo, OpticalInfo, Finish, Steps
  <2>2. (UNCHANGED err /\ \E step \in Steps \cup {"health"} : Goto(c, step)) \/ ReturnError(c)
    BY <1>6 DEF Refresh, Reset, ReadNames, NextPort, NoMorePorts, Counters, CountersRead,
                CountersBroken, ConfigInfo, OperationInfo, OpticalInfo, Finish, Steps, locals
  <2> QED
    BY <2>1, <2>2 DEF Goto, ReturnError, Steps
<1> QED
  BY <1>1, <1>2, <1>3, <1>4, <1>5, <1>6 DEF Next, Inside

-----------------------------------------------------------------------------
(* The cache.                                                              *)

LEMMA DoneFacts ==
  /\ DoneGroups("port") = PortGroups
  /\ DoneGroups("counters") = {}
  /\ DoneGroups("config") = {"counters"}
  /\ DoneGroups("operation") = {"counters", "config"}
  /\ DoneGroups("optics") = PortGroups
  /\ DoneGroups("finish") = PortGroups
  BY DEF DoneGroups, PortGroups

\* A scrape that does not hold the mutex has nothing to say about the cache.
LEMMA Outside ==
  ASSUME NEW d \in Scrapes
  PROVE  /\ pc[d] \in {"idle", "lock"} => Holder(d)
         /\ pc'[d] \in {"idle", "lock"} => Holder(d)'
  BY DEF Holder, Steps

LEMMA OnlyHolder ==
  ASSUME MutexInv, NEW c \in Scrapes, NEW d \in Scrapes, d # c,
         pc[c] \notin {"idle", "lock"}
  PROVE  pc[d] \in {"idle", "lock"}
  BY DEF MutexInv

LEMMA EnterStep ==
  ASSUME IInv, NEW c \in Scrapes, Call(c) \/ Lock(c) \/ Check(c)
  PROVE  Holder(c)'
<1> USE DEF IInv, TypeOK
<1>1. CASE Call(c)
  <2>1. pc'[c] = "lock"
    BY <1>1 DEF Call, Goto
  <2> QED
    BY <2>1, Outside
<1>2. CASE Lock(c)
  <2>1. pc'[c] = "check" /\ mu = Nobody /\ UNCHANGED <<age, cachedMetrics, listed>>
    BY <1>2 DEF Lock, Goto
  <2>2. age' < Window => Complete(cachedMetrics, listed)'
    BY <2>1 DEF FailureIsNotCached, Complete
  <2> QED
    BY <2>1, <2>2 DEF Holder, Steps
<1>3. CASE Check(c)
  <2>1. /\ pc[c] = "check"
        /\ pc'[c] = IF age < Window THEN "emit" ELSE "reset"
        /\ UNCHANGED <<age, cachedMetrics, listed, err>>
    BY <1>3 DEF Check, Goto, locals
  <2>2. ~err'[c]
    BY <2>1 DEF ErrInv
  <2>3. CASE age < Window
    <3>1. Complete(cachedMetrics, listed)'
      BY <2>1, <2>3 DEF HolderInv, Holder, Complete
    <3> QED
      BY <2>1, <2>2, <2>3, <3>1 DEF Holder, Steps
  <2>4. CASE ~(age < Window)
    <3>1. age' = Window
      BY <2>1, <2>4, WindowAssumption
    <3> QED
      BY <2>1, <2>4, <3>1 DEF Holder, Steps
  <2> QED
    BY <2>3, <2>4
<1> QED
  BY <1>1, <1>2, <1>3

LEMMA ResetStep ==
  ASSUME IInv, NEW c \in Scrapes, Reset(c)
  PROVE  Holder(c)'
<1>1. /\ pc[c] = "reset" /\ pc'[c] = "names"
      /\ cachedMetrics' = None /\ age' = age
  BY DEF IInv, TypeOK, Reset, Goto
<1>2. age' = Window
  BY <1>1 DEF IInv, HolderInv, Holder
<1> QED
  BY <1>1, <1>2 DEF Holder, Steps

\* A refresh that fails leaves remains.
LEMMA FailureStep ==
  ASSUME IInv, NEW c \in Scrapes, ReturnError(c), age' = Window, Remains',
         cachedMetrics'[<<Collector, "failure">>] = 0
  PROVE  Holder(c)'
<1>1. pc'[c] = "health" /\ err'[c]
  BY DEF IInv, TypeOK, ReturnError, Goto
<1> QED
  BY <1>1 DEF Holder, Steps

LEMMA ReadNamesStep ==
  ASSUME IInv, NEW c \in Scrapes, ReadNames(c)
  PROVE  Holder(c)'
<1> USE DEF IInv, TypeOK
<1>1. /\ pc[c] = "names" /\ age' = Window
      /\ cachedMetrics' = None
  BY DEF ReadNames, HolderInv, Holder, Steps
<1>2. \A s \in Series : cachedMetrics'[s] = 0
  BY <1>1 DEF None
<1>3. CASE ReturnError(c)
  <2>1. Remains' /\ cachedMetrics'[<<Collector, "failure">>] = 0
    BY <1>2, SeriesFacts DEF Remains
  <2> QED
    BY <1>1, <1>3, <2>1, FailureStep
<1>4. ASSUME NEW names \in SUBSET Ports, left' = [left EXCEPT ![c] = names],
             listed' = names, Goto(c, "port")
      PROVE  Holder(c)'
  <2>1. pc'[c] = "port" /\ left'[c] = names
    BY <1>4 DEF Goto
  <2>2. Progress(c)'
    BY <1>2, <1>4, <2>1, SeriesFacts DEF Progress
  <2> QED
    BY <1>1, <2>1, <2>2 DEF Holder, Steps
<1> QED
  BY <1>3, <1>4 DEF ReadNames

LEMMA ProgressRemains ==
  ASSUME TypeOK, NEW c \in Scrapes, Progress(c)
  PROVE  Remains /\ cachedMetrics[<<Collector, "failure">>] = 0
<1>1. \A p \in Ports, g \in PortGroups : cachedMetrics[<<p, g>>] \in {0, 1}
  BY DEF Progress
<1>2. \A g \in OwnGroups : cachedMetrics[<<Collector, g>>] \in {0, 1}
  BY DEF Progress, OwnGroups
<1>3. \A s \in Series : cachedMetrics[s] \in {0, 1}
  BY <1>1, <1>2 DEF Series
<1> QED
  BY <1>3 DEF Remains, Progress

LEMMA RemainsAppended ==
  ASSUME TypeOK, Remains, cachedMetrics[<<Collector, "failure">>] = 0,
         NEW s \in Series, AppendSeries(s), cachedMetrics[s] = 0,
         s # <<Collector, "success">>, s # <<Collector, "failure">>
  PROVE  Remains' /\ cachedMetrics'[<<Collector, "failure">>] = 0
<1>1. /\ cachedMetrics'[s] = cachedMetrics[s] + 1
      /\ \A x \in Series : x # s => cachedMetrics'[x] = cachedMetrics[x]
  BY Appended DEF TypeOK
<1>2. cachedMetrics'[s] = 1
  BY <1>1
<1>3. \A x \in Series : cachedMetrics'[x] \in {0, 1}
  BY <1>1, <1>2 DEF Remains
<1>4. cachedMetrics'[<<Collector, "success">>] = 0
  BY <1>1, SeriesFacts DEF Remains
<1>5. cachedMetrics'[<<Collector, "failure">>] = 0
  BY <1>1, SeriesFacts
<1> QED
  BY <1>3, <1>4, <1>5 DEF Remains

\* A port of the name map is taken, and has no group yet.
LEMMA NextPortStep ==
  ASSUME IInv, NEW c \in Scrapes, NextPort(c)
  PROVE  Holder(c)'
<1> USE DEF IInv, TypeOK
<1>1. PICK p \in left[c] : /\ port' = [port EXCEPT ![c] = p]
                           /\ left' = [left EXCEPT ![c] = @ \ {p}]
  BY DEF NextPort
<1>2. /\ pc[c] = "port" /\ pc'[c] = "counters"
      /\ port'[c] = p /\ left'[c] = left[c] \ {p}
      /\ UNCHANGED <<cachedMetrics, age, listed>>
  BY <1>1 DEF NextPort, Goto
<1>3. Progress(c) /\ age = Window
  BY <1>2 DEF HolderInv, Holder, Steps
<1>4. \A q \in Ports, g \in PortGroups :
        cachedMetrics[<<q, g>>] = IF q \in listed \ left[c] THEN 1 ELSE 0
  BY <1>2, <1>3, DoneFacts DEF Progress
<1>5. \A q \in Ports, g \in PortGroups :
        cachedMetrics'[<<q, g>>] =
          IF q \in listed' \ left'[c] /\ (q = port'[c] => g \in DoneGroups(pc'[c]))
          THEN 1 ELSE 0
  BY <1>2, <1>4, DoneFacts
<1>6. Progress(c)'
  BY <1>1, <1>2, <1>3, <1>5 DEF Progress
<1> QED
  BY <1>2, <1>3, <1>6 DEF Holder, Steps

LEMMA NoMorePortsStep ==
  ASSUME IInv, NEW c \in Scrapes, NoMorePorts(c)
  PROVE  Holder(c)'
<1> USE DEF IInv, TypeOK
<1>1. /\ pc[c] = "port" /\ pc'[c] = "optics" /\ left[c] = {}
      /\ UNCHANGED <<cachedMetrics, age, listed, left, port>>
  BY DEF NoMorePorts, Goto, locals
<1>2. Progress(c) /\ age = Window
  BY <1>1 DEF HolderInv, Holder, Steps
<1>3. Progress(c)'
  BY <1>1, <1>2, DoneFacts DEF Progress
<1> QED
  BY <1>1, <1>2, <1>3 DEF Holder, Steps

\* One more group of the port being visited.
LEMMA GroupStep ==
  ASSUME IInv, NEW c \in Scrapes, NEW g \in PortGroups,
         pc[c] \in {"counters", "config", "operation"},
         pc'[c] \in {"config", "operation", "port"},
         g \notin DoneGroups(pc[c]),
         DoneGroups(pc'[c]) = DoneGroups(pc[c]) \cup {g},
         AppendSeries(<<port[c], g>>),
         UNCHANGED <<left, port, listed, age>>
  PROVE  Holder(c)'
<1> USE DEF IInv, TypeOK
<1>1. Progress(c) /\ age = Window
  BY DEF HolderInv, Holder, Steps
<1>2. port[c] \in listed \ left[c] /\ port[c] \in Ports
  BY <1>1 DEF Progress
<1>3. <<port[c], g>> \in Series
  BY <1>2, SeriesFacts
<1>4. /\ cachedMetrics'[<<port[c], g>>] = cachedMetrics[<<port[c], g>>] + 1
      /\ \A x \in Series : x # <<port[c], g>> => cachedMetrics'[x] = cachedMetrics[x]
  BY <1>3, Appended
<1>5. cachedMetrics[<<port[c], g>>] = 0
  BY <1>1, <1>2 DEF Progress
<1>6. cachedMetrics'[<<port[c], g>>] = 1
  BY <1>4, <1>5
<1>7. ASSUME NEW p \in Ports, NEW h \in PortGroups
      PROVE  cachedMetrics'[<<p, h>>] =
               IF p \in listed \ left[c] /\ (p = port[c] => h \in DoneGroups(pc'[c]))
               THEN 1 ELSE 0
  <2>1. CASE p = port[c] /\ h = g
    BY <1>2, <1>6, <2>1
  <2>2. CASE ~(p = port[c] /\ h = g)
    <3>1. <<p, h>> # <<port[c], g>> /\ <<p, h>> \in Series
      BY <2>2, SeriesFacts
    <3>2. cachedMetrics'[<<p, h>>] = cachedMetrics[<<p, h>>]
      BY <1>4, <3>1
    <3>3. p = port[c] => (h \in DoneGroups(pc'[c]) <=> h \in DoneGroups(pc[c]))
      BY <2>2
    <3> QED
      BY <1>1, <3>2, <3>3 DEF Progress
  <2> QED
    BY <2>1, <2>2
<1>8. \A h \in OwnGroups : cachedMetrics'[<<Collector, h>>] = cachedMetrics[<<Collector, h>>]
  BY <1>2, <1>4, SeriesFacts
<1>9. Progress(c)'
  BY <1>1, <1>2, <1>7, <1>8, SeriesFacts DEF Progress
<1> QED
  BY <1>1, <1>9 DEF Holder, Steps

\* The groups are appended in order, and any of them may fail.
LEMMA VisitStep ==
  ASSUME IInv, NEW c \in Scrapes, Counters(c) \/ ConfigInfo(c) \/ OperationInfo(c)
  PROVE  Holder(c)'
<1> USE DEF IInv, TypeOK
<1>1. /\ pc[c] \in {"counters", "config", "operation"}
      /\ UNCHANGED <<left, port, listed, age>>
  BY DEF Counters, ConfigInfo, OperationInfo
<1>2. Progress(c) /\ age = Window
  BY <1>1 DEF HolderInv, Holder, Steps
<1>3. Remains /\ cachedMetrics[<<Collector, "failure">>] = 0
  BY <1>2, ProgressRemains
<1>4. CASE ReturnError(c) /\ UNCHANGED cachedMetrics
  <2>1. Remains' /\ cachedMetrics'[<<Collector, "failure">>] = 0
    BY <1>3, <1>4 DEF Remains
  <2> QED
    BY <1>1, <1>2, <1>4, <2>1, FailureStep
<1>5. CASE Counters(c)
  <2>1. pc[c] = "counters" /\ port[c] \in listed \ left[c] /\ port[c] \in Ports
    BY <1>2, <1>5 DEF Counters, Progress
  <2>2. cachedMetrics[<<port[c], "counters">>] = 0
    BY <1>2, <2>1, SeriesFacts, DoneFacts DEF Progress
  <2>3. CASE CountersRead(c)
    <3>1. pc'[c] = "config" /\ AppendSeries(<<port[c], "counters">>)
      BY <2>3 DEF CountersRead, Goto
    <3>2. /\ "counters" \notin DoneGroups(pc[c])
          /\ DoneGroups(pc'[c]) = DoneGroups(pc[c]) \cup {"counters"}
      BY <2>1, <3>1, DoneFacts
    <3> QED
      BY <1>1, <3>1, <3>2, SeriesFacts, GroupStep
  <2>4. CASE ReturnError(c) /\ AppendSeries(<<port[c], "counters">>)
    <3>1. /\ <<port[c], "counters">> \in Series
          /\ <<port[c], "counters">> # <<Collector, "success">>
          /\ <<port[c], "counters">> # <<Collector, "failure">>
      BY <2>1, SeriesFacts
    <3>2. Remains' /\ cachedMetrics'[<<Collector, "failure">>] = 0
      BY <1>3, <2>2, <2>4, <3>1, RemainsAppended
    <3> QED
      BY <1>1, <1>2, <2>4, <3>2, FailureStep
  <2> QED
    BY <1>4, <1>5, <2>3, <2>4 DEF Counters, CountersBroken
<1>6. CASE ConfigInfo(c)
  <2>1. CASE AppendSeries(<<port[c], "config">>) /\ Goto(c, "operation")
    <3>1. pc[c] = "config" /\ pc'[c] = "operation"
      BY <1>6, <2>1 DEF ConfigInfo, Goto
    <3>2. /\ "config" \notin DoneGroups(pc[c])
          /\ DoneGroups(pc'[c]) = DoneGroups(pc[c]) \cup {"config"}
      BY <3>1, DoneFacts
    <3> QED
      BY <1>1, <2>1, <3>1, <3>2, SeriesFacts, GroupStep
  <2> QED
    BY <1>4, <1>6, <2>1 DEF ConfigInfo
<1>7. CASE OperationInfo(c)
  <2>1. CASE AppendSeries(<<port[c], "operation">>) /\ Goto(c, "port")
    <3>1. pc[c] = "operation" /\ pc'[c] = "port"
      BY <1>7, <2>1 DEF OperationInfo, Goto
    <3>2. /\ "operation" \notin DoneGroups(pc[c])
          /\ DoneGroups(pc'[c]) = DoneGroups(pc[c]) \cup {"operation"}
      BY <3>1, DoneFacts DEF PortGroups
    <3> QED
      BY <1>1, <2>1, <3>1, <3>2, SeriesFacts, GroupStep
  <2> QED
    BY <1>4, <1>7, <2>1 DEF OperationInfo
<1> QED
  BY <1>5, <1>6, <1>7

\* The optics may be appended whether or not they can be read to the end.
LEMMA OpticsStep ==
  ASSUME IInv, NEW c \in Scrapes, OpticalInfo(c)
  PROVE  Holder(c)'
<1> USE DEF IInv, TypeOK
<1>1. pc[c] = "optics" /\ UNCHANGED <<left, port, listed, age>>
  BY DEF OpticalInfo
<1>2. Progress(c) /\ age = Window
  BY <1>1 DEF HolderInv, Holder, Steps
<1>3. /\ Remains /\ cachedMetrics[<<Collector, "failure">>] = 0
      /\ cachedMetrics[<<Collector, "optics">>] = 0
  BY <1>1, <1>2, ProgressRemains DEF Progress
<1>4. /\ \A x \in Series : x # <<Collector, "optics">> => cachedMetrics'[x] = cachedMetrics[x]
      /\ cachedMetrics'[<<Collector, "optics">>] \in {0, 1}
  <2>1. CASE UNCHANGED cachedMetrics
    BY <1>3, <2>1
  <2>2. CASE AppendSeries(<<Collector, "optics">>)
    BY <1>3, <2>2, Appended, SeriesFacts
  <2> QED
    BY <2>1, <2>2 DEF OpticalInfo
<1>5. CASE ReturnError(c)
  <2>1. \A x \in Series : cachedMetrics'[x] \in {0, 1}
    BY <1>3, <1>4 DEF Remains
  <2>2. /\ cachedMetrics'[<<Collector, "success">>] = 0
        /\ cachedMetrics'[<<Collector, "failure">>] = 0
    BY <1>3, <1>4, SeriesFacts DEF Remains
  <2> QED
    BY <1>1, <1>2, <1>5, <2>1, <2>2, FailureStep DEF Remains
<1>6. CASE Goto(c, "finish")
  <2>1. pc'[c] = "finish"
    BY <1>6 DEF Goto
  <2>2. \A p \in Ports, g \in PortGroups : cachedMetrics'[<<p, g>>] = cachedMetrics[<<p, g>>]
    BY <1>4, SeriesFacts
  <2>3. \A g \in {"duration", "success", "failure"} : cachedMetrics'[<<Collector, g>>] = 0
    BY <1>2, <1>4, SeriesFacts DEF Progress
  <2>4. left'[c] = {} /\ left'[c] \subseteq listed'
    BY <1>1, <1>2 DEF Progress
  <2>5. \A p \in Ports, g \in PortGroups :
          cachedMetrics'[<<p, g>>] =
            IF p \in listed' \ left'[c] /\ (p = port'[c] => g \in DoneGroups(pc'[c]))
            THEN 1 ELSE 0
    BY <1>1, <1>2, <2>1, <2>2, DoneFacts DEF Progress
  <2>6. Progress(c)'
    BY <1>4, <2>1, <2>3, <2>4, <2>5 DEF Progress
  <2> QED
    BY <1>1, <1>2, <2>1, <2>6 DEF Holder, Steps
<1> QED
  BY <1>5, <1>6 DEF OpticalInfo

LEMMA FinishStep ==
  ASSUME IInv, NEW c \in Scrapes, Finish(c)
  PROVE  Holder(c)'
<1> USE DEF IInv, TypeOK
<1>1. /\ pc[c] = "finish" /\ pc'[c] = "health" /\ listed' = listed /\ err' = err
      /\ AppendSeries(<<Collector, "duration">>)
  BY DEF Finish, Goto, locals
<1>2. Progress(c) /\ ~err'[c]
  BY <1>1 DEF HolderInv, Holder, Steps, ErrInv
<1>3. /\ cachedMetrics'[<<Collector, "duration">>] = cachedMetrics[<<Collector, "duration">>] + 1
      /\ \A x \in Series : x # <<Collector, "duration">> => cachedMetrics'[x] = cachedMetrics[x]
  BY <1>1, Appended, SeriesFacts
<1>4. cachedMetrics'[<<Collector, "duration">>] = 1
  BY <1>2, <1>3 DEF Progress
<1>5. \A p \in Ports, g \in PortGroups :
        cachedMetrics'[<<p, g>>] = IF p \in listed THEN 1 ELSE 0
  <2>1. \A p \in Ports, g \in PortGroups : cachedMetrics'[<<p, g>>] = cachedMetrics[<<p, g>>]
    BY <1>3, SeriesFacts
  <2>2. left[c] = {} /\ DoneGroups(pc[c]) = PortGroups
    BY <1>1, <1>2, DoneFacts DEF Progress
  <2>3. \A p \in Ports, g \in PortGroups :
          cachedMetrics[<<p, g>>] = IF p \in listed THEN 1 ELSE 0
    BY <1>2, <2>2 DEF Progress
  <2> QED
    BY <2>1, <2>3
<1>6. /\ cachedMetrics'[<<Collector, "optics">>] \in {0, 1}
      /\ cachedMetrics'[<<Collector, "success">>] = 0
      /\ cachedMetrics'[<<Collector, "failure">>] = 0
  BY <1>1, <1>2, <1>3, SeriesFacts DEF Progress
<1>7. AllButSuccess'
  BY <1>1, <1>4, <1>5, <1>6 DEF AllButSuccess
<1> QED
  BY <1>1, <1>2, <1>7 DEF Holder, Steps

LEMMA HealthStep ==
  ASSUME IInv, NEW c \in Scrapes, Health(c)
  PROVE  Holder(c)'
<1> USE DEF IInv, TypeOK
<1>1. /\ pc[c] = "health" /\ pc'[c] = "emit"
      /\ UNCHANGED <<listed, err, age>>
      /\ AppendSeries(<<Collector, IF err[c] THEN "failure" ELSE "success">>)
  BY DEF Health, Goto, locals
<1>2. CASE err[c]
  <2>1. /\ age = Window /\ Remains /\ cachedMetrics[<<Collector, "failure">>] = 0
    BY <1>1, <1>2 DEF HolderInv, Holder
  <2>2. AppendSeries(<<Collector, "failure">>)
    BY <1>1, <1>2
  <2>3. /\ cachedMetrics'[<<Collector, "failure">>]
             = cachedMetrics[<<Collector, "failure">>] + 1
        /\ \A x \in Series : x # <<Collector, "failure">> => cachedMetrics'[x] = cachedMetrics[x]
    BY <2>2, Appended, SeriesFacts
  <2>4. cachedMetrics'[<<Collector, "failure">>] = 1
    BY <2>1, <2>3
  <2>5. Remains'
    BY <2>1, <2>3, <2>4, SeriesFacts DEF Remains
  <2> QED
    BY <1>1, <1>2, <2>1, <2>4, <2>5 DEF Holder, Steps
<1>3. CASE ~err[c]
  <2>1. AllButSuccess
    BY <1>1, <1>3 DEF HolderInv, Holder
  <2>2. AppendSeries(<<Collector, "success">>)
    BY <1>1, <1>3
  <2>3. /\ cachedMetrics'[<<Collector, "success">>]
             = cachedMetrics[<<Collector, "success">>] + 1
        /\ \A x \in Series : x # <<Collector, "success">> => cachedMetrics'[x] = cachedMetrics[x]
    BY <2>2, Appended, SeriesFacts
  <2>4. cachedMetrics'[<<Collector, "success">>] = 1
    BY <2>1, <2>3 DEF AllButSuccess
  <2>5. \A p \in Ports, g \in PortGroups : cachedMetrics'[<<p, g>>] = cachedMetrics[<<p, g>>]
    BY <2>3, SeriesFacts
  <2>6. \A g \in {"duration", "optics", "failure"} :
          cachedMetrics'[<<Collector, g>>] = cachedMetrics[<<Collector, g>>]
    BY <2>3, SeriesFacts
  <2>7. Complete(cachedMetrics, listed)'
    BY <1>1, <2>1, <2>4, <2>5, <2>6 DEF AllButSuccess, Complete
  <2> QED
    BY <1>1, <1>3, <2>7 DEF Holder, Steps
<1> QED
  BY <1>2, <1>3

LEMMA EmitStep ==
  ASSUME IInv, NEW c \in Scrapes, Emit(c)
  PROVE  Holder(c)'
<1> USE DEF IInv, TypeOK
<1>1. /\ pc[c] = "emit" /\ pc'[c] = "unlock" /\ out'[c] = cachedMetrics
      /\ UNCHANGED <<cachedMetrics, listed, err, age>>
  BY DEF Emit, Goto, locals
<1>2. CASE err[c]
  <2>1. age = Window /\ Remains /\ cachedMetrics[<<Collector, "failure">>] = 1
    BY <1>1, <1>2 DEF HolderInv, Holder
  <2>2. Remains'
    BY <1>1, <2>1 DEF Remains
  <2> QED
    BY <1>1, <1>2, <2>1, <2>2 DEF Holder, Steps
<1>3. CASE ~err[c]
  <2>1. Complete(cachedMetrics, listed)'
    BY <1>1, <1>3 DEF HolderInv, Holder, Complete
  <2> QED
    BY <1>1, <1>3, <2>1 DEF Holder, Steps
<1> QED
  BY <1>2, <1>3

\* What the mutex leaves behind: an error has left the window closed.
LEMMA UnlockStep ==
  ASSUME IInv, NEW c \in Scrapes, Unlock(c)
  PROVE  Holder(c)' /\ FailureIsNotCached'
<1> USE DEF IInv, TypeOK
<1>1. /\ pc[c] = "unlock" /\ pc'[c] = "idle"
      /\ UNCHANGED <<cachedMetrics, listed, age>>
  BY DEF Unlock, Goto
<1>2. CASE err[c]
  <2>1. age = Window
    BY <1>1, <1>2 DEF HolderInv, Holder
  <2>2. ~(age' < Window)
    BY <1>1, <2>1, WindowAssumption
  <2> QED
    BY <1>1, <2>2, Outside DEF FailureIsNotCached
<1>3. CASE ~err[c]
  <2>1. Complete(cachedMetrics, listed)'
    BY <1>1, <1>3 DEF HolderInv, Holder, Complete
  <2> QED
    BY <1>1, <2>1, Outside DEF FailureIsNotCached
<1> QED
  BY <1>2, <1>3

\* The clock only closes the window.
LEMMA TimeStep ==
  ASSUME IInv, TimePasses
  PROVE  HolderInv' /\ FailureIsNotCached'
<1> USE DEF IInv, TypeOK
<1>1. /\ age < Window /\ age' = age + 1
      /\ UNCHANGED <<pc, mu, cachedMetrics, left, port, err, out, listed>>
  BY DEF TimePasses, locals
<1>2. age # Window /\ (age' < Window => age < Window)
  BY <1>1, WindowAssumption
<1>3. /\ Complete(cachedMetrics, listed) <=> Complete(cachedMetrics, listed)'
      /\ AllButSuccess <=> AllButSuccess'
  BY <1>1 DEF Complete, AllButSuccess
<1>4. ASSUME NEW c \in Scrapes PROVE Holder(c)'
  <2>1. Holder(c)
    BY DEF HolderInv
  <2>2. pc[c] \notin Steps \cup {"reset"}
    BY <1>2, <2>1 DEF Holder
  <2>3. pc[c] = "check" /\ age' < Window => Complete(cachedMetrics, listed)'
    BY <1>2, <1>3, <2>1 DEF Holder
  <2>4. pc[c] = "health" => ~err[c] /\ AllButSuccess'
    BY <1>2, <1>3, <2>1 DEF Holder
  <2>5. pc[c] \in {"emit", "unlock"} => ~err[c] /\ Complete(cachedMetrics, listed)'
    BY <1>2, <1>3, <2>1 DEF Holder
  <2>6. pc[c] = "unlock" => out[c] = cachedMetrics
    BY <2>1 DEF Holder
  <2> QED
    BY <1>1, <2>2, <2>3, <2>4, <2>5, <2>6 DEF Holder, Steps
<1>5. FailureIsNotCached'
  BY <1>1, <1>2, <1>3 DEF FailureIsNotCached
<1> QED
  BY <1>4, <1>5 DEF HolderInv

-----------------------------------------------------------------------------
(* The invariant.                                                          *)

LEMMA IInvInit == Init => IInv
<1> SUFFICES ASSUME Init PROVE IInv
  OBVIOUS
<1>1. TypeOK
  BY TypeInit
<1>2. \A c \in Scrapes : pc[c] = "idle" /\ ~err[c]
  BY DEF Init
<1>3. MutexInv /\ ErrInv
  BY <1>2, NameAssumption DEF Init, MutexInv, ErrInv
<1>4. HolderInv
  BY <1>2, Outside DEF HolderInv
<1>5. FailureIsNotCached
  BY WindowAssumption DEF Init, FailureIsNotCached
<1> QED
  BY <1>1, <1>3, <1>4, <1>5 DEF IInv

LEMMA IInvStep == IInv /\ [Next]_vars => IInv'
<1> SUFFICES ASSUME IInv, [Next]_vars PROVE IInv'
  OBVIOUS
<1>1. TypeOK' /\ MutexInv' /\ ErrInv'
  BY TypeStep, MutexStep, ErrStep DEF IInv
<1>2. CASE UNCHANGED vars
  <2>1. UNCHANGED <<pc, mu, cachedMetrics, age, left, port, err, out, listed>>
    BY <1>2 DEF vars, locals
  <2>2. ASSUME NEW c \in Scrapes PROVE Holder(c)'
    <3>1. Holder(c)
      BY DEF IInv, HolderInv
    <3> QED
      BY <2>1, <3>1 DEF Holder, Progress, Remains, AllButSuccess, Complete
  <2>3. FailureIsNotCached'
    BY <2>1 DEF IInv, FailureIsNotCached, Complete
  <2> QED
    BY <1>1, <2>2, <2>3 DEF IInv, HolderInv
<1>3. CASE TimePasses
  BY <1>1, <1>3, TimeStep DEF IInv
<1>4. ASSUME NEW c \in Scrapes, Call(c) \/ Lock(c) \/ Inside(c) PROVE IInv'
  <2>1. Holder(c)'
    BY <1>4, EnterStep, ResetStep, ReadNamesStep, NextPortStep, NoMorePortsStep,
       VisitStep, OpticsStep, FinishStep, HealthStep, EmitStep, UnlockStep
       DEF Inside, Refresh
  <2>2. \A d \in Scrapes : d # c => pc'[d] = pc[d]
    BY <1>4 DEF IInv, TypeOK, Inside, Refresh, Call, Lock, Check, Health, Emit, Unlock,
                Reset, ReadNames, NextPort, NoMorePorts, Counters, CountersRead,
                CountersBroken, ConfigInfo, OperationInfo, OpticalInfo, Finish,
                ReturnError, Goto
  <2>3. CASE Call(c)
    <3>1. UNCHANGED <<mu, cachedMetrics, age, left, port, err, out, listed>>
      BY <2>3 DEF Call, locals
    <3>2. ASSUME NEW d \in Scrapes, d # c PROVE Holder(d)'
      <4>1. Holder(d) /\ pc'[d] = pc[d]
        BY <2>2, <3>2 DEF IInv, HolderInv
      <4> QED
        BY <3>1, <4>1 DEF Holder, Progress, Remains, AllButSuccess, Complete
    <3>3. FailureIsNotCached'
      BY <3>1 DEF IInv, FailureIsNotCached, Complete
    <3> QED
      BY <1>1, <2>1, <3>2, <3>3 DEF IInv, HolderInv
  <2>4. CASE ~Call(c)
    <3>1. mu = c \/ mu' = c
      <4>1. CASE Lock(c)
        BY <4>1 DEF Lock
      <4>2. CASE Inside(c)
        <5>1. pc[c] \notin {"idle", "lock"}
          BY <4>2 DEF Inside, Refresh, Check, Health, Emit, Unlock, Reset, ReadNames,
                      NextPort, NoMorePorts, Counters, ConfigInfo, OperationInfo,
                      OpticalInfo, Finish
        <5> QED
          BY <5>1 DEF IInv, MutexInv
      <4> QED
        BY <1>4, <2>4, <4>1, <4>2
    <3>2. ASSUME NEW d \in Scrapes, d # c PROVE Holder(d)'
      <4>1. pc'[d] \in {"idle", "lock"}
        BY <1>1, <2>2, <3>1, <3>2 DEF IInv, MutexInv
      <4> QED
        BY <4>1, Outside
    <3>3. FailureIsNotCached'
      <4>1. CASE Unlock(c)
        BY <4>1, UnlockStep
      <4>2. CASE ~Unlock(c)
        <5>1. mu' = c
          BY <1>4, <2>4, <3>1, <4>2 DEF Lock, Inside, Refresh, Check, Health, Emit, Reset,
             ReadNames, NextPort, NoMorePorts, Counters, ConfigInfo, OperationInfo,
             OpticalInfo, Finish
        <5> QED
          BY <5>1, NameAssumption DEF FailureIsNotCached
      <4> QED
        BY <4>1, <4>2
    <3> QED
      BY <1>1, <2>1, <3>2, <3>3 DEF IInv, HolderInv
  <2> QED
    BY <2>3, <2>4
<1> QED
  BY <1>2, <1>3, <1>4 DEF Next

LEMMA Invariance == SafetySpec => []IInv
  BY IInvInit, IInvStep, PTL DEF SafetySpec

-----------------------------------------------------------------------------
(* What Collect promises.                                                  *)

LEMMA CompleteSeries ==
  ASSUME cachedMetrics \in [Series -> Nat], Complete(cachedMetrics, listed)
  PROVE  \A s \in Series : cachedMetrics[s] <= 1
<1>1. \A p \in Ports, g \in PortGroups : cachedMetrics[<<p, g>>] \in {0, 1}
  BY DEF Complete
<1>2. \A g \in OwnGroups : cachedMetrics[<<Collector, g>>] \in {0, 1}
  BY DEF Complete, OwnGroups
<1>3. \A s \in Series : cachedMetrics[s] \in {0, 1}
  BY <1>1, <1>2 DEF Series
<1> QED
  BY <1>3

LEMMA IInvSpaces ==
  IInv => (\A c \in Scrapes : pc[c] = "reset" => age = Window)
  BY DEF IInv, HolderInv, Holder

LEMMA IInvUnlocks ==
  ASSUME IInv, NEW c \in Scrapes, pc[c] = "unlock"
  PROVE  /\ \A s \in Series : out[c][s] <= 1
         /\ out[c][<<Collector, "success">>] + out[c][<<Collector, "failure">>] = 1
         /\ out[c][<<Collector, "success">>] > 0 => Complete(out[c], listed)
<1> USE DEF IInv, TypeOK
<1>1. out[c] = cachedMetrics
  BY DEF HolderInv, Holder
<1>2. CASE err[c]
  <2>1. Remains /\ cachedMetrics[<<Collector, "failure">>] = 1
    BY <1>2 DEF HolderInv, Holder
  <2>2. \A s \in Series : cachedMetrics[s] <= 1
    BY <2>1 DEF Remains
  <2> QED
    BY <1>1, <2>1, <2>2 DEF Remains
<1>3. CASE ~err[c]
  <2>1. Complete(cachedMetrics, listed)
    BY <1>3 DEF HolderInv, Holder
  <2>2. \A s \in Series : cachedMetrics[s] <= 1
    BY <2>1, CompleteSeries
  <2>3. cachedMetrics[<<Collector, "success">>] = 1 /\ cachedMetrics[<<Collector, "failure">>] = 0
    BY <2>1 DEF Complete
  <2> QED
    BY <1>1, <2>1, <2>2, <2>3
<1> QED
  BY <1>2, <1>3

\* However refreshes fail and overlap, a Collect sends every series at most once
\* and exactly one collector_success: the append-only cachedMetrics is emptied
\* before every refresh (Collect and scrapeMetrics, interface_collector.go 117-201).
THEOREM NoDuplicates == SafetySpec => []NoDuplicateSeries
<1>1. IInv => NoDuplicateSeries
  BY IInvUnlocks DEF NoDuplicateSeries
<1> QED
  BY <1>1, Invariance, PTL

\* A Collect that reports success sends all groups of all ports of one name map,
\* none of them the rest of another refresh (interface_collector.go 137-187).
THEOREM SuccessIsComplete == SafetySpec => []SuccessMeansComplete
<1>1. IInv => SuccessMeansComplete
  BY IInvUnlocks DEF SuccessMeansComplete
<1> QED
  BY <1>1, Invariance, PTL

\* An error anywhere in scrapeMetrics leaves lastScrapeTime as it was, so the
\* cache window never covers a partial cache (interface_collector.go 127, 137-141, 194).
THEOREM FailuresAreRetried == SafetySpec => []FailureIsNotCached
<1>1. IInv => FailureIsNotCached
  BY DEF IInv
<1> QED
  BY <1>1, Invariance, PTL

\* A refresh starts only when the window of the last successful one is over,
\* whoever waited for the mutex meanwhile (interface_collector.go 124-137).
THEOREM RefreshesAreSpaced == SafetySpec => ScrapesAreSpaced
<1>1. IInv => ((\E c \in Scrapes : Reset(c)) => age = Window)
  BY IInvSpaces DEF Reset
<1>2. IInv /\ [Next]_vars => [(\E c \in Scrapes : Reset(c)) => age = Window]_vars
  BY <1>1
<1> QED
  BY <1>2, Invariance, PTL DEF SafetySpec, ScrapesAreSpaced

=============================================================================
