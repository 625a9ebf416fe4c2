---------------------------- MODULE ScrapeCache ----------------------------
(***************************************************************************)
(* A scrape-time cache collector (Model A of docs/architecture.md):        *)
(* interface, hw, crm and queue.  The lines quoted by the map are those of *)
(* interface_collector.go.                                                 *)
(*                                                                         *)
(* Every HTTP scrape calls Collect on a goroutine of its own.  Collect     *)
(* holds a sync.Mutex from its first line to its last: through the Redis   *)
(* commands of a refresh, which run on context.Background(), and through   *)
(* the emission.  A refresh empties cachedMetrics before its first read    *)
(* and appends to it as it goes; an error leaves what was appended.        *)
(*                                                                         *)
(* cachedMetrics is the number of times each group of series was appended. *)
(* No metric family is filtered out, and redis.NewClient succeeds (it only *)
(* reads three string variables of the environment).                       *)
(***************************************************************************)
EXTENDS Naturals, FiniteSets

CONSTANTS Scrapes,    \* goroutines that may be inside Collect
          Ports,      \* names COUNTERS_PORT_NAME_MAP may hold
          Collector,  \* owner of the series that belong to no port
          Nobody,     \* the mutex is free
          Window      \* cacheDuration, in clock units

ASSUME WindowAssumption == Window \in Nat \ {0}

ASSUME NameAssumption == Collector \notin Ports /\ Nobody \notin Scrapes

VARIABLES pc,            \* pc[c]   : the control point of Collect
          mu,            \* the holder of collector.mu, or Nobody
          cachedMetrics, \* how often each group of series was appended
          age,           \* time.Since(lastScrapeTime), counted up to Window
          left,          \* left[c] : ports the range loop has still to visit
          port,          \* port[c] : the port it is at
          err,           \* err[c]  : scrapeMetrics returned an error
          out,           \* out[c]  : what Collect sent on its channel
          listed         \* history: the name map the last refresh read

locals == <<left, port, err>>
vars   == <<pc, mu, cachedMetrics, age, left, port, err, out, listed>>

PortGroups == {"counters", "config", "operation"}
OwnGroups  == {"optics", "duration", "success", "failure"}

Series == (Ports \X PortGroups) \cup ({Collector} \X OwnGroups)

None == [s \in Series |-> 0]

Steps == {"names", "port", "counters", "config", "operation", "optics", "finish"}

TypeOK ==
  /\ pc \in [Scrapes -> Steps \cup {"idle", "lock", "check", "reset", "health",
                                    "emit", "unlock"}]
  /\ mu \in Scrapes \cup {Nobody}
  /\ cachedMetrics \in [Series -> Nat]
  /\ age \in 0 .. Window
  /\ left \in [Scrapes -> SUBSET Ports]
  /\ port \in [Scrapes -> Ports \cup {Collector}]
  /\ err \in [Scrapes -> BOOLEAN]
  /\ out \in [Scrapes -> [Series -> Nat]]
  /\ listed \subseteq Ports

\* lastScrapeTime is the zero time: the window has passed long ago.
Init ==
  /\ pc = [c \in Scrapes |-> "idle"]
  /\ mu = Nobody
  /\ cachedMetrics = None
  /\ age = Window
  /\ left = [c \in Scrapes |-> {}]
  /\ port = [c \in Scrapes |-> Collector]
  /\ err = [c \in Scrapes |-> FALSE]
  /\ out = [c \in Scrapes |-> None]
  /\ listed = {}

Goto(c, step) == pc' = [pc EXCEPT ![c] = step]

AppendSeries(s) == cachedMetrics' = [cachedMetrics EXCEPT ![s] = @ + 1]

\* scrapeMetrics returns an error to Collect.
ReturnError(c) ==
  /\ Goto(c, "health")
  /\ err' = [err EXCEPT ![c] = TRUE]

-----------------------------------------------------------------------------
(* Collect.                                                                *)

Call(c) ==
  /\ pc[c] = "idle"
  /\ Goto(c, "lock")
  /\ UNCHANGED <<mu, cachedMetrics, age, locals, out, listed>>

\* MUTANT: Collect without its mutex.
LockShared(c) ==
  /\ pc[c] = "lock"
  /\ mu' = c
  /\ Goto(c, "check")
  /\ UNCHANGED <<cachedMetrics, age, locals, out, listed>>

Lock(c) ==
  /\ pc[c] = "lock"
  /\ mu = Nobody
  /\ mu' = c
  /\ Goto(c, "check")
  /\ UNCHANGED <<cachedMetrics, age, locals, out, listed>>

\* The age is read under the lock: it counts from the end of the refresh the
\* caller may have waited for.
Check(c) ==
  /\ pc[c] = "check"
  /\ Goto(c, IF age < Window THEN "emit" ELSE "reset")
  /\ UNCHANGED <<mu, cachedMetrics, age, locals, out, listed>>

\* The health series is appended to the cache, after a failure too.
Health(c) ==
  /\ pc[c] = "health"
  /\ AppendSeries(<<Collector, IF err[c] THEN "failure" ELSE "success">>)
  /\ Goto(c, "emit")
  /\ UNCHANGED <<mu, age, locals, out, listed>>

Emit(c) ==
  /\ pc[c] = "emit"
  /\ out' = [out EXCEPT ![c] = cachedMetrics]
  /\ Goto(c, "unlock")
  /\ UNCHANGED <<mu, cachedMetrics, age, locals, listed>>

\* MUTANT: Unlock is not deferred, and the error path returns before it.
UnlockNotDeferred(c) ==
  /\ pc[c] = "unlock"
  /\ mu' = IF err[c] THEN mu ELSE Nobody
  /\ out' = [out EXCEPT ![c] = None]
  /\ err' = [err EXCEPT ![c] = FALSE]
  /\ port' = [port EXCEPT ![c] = Collector]
  /\ Goto(c, "idle")
  /\ UNCHANGED <<cachedMetrics, age, left, listed>>

\* The deferred Unlock; Collect returns and its locals are gone.
Unlock(c) ==
  /\ pc[c] = "unlock"
  /\ mu' = Nobody
  /\ out' = [out EXCEPT ![c] = None]
  /\ err' = [err EXCEPT ![c] = FALSE]
  /\ port' = [port EXCEPT ![c] = Collector]
  /\ left' = [left EXCEPT ![c] = {}]
  /\ Goto(c, "idle")
  /\ UNCHANGED <<cachedMetrics, age, listed>>

-----------------------------------------------------------------------------
(* scrapeMetrics.  Every read of Redis may fail, and a failure anywhere    *)
(* ends the whole refresh.                                                 *)

\* MUTANT: the refresh appends to what the previous one left.
ResetForgotten(c) ==
  /\ pc[c] = "reset"
  /\ Goto(c, "names")
  /\ UNCHANGED <<mu, cachedMetrics, age, locals, out, listed>>

Reset(c) ==
  /\ pc[c] = "reset"
  /\ cachedMetrics' = None
  /\ Goto(c, "names")
  /\ UNCHANGED <<mu, age, locals, out, listed>>

\* MUTANT: lastScrapeTime is set when the refresh starts.
ReadNamesStampsTime(c) ==
  /\ pc[c] = "names"
  /\ age' = 0
  /\ \/ \E names \in SUBSET Ports :
          /\ left' = [left EXCEPT ![c] = names]
          /\ listed' = names
          /\ Goto(c, "port")
          /\ UNCHANGED err
     \/ ReturnError(c) /\ UNCHANGED <<left, listed>>
  /\ UNCHANGED <<mu, cachedMetrics, port, out>>

ReadNames(c) ==
  /\ pc[c] = "names"
  /\ \/ \E names \in SUBSET Ports :
          /\ left' = [left EXCEPT ![c] = names]
          /\ listed' = names
          /\ Goto(c, "port")
          /\ UNCHANGED err
     \/ ReturnError(c) /\ UNCHANGED <<left, listed>>
  /\ UNCHANGED <<mu, cachedMetrics, age, port, out>>

\* The map is ranged over in any order.
NextPort(c) ==
  /\ pc[c] = "port"
  /\ \E p \in left[c] :
       /\ port' = [port EXCEPT ![c] = p]
       /\ left' = [left EXCEPT ![c] = @ \ {p}]
  /\ Goto(c, "counters")
  /\ UNCHANGED <<mu, cachedMetrics, age, err, out, listed>>

NoMorePorts(c) ==
  /\ pc[c] = "port"
  /\ left[c] = {}
  /\ Goto(c, "optics")
  /\ UNCHANGED <<mu, cachedMetrics, age, locals, out, listed>>

CountersRead(c) ==
  /\ AppendSeries(<<port[c], "counters">>)
  /\ Goto(c, "config")
  /\ UNCHANGED err

\* The read fails before any counter is appended; a counter that does not
\* parse is found after others were.
CountersBroken(c) ==
  /\ ReturnError(c)
  /\ \/ AppendSeries(<<port[c], "counters">>)
     \/ UNCHANGED cachedMetrics

Counters(c) ==
  /\ pc[c] = "counters"
  /\ CountersRead(c) \/ CountersBroken(c)
  /\ UNCHANGED <<mu, age, left, port, out, listed>>

\* Both numbers are parsed before the first series is appended.
ConfigInfo(c) ==
  /\ pc[c] = "config"
  /\ \/ /\ AppendSeries(<<port[c], "config">>)
        /\ Goto(c, "operation") /\ UNCHANGED err
     \/ ReturnError(c) /\ UNCHANGED cachedMetrics
  /\ UNCHANGED <<mu, age, left, port, out, listed>>

\* MUTANT: an error of one port skips the rest of that port.
OperationInfoSkips(c) ==
  /\ pc[c] = "operation"
  /\ \/ AppendSeries(<<port[c], "operation">>)
     \/ UNCHANGED cachedMetrics
  /\ Goto(c, "port")
  /\ UNCHANGED <<mu, age, locals, out, listed>>

OperationInfo(c) ==
  /\ pc[c] = "operation"
  /\ \/ /\ AppendSeries(<<port[c], "operation">>)
        /\ Goto(c, "port") /\ UNCHANGED err
     \/ ReturnError(c) /\ UNCHANGED cachedMetrics
  /\ UNCHANGED <<mu, age, left, port, out, listed>>

\* There may be no optics, or none whose values parse (those are skipped).
OpticalInfo(c) ==
  /\ pc[c] = "optics"
  /\ \/ AppendSeries(<<Collector, "optics">>)
     \/ UNCHANGED cachedMetrics
  /\ \/ Goto(c, "finish") /\ UNCHANGED err
     \/ ReturnError(c)
  /\ UNCHANGED <<mu, age, left, port, out, listed>>

\* MUTANT: lastScrapeTime holds the end of the window, not its start.
FinishStampsExpiry(c) ==
  /\ pc[c] = "finish"
  /\ age' = 0 - Window
  /\ AppendSeries(<<Collector, "duration">>)
  /\ Goto(c, "health")
  /\ UNCHANGED <<mu, locals, out, listed>>

\* lastScrapeTime is only set here, at the end of a refresh without error.
Finish(c) ==
  /\ pc[c] = "finish"
  /\ age' = 0
  /\ AppendSeries(<<Collector, "duration">>)
  /\ Goto(c, "health")
  /\ UNCHANGED <<mu, locals, out, listed>>

-----------------------------------------------------------------------------
\* Time passes anywhere: a refresh has no deadline.
TimePasses ==
  /\ age < Window
  /\ age' = age + 1
  /\ UNCHANGED <<pc, mu, cachedMetrics, locals, out, listed>>

Refresh(c) ==
  \/ Reset(c) \/ ReadNames(c) \/ NextPort(c) \/ NoMorePorts(c) \/ Counters(c)
  \/ ConfigInfo(c) \/ OperationInfo(c) \/ OpticalInfo(c) \/ Finish(c)

Inside(c) == Check(c) \/ Health(c) \/ Emit(c) \/ Unlock(c) \/ Refresh(c)

Next == TimePasses \/ \E c \in Scrapes : Call(c) \/ Lock(c) \/ Inside(c)

\* A goroutine inside Collect runs on, every Redis command ends, and a blocked
\* Lock gets the mutex in the end (sync.Mutex hands it over in order once a
\* waiter has starved).  Nobody has to call Collect.
Fairness == \A c \in Scrapes : WF_vars(Inside(c)) /\ SF_vars(Lock(c))

SafetySpec == Init /\ [][Next]_vars

Spec == SafetySpec /\ Fairness

-----------------------------------------------------------------------------
(* Properties.                                                             *)

\* Everything one error-free refresh appends, once.
Complete(metrics, names) ==
  /\ \A p \in Ports, g \in PortGroups :
       metrics[<<p, g>>] = IF p \in names THEN 1 ELSE 0
  /\ metrics[<<Collector, "duration">>] = 1
  /\ metrics[<<Collector, "optics">>] \in {0, 1}
  /\ metrics[<<Collector, "success">>] = 1
  /\ metrics[<<Collector, "failure">>] = 0

\* A Collect sends no series twice and exactly one collector_success, whatever
\* refreshes failed before it: a duplicate makes the registry refuse the whole
\* HTTP scrape.
NoDuplicateSeries ==
  \A c \in Scrapes : pc[c] = "unlock" =>
    /\ \A s \in Series : out[c][s] <= 1
    /\ out[c][<<Collector, "success">>] + out[c][<<Collector, "failure">>] = 1

\* A Collect that reports collector_success 1 sends every group of every port
\* of the name map, all from one refresh.
SuccessMeansComplete ==
  \A c \in Scrapes :
    pc[c] = "unlock" /\ out[c][<<Collector, "success">>] > 0
      => Complete(out[c], listed)

\* The window never serves the remains of a failed refresh: while it is open
\* and nobody is inside, the cache is complete.
FailureIsNotCached == mu = Nobody /\ age < Window => Complete(cachedMetrics, listed)

\* Redis is not read again within the window of a refresh that succeeded, also
\* when several scrapes wait for the mutex while it runs.
ScrapesAreSpaced ==
  [][(\E c \in Scrapes : Reset(c)) => age = Window]_vars

\* A Collect that was called returns: the mutex is released on every path.
CollectReturns == \A c \in Scrapes : pc[c] = "lock" ~> pc[c] = "idle"

=============================================================================
