-------------------------- MODULE RefreshCollector --------------------------
(***************************************************************************)
(* A background-refresh collector (Model B of docs/architecture.md): lldp, *)
(* vlan, lag, fdb, routing, switch, thermal, transceiver, platform health, *)
(* system and docker all have this skeleton.  The lines quoted by the map  *)
(* are those of lldp_collector.go.                                         *)
(*                                                                         *)
(* One refresher: the constructor runs refreshMetrics once, then starts    *)
(* refreshLoop, which runs it again for every tick.  Any number of         *)
(* readers: the registry calls Collect once per HTTP scrape, on a          *)
(* goroutine of the scrape.  They share the collector's cached fields      *)
(* under a sync.RWMutex.                                                   *)
(*                                                                         *)
(* What a scrape of Redis returns is a tag, so that a field tells which    *)
(* refresh wrote it.  The collectors write and copy their fields in        *)
(* different orders; the model allows every order.                         *)
(***************************************************************************)
EXTENDS Naturals, FiniteSets

CONSTANTS Readers,   \* goroutines that may be inside Collect
          Payload,   \* cachedMetrics and the counts stored beside it
          Tags,      \* what tells one refresh from another
          None       \* the zero value of a field that was never written

ASSUME PayloadAssumption ==
  /\ Payload # {}
  /\ Payload \cap {"refreshed", "success", "duration"} = {}

ASSUME NoneAssumption == None \notin Tags

VARIABLES pc,        \* the refresher's control point
          run,       \* what its scrape returned: a tag, and whether err = nil
          unwritten, \* fields refreshMetrics has still to assign
          looping,   \* the constructor has returned and refreshLoop runs
          tick,      \* ticker.C holds a tick (its buffer is one)
          cache,     \* the collector's cached fields
          rw,        \* collector.mu
          rpc,       \* rpc[r]      : the control point of Collect
          uncopied,  \* uncopied[r] : fields Collect has still to copy
          view       \* view[r]     : Collect's copies

refresher == <<pc, run, unwritten, looping, tick, cache>>
reader    == <<rpc, uncopied, view>>
vars      == <<pc, run, unwritten, looping, tick, cache, rw, rpc, uncopied, view>>

Mu == INSTANCE RWMutex

Fields == Payload \cup {"refreshed", "success", "duration"}
Values == Tags \cup {None, 0, 1}
Blank  == [f \in Fields |-> IF f = "success" THEN 0 ELSE None]

TypeOK ==
  /\ pc \in {"scrape", "lock", "enter", "write", "wait"}
  /\ run \in [tag : Tags, ok : BOOLEAN]
  /\ unwritten \subseteq Fields
  /\ looping \in BOOLEAN
  /\ tick \in BOOLEAN
  /\ cache \in [Fields -> Values]
  /\ rw \in Mu!RWType
  /\ rpc \in [Readers -> {"idle", "copy", "emit"}]
  /\ uncopied \in [Readers -> SUBSET Fields]
  /\ view \in [Readers -> [Fields -> Values]]

Init ==
  /\ pc = "scrape"
  /\ run \in [tag : Tags, ok : BOOLEAN]
  /\ unwritten = {}
  /\ looping = FALSE
  /\ tick = FALSE
  /\ cache = Blank
  /\ rw = Mu!RWFree
  /\ rpc = [r \in Readers |-> "idle"]
  /\ uncopied = [r \in Readers |-> {}]
  /\ view = [r \in Readers |-> Blank]

-----------------------------------------------------------------------------
(* The refresher.                                                          *)

\* scrapeMetrics runs without the lock and returns a result or an error.
Scrape ==
  /\ pc = "scrape"
  /\ pc' = "lock"
  /\ run' \in [tag : Tags, ok : BOOLEAN]
  /\ UNCHANGED <<unwritten, looping, tick, cache, rw, reader>>

Lock ==
  /\ pc = "lock"
  /\ pc' = "enter"
  /\ Mu!LockAsk
  /\ UNCHANGED <<run, unwritten, looping, tick, cache, reader>>

\* MUTANT: the error branch returns before it clears lastSuccess.
AssignedKeepsSuccess(ok) == IF ok THEN Fields ELSE {"duration"}

\* The fields assigned before refreshMetrics returns: after an error only the
\* duration and the success flag.
Assigned(ok) == IF ok THEN Fields ELSE {"duration", "success"}

Enter ==
  /\ pc = "enter"
  /\ pc' = "write"
  /\ Mu!LockEnter
  /\ unwritten' = Assigned(run.ok)
  /\ UNCHANGED <<run, looping, tick, cache, reader>>

\* MUTANT: a failure is reported as -1.
OutcomeMinusOne(f) == IF f = "success" THEN IF run.ok THEN 1 ELSE 0 - 1
                                       ELSE run.tag

Outcome(f) == IF f = "success" THEN IF run.ok THEN 1 ELSE 0
                               ELSE run.tag

Write(f) ==
  /\ pc = "write"
  /\ f \in unwritten
  /\ unwritten' = unwritten \ {f}
  /\ cache' = [cache EXCEPT ![f] = Outcome(f)]
  /\ UNCHANGED <<pc, run, looping, tick, rw, reader>>

\* MUTANT: Unlock is called at the end instead of deferred: the early return of
\* the error branch keeps the lock.
UnlockNotDeferred ==
  /\ pc = "write"
  /\ unwritten = {}
  /\ pc' = "wait"
  /\ looping' = TRUE
  /\ IF run.ok THEN Mu!Unlock ELSE UNCHANGED rw
  /\ UNCHANGED <<run, unwritten, tick, cache, reader>>

\* The deferred Unlock; the first time, the constructor starts refreshLoop
\* and returns.
Unlock ==
  /\ pc = "write"
  /\ unwritten = {}
  /\ pc' = "wait"
  /\ looping' = TRUE
  /\ Mu!Unlock
  /\ UNCHANGED <<run, unwritten, tick, cache, reader>>

\* A tick that finds the buffer full is dropped.
TickerFires ==
  /\ looping
  /\ tick' = TRUE
  /\ UNCHANGED <<pc, run, unwritten, looping, cache, rw, reader>>

StartRefresh ==
  /\ pc = "wait"
  /\ tick
  /\ tick' = FALSE
  /\ pc' = "scrape"
  /\ UNCHANGED <<run, unwritten, looping, cache, rw, reader>>

Refresher ==
  \/ Scrape \/ Lock \/ Enter \/ Unlock \/ StartRefresh
  \/ \E f \in Fields : Write(f)

-----------------------------------------------------------------------------
(* Collect.  main registers the collector after its constructor returned.  *)

Collect(r) ==
  /\ looping
  /\ rpc[r] = "idle"
  /\ rpc' = [rpc EXCEPT ![r] = "copy"]
  /\ uncopied' = [uncopied EXCEPT ![r] = Fields]
  /\ Mu!RLock(r)
  /\ UNCHANGED <<refresher, view>>

\* MUTANT: a field is copied without waiting for the lock.
CopyUnlocked(r, f) ==
  /\ rpc[r] = "copy"
  /\ f \in uncopied[r]
  /\ uncopied' = [uncopied EXCEPT ![r] = @ \ {f}]
  /\ view' = [view EXCEPT ![r][f] = cache[f]]
  /\ UNCHANGED <<refresher, rw, rpc>>

Copy(r, f) ==
  /\ rpc[r] = "copy"
  /\ r \in rw.readers
  /\ f \in uncopied[r]
  /\ uncopied' = [uncopied EXCEPT ![r] = @ \ {f}]
  /\ view' = [view EXCEPT ![r][f] = cache[f]]
  /\ UNCHANGED <<refresher, rw, rpc>>

\* MUTANT: Collect returns without RUnlock.
RUnlockForgotten(r) ==
  /\ rpc[r] = "copy"
  /\ uncopied[r] = {}
  /\ r \in rw.readers
  /\ rpc' = [rpc EXCEPT ![r] = "emit"]
  /\ UNCHANGED <<refresher, rw, uncopied, view>>

RUnlock(r) ==
  /\ rpc[r] = "copy"
  /\ uncopied[r] = {}
  /\ r \in rw.readers
  /\ rpc' = [rpc EXCEPT ![r] = "emit"]
  /\ Mu!RUnlock(r)
  /\ UNCHANGED <<refresher, uncopied, view>>

\* The copies are sent on the scrape's channel, outside the lock.
Emit(r) ==
  /\ rpc[r] = "emit"
  /\ rpc' = [rpc EXCEPT ![r] = "idle"]
  /\ view' = [view EXCEPT ![r] = Blank]
  /\ UNCHANGED <<refresher, rw, uncopied>>

Reader(r) ==
  \/ RUnlock(r) \/ Emit(r)
  \/ \E f \in Fields : Copy(r, f)

-----------------------------------------------------------------------------
Next ==
  \/ Refresher
  \/ TickerFires
  \/ \E r \in Readers : Collect(r) \/ Reader(r)

\* Goroutines that can run are scheduled, a scrape of Redis ends (its commands
\* are finitely many and each is bounded), the ticker ticks.  Nobody has to
\* call Collect.
Fairness ==
  /\ WF_vars(Refresher)
  /\ WF_vars(TickerFires)
  /\ \A r \in Readers : WF_vars(Reader(r))

SafetySpec == Init /\ [][Next]_vars

Spec == SafetySpec /\ Fairness

-----------------------------------------------------------------------------
(* Properties.                                                             *)

Coherent(v) ==
  /\ \A f \in Payload : v[f] = v["refreshed"]
  /\ v["duration"] # None
  /\ v["success"] = 1 => /\ v["refreshed"] # None
                        /\ v["duration"] = v["refreshed"]

\* What Collect emits is of one piece, however its copies interleave with
\* refreshMetrics: the metrics, the counts and the refresh time come from one
\* successful refresh, and collector_success 1 is only reported with the
\* metrics and the duration of the refresh it speaks of.
CoherentReport == \A r \in Readers : rpc[r] = "emit" => Coherent(view[r])

\* The refreshMetrics under way has assigned some of its fields.
MidPublish == pc = "write" /\ unwritten # Assigned(run.ok)

\* A refresh takes effect with its first assignment, a Collect with its first
\* copy.
Register == INSTANCE SnapshotRegister WITH
  snapshot <- [f \in Fields |-> IF MidPublish /\ f \in unwritten
                                THEN Outcome(f) ELSE cache[f]],
  phase    <- [r \in Readers |->
                CASE rpc[r] = "idle" -> "idle"
                  [] rpc[r] = "copy" /\ uncopied[r] = Fields -> "called"
                  [] OTHER -> "taken"],
  report   <- [r \in Readers |->
                CASE rpc[r] = "emit" -> view[r]
                  [] rpc[r] = "copy" /\ uncopied[r] # Fields -> cache
                  [] OTHER -> Blank]

\* The locking and the field-by-field copies implement one atomic register: a
\* failed refresh keeps the cached metrics, and a Collect never returns what
\* had been replaced before it was called.
ImplementsRegister == Register!Spec

\* A Collect that was called returns: the refresher never keeps the lock, and
\* refreshes that follow each other do not shut the readers out.
CollectReturns == \A r \in Readers : rpc[r] = "copy" ~> rpc[r] = "idle"

\* The cache keeps being refreshed, however many scrapes read it: readers that
\* overlap without a gap do not keep the refresher out of its lock.
RefreshesForever == []<>(pc = "write")

=============================================================================
