--------------------------- MODULE RefreshTiming ---------------------------
(***************************************************************************)
(* The clock side of a background-refresh collector: the ticker with its   *)
(* buffer of one, the deadline of the refresh context, Redis commands that *)
(* take time, and the age of the cache.  RefreshCollector has the locking  *)
(* and leaves time out.                                                    *)
(*                                                                         *)
(* Only Redis takes time.  Everything the refresher computes between two   *)
(* commands, and the publication under the lock, is instantaneous: time    *)
(* passes while it waits for a reply or for a tick.                        *)
(***************************************************************************)
EXTENDS Naturals

CONSTANTS Interval,  \* config.refreshInterval, in clock units
          Timeout,   \* config.timeout
          Reply,     \* the longest a Redis command takes to answer or to fail
          Commands   \* the most Redis commands one scrape issues

ASSUME TimingAssumption ==
  /\ Interval \in Nat \ {0}
  /\ Timeout \in Nat \ {0}
  /\ Reply \in Nat
  /\ Commands \in Nat \ {0}

VARIABLES phase,     \* the refresher: command, reply, publish or sleep
          ok,        \* at publish: the scrape returned err = nil
          left,      \* commands the scrape may still issue
          elapsed,   \* time since refreshMetrics was called
          waited,    \* time since the command in flight was sent
          started,   \* the constructor has returned, the ticker runs
          next,      \* time to the ticker's next tick
          ticked,    \* ticker.C holds a tick
          success,   \* lastSuccess
          age,       \* time.Since(lastRefreshTime), counted up to Stale
          healthy    \* Redis answers at once and without error

clockVars == <<phase, ok, left, elapsed, waited, started, next, ticked, success, age, healthy>>

\* The first age that a cache whose last refresh succeeded never reaches.
Stale == Interval + Timeout + Reply

ClockTypeOK ==
  /\ phase \in {"command", "reply", "publish", "sleep"}
  /\ ok \in BOOLEAN
  /\ left \in 0 .. Commands
  /\ elapsed \in 0 .. Timeout + Reply
  /\ waited \in 0 .. Reply
  /\ started \in BOOLEAN
  /\ next \in 1 .. Interval
  /\ ticked \in BOOLEAN
  /\ success \in {0, 1}
  /\ age \in 0 .. Stale
  /\ healthy \in BOOLEAN

\* The constructor calls refreshMetrics before it starts the loop.
ClockInit ==
  /\ phase = "command"
  /\ ok = FALSE
  /\ left = Commands
  /\ elapsed = 0
  /\ waited = 0
  /\ started = FALSE
  /\ next = Interval
  /\ ticked = FALSE
  /\ success = 0
  /\ age = Stale
  /\ healthy \in BOOLEAN

-----------------------------------------------------------------------------
(* One refresh.                                                            *)

\* MUTANT: the commands are issued without the refresh context.
SendNoContext ==
  /\ phase = "command"
  /\ left > 0
  /\ phase' = "reply"
  /\ left' = left - 1
  /\ waited' = 0
  /\ UNCHANGED <<ok, elapsed, started, next, ticked, success, age, healthy>>

\* A command is sent only while the context lives.
Send ==
  /\ phase = "command"
  /\ left > 0
  /\ elapsed < Timeout
  /\ phase' = "reply"
  /\ left' = left - 1
  /\ waited' = 0
  /\ UNCHANGED <<ok, elapsed, started, next, ticked, success, age, healthy>>

\* After the deadline the next command fails, and the scrape with it.
Expire ==
  /\ phase = "command"
  /\ elapsed >= Timeout
  /\ phase' = "publish"
  /\ ok' = FALSE
  /\ UNCHANGED <<left, elapsed, waited, started, next, ticked, success, age, healthy>>

\* The answer to the last command of a scrape needs no further command.
Answer ==
  /\ phase = "reply"
  /\ \/ /\ phase' = "command" /\ left > 0
        /\ UNCHANGED ok
     \/ /\ phase' = "publish"
        /\ ok' = TRUE
  /\ UNCHANGED <<left, elapsed, waited, started, next, ticked, success, age, healthy>>

\* A connection error, a read timeout or an error reply ends the scrape.
Fail ==
  /\ phase = "reply"
  /\ ~healthy
  /\ phase' = "publish"
  /\ ok' = FALSE
  /\ UNCHANGED <<left, elapsed, waited, started, next, ticked, success, age, healthy>>

\* MUTANT: the error branch only logs, the success gauge keeps its value.
PublishLogsOnly ==
  /\ phase = "publish"
  /\ phase' = "sleep"
  /\ started' = TRUE
  /\ IF ok THEN success' = 1 /\ age' = 0
           ELSE UNCHANGED <<success, age>>
  /\ UNCHANGED <<ok, left, elapsed, waited, next, ticked, healthy>>

\* The assignments of refreshMetrics.  The first time, the constructor then
\* starts refreshLoop, and the ticker with it.
Publish ==
  /\ phase = "publish"
  /\ phase' = "sleep"
  /\ started' = TRUE
  /\ IF ok THEN success' = 1 /\ age' = 0
           ELSE success' = 0 /\ UNCHANGED age
  /\ UNCHANGED <<ok, left, elapsed, waited, next, ticked, healthy>>

\* MUTANT: refreshLoop returns after a refresh that failed.
StartOnTickUnlessFailed ==
  /\ phase = "sleep"
  /\ ticked
  /\ success = 1
  /\ ticked' = FALSE
  /\ phase' = "command"
  /\ left' = Commands
  /\ elapsed' = 0
  /\ ok' = FALSE
  /\ UNCHANGED <<waited, started, next, success, age, healthy>>

StartOnTick ==
  /\ phase = "sleep"
  /\ ticked
  /\ ticked' = FALSE
  /\ phase' = "command"
  /\ left' = Commands
  /\ elapsed' = 0
  /\ ok' = FALSE
  /\ UNCHANGED <<waited, started, next, success, age, healthy>>

RefresherStep == Send \/ Expire \/ Answer \/ Fail \/ Publish \/ StartOnTick

-----------------------------------------------------------------------------
(* Time and Redis.                                                         *)

\* A tick that finds the buffer full is dropped.
Ticker ==
  IF started /\ next = 1
  THEN next' = Interval /\ ticked' = TRUE
  ELSE /\ next' = IF started THEN next - 1 ELSE next
       /\ UNCHANGED ticked

GrowAge == age' = IF age < Stale THEN age + 1 ELSE age

PassInFlight ==
  /\ phase = "reply"
  /\ ~healthy
  /\ waited < Reply
  /\ waited' = waited + 1
  /\ elapsed' = elapsed + 1
  /\ GrowAge
  /\ Ticker
  /\ UNCHANGED <<phase, ok, left, started, success, healthy>>

PassAsleep ==
  /\ phase = "sleep"
  /\ ~ticked
  /\ GrowAge
  /\ Ticker
  /\ UNCHANGED <<phase, ok, left, elapsed, waited, started, success, healthy>>

RedisChanges ==
  /\ healthy' = ~healthy
  /\ UNCHANGED <<phase, ok, left, elapsed, waited, started, next, ticked, success, age>>

-----------------------------------------------------------------------------
ClockNext == RefresherStep \/ PassInFlight \/ PassAsleep \/ RedisChanges

\* The refresher runs when it can and time goes on.  Redis owes nothing.
ClockFairness == WF_clockVars(RefresherStep) /\ WF_clockVars(PassAsleep)

ClockSafetySpec == ClockInit /\ [][ClockNext]_clockVars

ClockSpec == ClockSafetySpec /\ ClockFairness

-----------------------------------------------------------------------------
(* Properties.                                                             *)

\* One call of refreshMetrics lasts less than the timeout and one command
\* longer: the deadline stops it between two commands, not inside one.
RefreshIsBounded == phase # "sleep" => elapsed < Timeout + Reply

\* collector_success 1 means that the cache is younger than one interval, one
\* timeout and one command, even when ticks were dropped by a slow refresh.
SuccessMeansFresh == success = 1 => age < Stale

\* Once Redis stays healthy collector_success comes back to 1 and stays, with
\* no restart: failed and slow refreshes do not end the loop.
Recovers == <>[]healthy => <>[](success = 1)

=============================================================================
