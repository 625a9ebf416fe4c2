----------------------- MODULE RefreshCollectorProofs -----------------------
(***************************************************************************)
(* RefreshCollector for every set of readers, payload and tags: its types, *)
(* the coherence of what Collect emits, and the refinement of the atomic   *)
(* register.  Then the two models around it, in names of their own:        *)
(* RefreshTiming, its clock, for every choice of times, and Exporter, the  *)
(* process that starts it, for any collectors and addresses.               *)
(***************************************************************************)
EXTENDS RefreshCollector, RefreshTiming, Exporter, TLAPS

\* The mutex and the control points of the goroutines that use it agree.
LockInv ==
  /\ rw.writer = "in" <=> pc = "write"
  /\ rw.writer = "pending" <=> pc = "enter"
  /\ pc = "write" => rw.readers = {}
  /\ rw.readers \cap rw.waiting = {}
  /\ \A r \in Readers : rpc[r] = "copy" <=> r \in rw.readers \cup rw.waiting
  /\ \A r \in rw.waiting : uncopied[r] = Fields

\* Fields are assigned inside the lock only, and only those of the outcome.
WriteInv ==
  /\ pc = "write" => unwritten \subseteq Assigned(run.ok)
  /\ pc # "write" => unwritten = {}

\* The cached fields as the refresh under way will leave them.
Final == [f \in Fields |-> IF f \in unwritten THEN Outcome(f) ELSE cache[f]]

CacheInv ==
  /\ looping \/ pc = "write" => Coherent(Final)
  /\ ~looping /\ pc # "write" => cache = Blank
  /\ ~looping => \A r \in Readers : rpc[r] = "idle"

ViewInv ==
  \A r \in Readers :
    /\ rpc[r] = "copy" => \A f \in Fields \ uncopied[r] : view[r][f] = cache[f]
    /\ rpc[r] = "emit" => Coherent(view[r])
    /\ rpc[r] = "idle" => view[r] = Blank

IInv == TypeOK /\ LockInv /\ WriteInv /\ CacheInv /\ ViewInv

-----------------------------------------------------------------------------
(* Facts about the fields.                                                 *)

LEMMA FieldFacts ==
  /\ "refreshed" \in Fields /\ "success" \in Fields /\ "duration" \in Fields
  /\ Payload \subseteq Fields
  /\ "refreshed" \notin Payload /\ "success" \notin Payload /\ "duration" \notin Payload
  BY PayloadAssumption DEF Fields

LEMMA AssignedFields == \A b \in BOOLEAN : Assigned(b) \subseteq Fields
  BY FieldFacts DEF Assigned

LEMMA BlankType == Blank \in [Fields -> Values]
  BY DEF Blank, Values

LEMMA OutcomeType ==
  ASSUME TypeOK
  PROVE  \A f \in Fields : Outcome(f) \in Values
  BY DEF TypeOK, Outcome, Values

-----------------------------------------------------------------------------
(* Types.                                                                  *)

LEMMA TypeInit == Init => TypeOK
<1> SUFFICES ASSUME Init PROVE TypeOK
  OBVIOUS
<1> USE DEF Init
<1>1. rw \in Mu!RWType
  BY DEF Mu!RWFree, Mu!RWType
<1>2. /\ cache \in [Fields -> Values]
      /\ view \in [Readers -> [Fields -> Values]]
  BY BlankType
<1>3. QED
  BY <1>1, <1>2 DEF TypeOK

LEMMA TypeStep == TypeOK /\ [Next]_vars => TypeOK'
<1> SUFFICES ASSUME TypeOK, [Next]_vars PROVE TypeOK'
  OBVIOUS
<1> USE DEF TypeOK, refresher, reader
<1>1. CASE Scrape
  BY <1>1 DEF Scrape
<1>2. CASE Lock
  BY <1>2 DEF Lock, Mu!LockAsk, Mu!RWType
<1>3. CASE Enter
  BY <1>3, AssignedFields DEF Enter, Mu!LockEnter, Mu!RWType
<1>4. ASSUME NEW f \in Fields, Write(f) PROVE TypeOK'
  BY <1>4, OutcomeType DEF Write
<1>5. CASE Unlock
  BY <1>5 DEF Unlock, Mu!Unlock, Mu!RWType
<1>6. CASE StartRefresh
  BY <1>6 DEF StartRefresh
<1>7. CASE TickerFires
  BY <1>7 DEF TickerFires
<1>8. ASSUME NEW r \in Readers, Collect(r) PROVE TypeOK'
  BY <1>8 DEF Collect, Mu!RLock, Mu!RWType
<1>9. ASSUME NEW r \in Readers, NEW f \in Fields, Copy(r, f) PROVE TypeOK'
  BY <1>9 DEF Copy
<1>10. ASSUME NEW r \in Readers, RUnlock(r) PROVE TypeOK'
  BY <1>10 DEF RUnlock, Mu!RUnlock, Mu!RWType
<1>11. ASSUME NEW r \in Readers, Emit(r) PROVE TypeOK'
  BY <1>11, BlankType DEF Emit
<1>12. CASE UNCHANGED vars
  BY <1>12 DEF vars
<1>13. QED
  BY <1>1, <1>2, <1>3, <1>4, <1>5, <1>6, <1>7, <1>8, <1>9, <1>10, <1>11, <1>12
  DEF Next, Refresher, Reader

\* Every field of the collector, its mutex and its goroutines keeps its type.
THEOREM TypeCorrect == Spec => []TypeOK
  BY TypeInit, TypeStep, PTL DEF Spec, SafetySpec

-----------------------------------------------------------------------------
(* The mutex.                                                              *)

LEMMA LockInit == Init => LockInv /\ WriteInv
  BY DEF Init, LockInv, WriteInv, Mu!RWFree

LEMMA LockStep == TypeOK /\ LockInv /\ [Next]_vars => LockInv'
<1> SUFFICES ASSUME TypeOK, LockInv, [Next]_vars PROVE LockInv'
  OBVIOUS
<1> USE DEF TypeOK, LockInv, refresher, reader, Mu!RWType
<1>1. CASE Scrape
  BY <1>1 DEF Scrape
<1>2. CASE Lock
  BY <1>2 DEF Lock, Mu!LockAsk
<1>3. CASE Enter
  BY <1>3 DEF Enter, Mu!LockEnter
<1>4. ASSUME NEW f \in Fields, Write(f) PROVE LockInv'
  BY <1>4 DEF Write
<1>5. CASE Unlock
  BY <1>5 DEF Unlock, Mu!Unlock
<1>6. CASE StartRefresh
  BY <1>6 DEF StartRefresh
<1>7. CASE TickerFires
  BY <1>7 DEF TickerFires
<1>8. ASSUME NEW r \in Readers, Collect(r) PROVE LockInv'
  BY <1>8 DEF Collect, Mu!RLock
<1>9. ASSUME NEW r \in Readers, NEW f \in Fields, Copy(r, f) PROVE LockInv'
  BY <1>9 DEF Copy
<1>10. ASSUME NEW r \in Readers, RUnlock(r) PROVE LockInv'
  BY <1>10 DEF RUnlock, Mu!RUnlock
<1>11. ASSUME NEW r \in Readers, Emit(r) PROVE LockInv'
  BY <1>11 DEF Emit
<1>12. CASE UNCHANGED vars
  BY <1>12 DEF vars
<1>13. QED
  BY <1>1, <1>2, <1>3, <1>4, <1>5, <1>6, <1>7, <1>8, <1>9, <1>10, <1>11, <1>12
  DEF Next, Refresher, Reader

LEMMA WriteStep == TypeOK /\ WriteInv /\ [Next]_vars => WriteInv'
  BY DEF TypeOK, WriteInv, Next, Refresher, Reader, Scrape, Lock, Enter, Write,
         Unlock, StartRefresh, TickerFires, Collect, Copy, RUnlock, Emit,
         refresher, reader, vars, Assigned

-----------------------------------------------------------------------------
(* The cached fields and the copies of Collect.                            *)

LEMMA CacheInit == Init => CacheInv /\ ViewInv
  BY DEF Init, CacheInv, ViewInv

\* Entering the lock over a cache that is blank or coherent: what the refresh
\* will have assigned is coherent.
LEMMA FinalAfterEnter ==
  ASSUME TypeOK, cache = Blank \/ Coherent(cache)
  PROVE  Coherent([f \in Fields |-> IF f \in Assigned(run.ok)
                                    THEN Outcome(f) ELSE cache[f]])
<1> DEFINE F == [f \in Fields |-> IF f \in Assigned(run.ok)
                                  THEN Outcome(f) ELSE cache[f]]
<1>1. F["duration"] # None
  BY FieldFacts, NoneAssumption DEF TypeOK, Assigned, Outcome
<1>2. CASE run.ok
  <2>1. \A f \in Payload : F[f] = F["refreshed"]
    BY <1>2, FieldFacts DEF Assigned, Outcome
  <2>2. F["refreshed"] # None /\ F["duration"] = F["refreshed"]
    BY <1>2, FieldFacts, NoneAssumption DEF TypeOK, Assigned, Outcome
  <2>3. QED
    BY <1>1, <2>1, <2>2 DEF Coherent
<1>3. CASE ~run.ok
  <2>1. \A f \in Payload \cup {"refreshed"} : F[f] = cache[f]
    BY <1>3, FieldFacts DEF Assigned
  <2>2. \A f \in Payload : cache[f] = cache["refreshed"]
    BY FieldFacts DEF Coherent, Blank
  <2>3. F["success"] = 0
    BY <1>3, FieldFacts DEF Assigned, Outcome
  <2>4. QED
    BY <1>1, <2>1, <2>2, <2>3 DEF Coherent
<1>4. QED
  BY <1>2, <1>3

LEMMA CacheStep ==
  TypeOK /\ LockInv /\ WriteInv /\ CacheInv /\ [Next]_vars => CacheInv'
<1> SUFFICES ASSUME TypeOK, LockInv, WriteInv, CacheInv, [Next]_vars
             PROVE  CacheInv'
  OBVIOUS
<1> USE DEF refresher, reader
<1>1. pc # "write" => Final = cache
  BY DEF WriteInv, Final, TypeOK
<1>2. CASE Scrape
  <2>1. Final' = cache
    BY <1>2 DEF Scrape, WriteInv, Final, TypeOK
  <2>2. QED
    BY <1>1, <1>2, <2>1 DEF Scrape, CacheInv
<1>3. CASE Lock
  BY <1>3 DEF Lock, CacheInv, Final, Outcome
<1>4. CASE Enter
  <2>1. cache = Blank \/ Coherent(cache)
    BY <1>1, <1>4 DEF Enter, CacheInv
  <2>2. Final' = [f \in Fields |-> IF f \in Assigned(run.ok)
                                   THEN Outcome(f) ELSE cache[f]]
    BY <1>4 DEF Enter, Final, Outcome
  <2>3. Coherent(Final')
    BY <2>1, <2>2, FinalAfterEnter
  <2>4. QED
    BY <1>4, <2>3 DEF Enter, CacheInv, Coherent
<1>5. ASSUME NEW f \in Fields, Write(f) PROVE CacheInv'
  <2>1. Final' = Final
    BY <1>5 DEF Write, Final, Outcome, TypeOK
  <2>2. QED
    BY <1>5, <2>1 DEF Write, CacheInv, Coherent
<1>6. CASE Unlock
  <2>1. Final' = Final
    BY <1>6 DEF Unlock, Final, Outcome
  <2>2. QED
    BY <1>6, <2>1 DEF Unlock, CacheInv, Coherent
<1>7. CASE StartRefresh
  BY <1>7 DEF StartRefresh, CacheInv, Final, Outcome
<1>8. CASE TickerFires
  BY <1>8 DEF TickerFires, CacheInv, Final, Outcome
<1>9. ASSUME NEW r \in Readers, Collect(r) \/ Reader(r) PROVE CacheInv'
  <2>1. Final' = Final /\ UNCHANGED <<pc, looping, cache>>
    BY <1>9 DEF Collect, Reader, Copy, RUnlock, Emit, Final, Outcome
  <2>2. ~looping => rpc' = rpc
    BY <1>9 DEF Collect, Reader, Copy, RUnlock, Emit, CacheInv
  <2>3. QED
    BY <2>1, <2>2 DEF CacheInv, Coherent
<1>10. CASE UNCHANGED vars
  BY <1>10 DEF vars, CacheInv, Final, Outcome
<1>11. QED
  BY <1>2, <1>3, <1>4, <1>5, <1>6, <1>7, <1>8, <1>9, <1>10 DEF Next, Refresher

LEMMA ViewStep ==
  TypeOK /\ LockInv /\ WriteInv /\ CacheInv /\ ViewInv /\ [Next]_vars => ViewInv'
<1> SUFFICES ASSUME TypeOK, LockInv, WriteInv, CacheInv, ViewInv, [Next]_vars
             PROVE  ViewInv'
  OBVIOUS
<1> USE DEF refresher, reader, ViewInv
<1>1. ASSUME NEW f \in Fields, Write(f) PROVE ViewInv'
  \* Nobody copies while the refresher is inside.
  <2>1. \A r \in Readers : rpc[r] = "copy" => uncopied[r] = Fields
    BY <1>1 DEF Write, LockInv
  <2>2. QED
    BY <1>1, <2>1 DEF Write, Coherent
<1>2. ASSUME NEW r \in Readers, Collect(r) PROVE ViewInv'
  BY <1>2 DEF Collect, Coherent, TypeOK
<1>3. ASSUME NEW r \in Readers, NEW f \in Fields, Copy(r, f) PROVE ViewInv'
  BY <1>3 DEF Copy, Coherent, TypeOK
<1>4. ASSUME NEW r \in Readers, RUnlock(r) PROVE ViewInv'
  <2>1. pc # "write"
    BY <1>4 DEF RUnlock, LockInv
  <2>2. looping
    BY <1>4 DEF RUnlock, CacheInv
  <2>3. Coherent(cache)
    <3>1. Final = cache
      BY <2>1 DEF WriteInv, Final, TypeOK
    <3>2. QED
      BY <2>2, <3>1 DEF CacheInv
  <2>4. Coherent(view[r])
    BY <1>4, <2>3, FieldFacts DEF RUnlock, Coherent
  <2>5. QED
    BY <1>4, <2>4 DEF RUnlock, Coherent, TypeOK
<1>5. ASSUME NEW r \in Readers, Emit(r) PROVE ViewInv'
  BY <1>5 DEF Emit, Coherent, TypeOK
<1>6. CASE Scrape \/ Lock \/ Enter \/ Unlock \/ StartRefresh \/ TickerFires
  BY <1>6 DEF Scrape, Lock, Enter, Unlock, StartRefresh, TickerFires, Coherent
<1>7. CASE UNCHANGED vars
  BY <1>7 DEF vars, Coherent
<1>8. QED
  BY <1>1, <1>2, <1>3, <1>4, <1>5, <1>6, <1>7 DEF Next, Refresher, Reader

\* The inductive invariant: the mutex and the control points agree, what is
\* cached is coherent once the refresh under way is finished, and a copy equals
\* the cached field while its reader is inside.
LEMMA Invariance == Spec => []IInv
<1>1. Init => IInv
  BY TypeInit, LockInit, CacheInit DEF IInv
<1>2. IInv /\ [Next]_vars => IInv'
  BY TypeStep, LockStep, WriteStep, CacheStep, ViewStep DEF IInv
<1>3. QED
  BY <1>1, <1>2, PTL DEF Spec, SafetySpec

\* What Collect emits is of one piece, for any number of readers and any
\* payload (Collect and refreshMetrics of the background collectors).
THEOREM ReportsAreCoherent == Spec => []CoherentReport
<1>1. IInv => CoherentReport
  BY DEF IInv, ViewInv, CoherentReport
<1>2. QED
  BY <1>1, Invariance, PTL

-----------------------------------------------------------------------------
(* The refinement of the atomic register.                                  *)

\* The register's variables under the refinement mapping.
Snapshot == [f \in Fields |-> IF MidPublish /\ f \in unwritten
                             THEN Outcome(f) ELSE cache[f]]
PhaseOf == [r \in Readers |->
             CASE rpc[r] = "idle" -> "idle"
               [] rpc[r] = "copy" /\ uncopied[r] = Fields -> "called"
               [] OTHER -> "taken"]
ReportOf == [r \in Readers |->
              CASE rpc[r] = "emit" -> view[r]
                [] rpc[r] = "copy" /\ uncopied[r] # Fields -> cache
                [] OTHER -> Blank]

Mapped == <<Snapshot, PhaseOf, ReportOf>>

LEMMA MappedVars == Register!vars = Mapped /\ Register!vars' = Mapped'
  BY DEF Register!vars, Mapped, Snapshot, PhaseOf, ReportOf

LEMMA RegisterFields ==
  /\ Register!Fields = Fields
  /\ Register!Blank = Blank
  BY DEF Register!Fields, Register!Blank, Fields, Blank

LEMMA RegisterInit == Init => Register!Init
<1> SUFFICES ASSUME Init PROVE Register!Init
  OBVIOUS
<1>1. Snapshot = Blank
  BY DEF Init, Snapshot, MidPublish, Blank
<1>2. PhaseOf = [r \in Readers |-> "idle"]
  BY DEF Init, PhaseOf
<1>3. ReportOf = [r \in Readers |-> Blank]
  BY DEF Init, ReportOf
<1>4. QED
  BY <1>1, <1>2, <1>3, RegisterFields
  DEF Register!Init, Snapshot, PhaseOf, ReportOf

\* The first assignment of a refresh publishes the whole of it.
LEMMA PublishStep ==
  ASSUME IInv, NEW f \in Fields, Write(f), ~MidPublish
  PROVE  /\ Snapshot' = IF run.ok THEN Register!Refreshed(run.tag)
                                  ELSE Register!Failed(Snapshot, run.tag)
         /\ run.tag \in Tags
<1>1. run.tag \in Tags /\ run.ok \in BOOLEAN /\ run' = run
  BY DEF IInv, TypeOK, Write
<1>2. unwritten = Assigned(run.ok) /\ Snapshot = cache
  BY DEF Write, MidPublish, Snapshot, IInv, TypeOK
<1>3. MidPublish'
  BY <1>1, <1>2 DEF Write, MidPublish
<1>4. Snapshot' = [g \in Fields |-> IF g \in Assigned(run.ok)
                                    THEN Outcome(g) ELSE cache[g]]
  BY <1>1, <1>2, <1>3 DEF Write, Snapshot, Outcome, IInv, TypeOK
<1>5. CASE run.ok
  BY <1>1, <1>4, <1>5, RegisterFields DEF Assigned, Outcome, Register!Refreshed
<1>6. CASE ~run.ok
  BY <1>1, <1>2, <1>4, <1>6, FieldFacts
  DEF Assigned, Outcome, Register!Failed, IInv, TypeOK
<1>7. QED
  BY <1>1, <1>5, <1>6

LEMMA RegisterStep == IInv /\ [Next]_vars => [Register!Next]_Mapped
<1> SUFFICES ASSUME IInv, [Next]_vars PROVE [Register!Next]_Mapped
  OBVIOUS
<1> USE DEF refresher, reader
<1>1. CASE Scrape \/ Lock \/ StartRefresh
  <2>1. ~MidPublish /\ ~MidPublish'
    BY <1>1 DEF Scrape, Lock, StartRefresh, MidPublish
  <2>2. QED
    BY <1>1, <2>1
    DEF Scrape, Lock, StartRefresh, Mapped, Snapshot, PhaseOf, ReportOf
<1>2. CASE Enter
  <2>1. ~MidPublish /\ ~MidPublish'
    BY <1>2 DEF Enter, MidPublish
  <2>2. QED
    BY <1>2, <2>1 DEF Enter, Mapped, Snapshot, PhaseOf, ReportOf
<1>3. ASSUME NEW f \in Fields, Write(f) PROVE [Register!Next]_Mapped
  <2>1. UNCHANGED <<PhaseOf, ReportOf>>
    <3>1. \A r \in Readers : rpc[r] = "copy" => uncopied[r] = Fields
      BY <1>3 DEF Write, IInv, LockInv
    <3>2. QED
      BY <1>3, <3>1 DEF Write, PhaseOf, ReportOf
  <2>2. CASE MidPublish
    <3>1. MidPublish'
      BY <1>3, <2>2 DEF Write, MidPublish, IInv, WriteInv, TypeOK
    <3>2. Snapshot' = Snapshot
      BY <1>3, <2>2, <3>1 DEF Write, Snapshot, Outcome, IInv, TypeOK
    <3>3. QED
      BY <2>1, <3>2 DEF Mapped
  <2>3. CASE ~MidPublish
    <3>1. /\ Snapshot' = IF run.ok THEN Register!Refreshed(run.tag)
                                   ELSE Register!Failed(Snapshot, run.tag)
          /\ run.tag \in Tags
      BY <1>3, <2>3, PublishStep
    <3>2. Register!PublishSuccess \/ Register!PublishFailure
      BY <2>1, <3>1 DEF Register!PublishSuccess, Register!PublishFailure,
                        Snapshot, PhaseOf, ReportOf
    <3>3. QED
      BY <3>2 DEF Register!Next
  <2>4. QED
    BY <2>2, <2>3
<1>4. CASE Unlock
  <2>1. unwritten = {} /\ unwritten' = {} /\ cache' = cache
    BY <1>4 DEF Unlock
  <2>2. QED
    BY <1>4, <2>1 DEF Unlock, Mapped, Snapshot, PhaseOf, ReportOf
<1>5. ASSUME NEW r \in Readers, Collect(r) \/ Reader(r)
      PROVE  [Register!Next]_Mapped
  <2>1. Snapshot' = Snapshot
    BY <1>5 DEF Collect, Reader, Copy, RUnlock, Emit, Snapshot, MidPublish, Outcome
  <2>2. CASE Collect(r)
    <3>1. PhaseOf[r] = "idle" /\ PhaseOf' = [PhaseOf EXCEPT ![r] = "called"]
      BY <2>2 DEF Collect, PhaseOf, IInv, TypeOK
    <3>2. ReportOf' = ReportOf
      BY <2>2 DEF Collect, ReportOf, IInv, TypeOK
    <3>3. Register!Call(r)
      BY <2>1, <3>1, <3>2 DEF Register!Call, Snapshot, PhaseOf, ReportOf
    <3>4. QED
      BY <3>3 DEF Register!Next
  <2>3. ASSUME NEW f \in Fields, Copy(r, f) PROVE [Register!Next]_Mapped
    <3>1. uncopied'[r] # Fields /\ cache' = cache
      BY <2>3 DEF Copy, IInv, TypeOK
    <3>2. CASE uncopied[r] = Fields
      <4>1. PhaseOf[r] = "called" /\ PhaseOf' = [PhaseOf EXCEPT ![r] = "taken"]
        BY <2>3, <3>1, <3>2 DEF Copy, PhaseOf, IInv, TypeOK
      <4>2. Snapshot = cache
        BY <2>3 DEF Copy, IInv, LockInv, Snapshot, MidPublish, TypeOK
      <4>3. ReportOf' = [ReportOf EXCEPT ![r] = cache]
        BY <2>3, <3>1, <3>2 DEF Copy, ReportOf, IInv, TypeOK
      <4>4. Register!Take(r)
        BY <2>1, <4>1, <4>2, <4>3 DEF Register!Take, Snapshot, PhaseOf, ReportOf
      <4>5. QED
        BY <4>4 DEF Register!Next
    <3>3. CASE uncopied[r] # Fields
      <4>1. PhaseOf' = PhaseOf /\ ReportOf' = ReportOf
        BY <2>3, <3>1, <3>3 DEF Copy, PhaseOf, ReportOf, IInv, TypeOK
      <4>2. QED
        BY <2>1, <4>1 DEF Mapped
    <3>4. QED
      BY <3>2, <3>3
  <2>4. CASE RUnlock(r)
    <3>1. uncopied[r] # Fields /\ view[r] = cache
      BY <2>4, FieldFacts DEF RUnlock, IInv, ViewInv, TypeOK
    <3>2. PhaseOf' = PhaseOf /\ ReportOf' = ReportOf
      BY <2>4, <3>1 DEF RUnlock, PhaseOf, ReportOf, IInv, TypeOK
    <3>3. QED
      BY <2>1, <3>2 DEF Mapped
  <2>5. CASE Emit(r)
    <3>1. PhaseOf[r] = "taken" /\ PhaseOf' = [PhaseOf EXCEPT ![r] = "idle"]
      BY <2>5 DEF Emit, PhaseOf, IInv, TypeOK
    <3>2. ReportOf' = [ReportOf EXCEPT ![r] = Blank]
      BY <2>5 DEF Emit, ReportOf, IInv, TypeOK
    <3>3. Register!Return(r)
      BY <2>1, <3>1, <3>2, RegisterFields
      DEF Register!Return, Snapshot, PhaseOf, ReportOf
    <3>4. QED
      BY <3>3 DEF Register!Next
  <2>6. QED
    BY <1>5, <2>2, <2>3, <2>4, <2>5 DEF Reader
<1>6. CASE TickerFires \/ UNCHANGED vars
  BY <1>6
  DEF TickerFires, vars, Mapped, Snapshot, PhaseOf, ReportOf, MidPublish, Outcome
<1>7. QED
  BY <1>1, <1>2, <1>3, <1>4, <1>5, <1>6 DEF Next, Refresher

\* Under the lock, the field-by-field assignments and copies implement one
\* atomic register (refreshMetrics and Collect of the background collectors).
THEOREM RefinesRegister == Spec => ImplementsRegister
<1>1. Init => Register!Init
  BY RegisterInit
<1>2. IInv /\ [Next]_vars => [Register!Next]_(Register!vars)
  BY RegisterStep, MappedVars
<1>3. QED
  BY <1>1, <1>2, Invariance, PTL
  DEF Spec, SafetySpec, ImplementsRegister, Register!Spec

-----------------------------------------------------------------------------
(* The clock: RefreshTiming for every interval, timeout, reply time and    *)
(* number of commands.  How long a refresh lasts, and how old a cache can  *)
(* be whose last refresh succeeded.                                        *)

\* The deadline is checked when a command is sent, so a reply that is awaited
\* has overrun it by less than its own waiting time.
DeadlineInv ==
  /\ phase = "reply" => elapsed < Timeout + waited
  /\ phase # "sleep" => elapsed < Timeout + Reply

\* Asleep, the age and the time to the next tick share one interval; awake,
\* the age is at most an interval older than the refresh.
AgeInv ==
  success = 1 =>
    /\ started
    /\ phase = "sleep" /\ ~ticked => age + next <= Interval
    /\ phase = "sleep" /\ ticked => age <= Interval
    /\ phase # "sleep" => age <= Interval + elapsed

TimingInv == ClockTypeOK /\ DeadlineInv /\ AgeInv

\* The two halves of ClockTypeOK: one for the prover of first-order logic, one for
\* the prover of arithmetic.
Flags ==
  /\ ok \in BOOLEAN
  /\ started \in BOOLEAN
  /\ ticked \in BOOLEAN
  /\ healthy \in BOOLEAN

Numbers ==
  /\ phase \in {"command", "reply", "publish", "sleep"}
  /\ left \in 0 .. Commands
  /\ elapsed \in 0 .. Timeout + Reply
  /\ waited \in 0 .. Reply
  /\ next \in 1 .. Interval
  /\ success \in {0, 1}
  /\ age \in 0 .. Stale

LEMMA TypeHalves == ClockTypeOK <=> Flags /\ Numbers
  BY Zenon DEF ClockTypeOK, Flags, Numbers

LEMMA FlagsStep == Flags /\ [ClockNext]_clockVars => Flags'
  BY Zenon
  DEF Flags, ClockNext, RefresherStep, Send, Expire, Answer, Fail, Publish, StartOnTick,
      PassInFlight, PassAsleep, RedisChanges, Ticker, clockVars

LEMMA NumbersStep == Numbers /\ DeadlineInv /\ [ClockNext]_clockVars => Numbers'
<1> SUFFICES ASSUME Numbers, DeadlineInv, [ClockNext]_clockVars PROVE Numbers'
  OBVIOUS
<1> USE TimingAssumption DEF Numbers, DeadlineInv, Stale
<1>1. CASE Send
  BY <1>1 DEF Send
<1>2. CASE Expire \/ Answer \/ Fail
  BY <1>2 DEF Expire, Answer, Fail
<1>3. CASE Publish
  BY <1>3 DEF Publish
<1>4. CASE StartOnTick
  BY <1>4 DEF StartOnTick
<1>5. CASE PassInFlight
  BY <1>5 DEF PassInFlight, GrowAge, Ticker
<1>6. CASE PassAsleep
  BY <1>6 DEF PassAsleep, GrowAge, Ticker
<1>7. CASE RedisChanges \/ UNCHANGED clockVars
  BY <1>7 DEF RedisChanges, clockVars
<1>8. QED
  BY <1>1, <1>2, <1>3, <1>4, <1>5, <1>6, <1>7 DEF ClockNext, RefresherStep

LEMMA DeadlineStep == Numbers /\ DeadlineInv /\ [ClockNext]_clockVars => DeadlineInv'
<1> SUFFICES ASSUME Numbers, DeadlineInv, [ClockNext]_clockVars PROVE DeadlineInv'
  OBVIOUS
<1> USE TimingAssumption DEF Numbers, DeadlineInv
<1>1. CASE Send
  BY <1>1 DEF Send
<1>2. CASE Expire \/ Answer \/ Fail \/ Publish
  BY <1>2 DEF Expire, Answer, Fail, Publish
<1>3. CASE StartOnTick
  BY <1>3 DEF StartOnTick
<1>4. CASE PassInFlight
  BY <1>4 DEF PassInFlight
<1>5. CASE PassAsleep \/ RedisChanges \/ UNCHANGED clockVars
  BY <1>5 DEF PassAsleep, RedisChanges, clockVars
<1>6. QED
  BY <1>1, <1>2, <1>3, <1>4, <1>5 DEF ClockNext, RefresherStep

LEMMA AgeStep == Numbers /\ DeadlineInv /\ AgeInv /\ [ClockNext]_clockVars => AgeInv'
<1> SUFFICES ASSUME Numbers, DeadlineInv, AgeInv, [ClockNext]_clockVars PROVE AgeInv'
  OBVIOUS
<1> USE TimingAssumption DEF Numbers, DeadlineInv, AgeInv, Stale
<1>1. CASE Send \/ Expire \/ Answer \/ Fail
  BY <1>1 DEF Send, Expire, Answer, Fail
<1>2. CASE Publish
  BY <1>2 DEF Publish
<1>3. CASE StartOnTick
  BY <1>3 DEF StartOnTick
<1>4. CASE PassInFlight
  BY <1>4 DEF PassInFlight, GrowAge, Ticker
<1>5. CASE PassAsleep
  BY <1>5 DEF PassAsleep, GrowAge, Ticker
<1>6. CASE RedisChanges \/ UNCHANGED clockVars
  BY <1>6 DEF RedisChanges, clockVars
<1>7. QED
  BY <1>1, <1>2, <1>3, <1>4, <1>5, <1>6 DEF ClockNext, RefresherStep

LEMMA TimingInvariance == ClockSpec => []TimingInv
<1>1. ClockInit => Flags
  BY Zenon DEF ClockInit, Flags
<1>2. ClockInit => Numbers /\ DeadlineInv /\ AgeInv
  BY TimingAssumption DEF ClockInit, Numbers, DeadlineInv, AgeInv, Stale
<1>3. ClockInit => TimingInv
  BY <1>1, <1>2, TypeHalves DEF TimingInv
<1>4. TimingInv /\ [ClockNext]_clockVars => TimingInv'
  <2>1. ClockTypeOK' <=> Flags' /\ Numbers'
    BY Zenon DEF ClockTypeOK, Flags, Numbers
  <2>2. QED
    BY <2>1, TypeHalves, FlagsStep, NumbersStep, DeadlineStep, AgeStep DEF TimingInv
<1>5. QED
  BY <1>3, <1>4, PTL DEF ClockSpec, ClockSafetySpec

\* Clocks, ages and control points keep their types; the deadline is what
\* bounds the time a refresh has lasted.
THEOREM TimingTypeCorrect == ClockSpec => []ClockTypeOK
  BY TimingInvariance, PTL DEF TimingInv

\* A refresh lasts less than its timeout and one command, whatever the ratio
\* of the two (refreshMetrics and the context of its commands).
THEOREM RefreshBounded == ClockSpec => []RefreshIsBounded
<1>1. TimingInv => RefreshIsBounded
  BY DEF TimingInv, DeadlineInv, RefreshIsBounded
<1>2. QED
  BY <1>1, TimingInvariance, PTL

\* While collector_success is 1 the cache is younger than one interval, one
\* timeout and one command, for every choice of the three.
THEOREM FreshWhenSuccessful == ClockSpec => []SuccessMeansFresh
<1>1. TimingInv => SuccessMeansFresh
  BY TypeHalves, TimingAssumption
  DEF TimingInv, Numbers, DeadlineInv, AgeInv, SuccessMeansFresh, Stale
<1>2. QED
  BY <1>1, TimingInvariance, PTL

-----------------------------------------------------------------------------
(* The process: Exporter for any collectors, addresses and settings.  The  *)
(* port opens only when everything is ready, and no listener is left open. *)

\* The steps at which no listener was bound yet.
Before == {"parse", "construct", "register", "node", "web"}

\* Every background collector main has passed is refreshed and goes on.
ConstructInv ==
  /\ stage = "parse" => position = 1
  /\ stage = "construct" =>
       \A i \in DOMAIN Order :
         i < position /\ Order[i] \in Background \cap enabled => Order[i] \in refreshed \cap running
  /\ stage \notin {"parse", "construct", "exited"} =>
       enabled \cap Background \subseteq refreshed \cap running
  /\ stage \notin {"parse", "construct", "register", "exited"} =>
       /\ ScrapeTime \cup (enabled \ {Frr}) \subseteq registered
       /\ Frr \in registered <=> frr

\* What becomes of --path.rootfs.
RootfsInv ==
  /\ rootfsFlag \in {rootfs, RootDir}
  /\ stage \notin {"parse", "exited"} /\ Frr \notin enabled => rootfsFlag = rootfs
  /\ stage \in {"web", "bind", "serve", "unbind"} =>
       /\ Node \in registered
       /\ nodeRootfs \in {rootfs, RootDir}
       /\ Frr \notin enabled => nodeRootfs = rootfs

\* Which sockets may be open.
SocketInv ==
  /\ DOMAIN socket = 1 .. Len(listeners)
  /\ stage \in Before => listeners = <<>>
  /\ stage = "unbind" => \A i \in DOMAIN socket : i < position => socket[i] # "open"
  /\ stage = "exited" => \A i \in DOMAIN socket : socket[i] # "open"
  /\ vrf # NoVrf /\ (systemd \/ HasVsock) =>
       listeners = <<>> /\ stage \notin {"bind", "serve", "unbind"}

MainInv == MainTypeOK /\ ConstructInv /\ RootfsInv /\ SocketInv

-----------------------------------------------------------------------------
LEMMA MainInitInv == MainInit => MainInv
<1> SUFFICES ASSUME MainInit PROVE MainInv
  OBVIOUS
<1> USE CollectorsAssumption, WebAssumption DEF MainInit
<1>1. MainTypeOK
  <2>1. listeners \in Seq(Addresses) /\ socket \in Seq({"open", "closed", "stuck"})
        /\ Len(socket) = Len(listeners)
    OBVIOUS
  <2>2. position \in Nat \ {0}
    OBVIOUS
  <2>3. frr \in BOOLEAN /\ systemd \in BOOLEAN
    BY Zenon
  <2>4. refreshed \subseteq Background /\ running \subseteq Background
        /\ registered \subseteq Collectors \cup {Node}
    OBVIOUS
  <2>5. rootfsFlag \in Rootfs /\ nodeRootfs \in Rootfs \cup {NoRootfs}
    OBVIOUS
  <2> QED
    BY <2>1, <2>2, <2>3, <2>4, <2>5, Zenon DEF MainTypeOK
<1>2. ConstructInv
  BY DEF ConstructInv
<1>3. RootfsInv
  BY DEF RootfsInv
<1>4. SocketInv
  BY DEF SocketInv, Before
<1> QED
  BY <1>1, <1>2, <1>3, <1>4 DEF MainInv

LEMMA NextType == MainTypeOK /\ [MainNext]_mainVars => MainTypeOK'
<1> SUFFICES ASSUME MainTypeOK, [MainNext]_mainVars PROVE MainTypeOK'
  OBVIOUS
<1> USE CollectorsAssumption, WebAssumption
        DEF MainTypeOK, configuration, collectors, flags, web, Exit
<1>1. CASE ParseFlags
  BY <1>1 DEF ParseFlags
<1>2. CASE ConstructIdle
  BY <1>2 DEF ConstructIdle, Construct
<1>3. CASE ConstructBackground
  BY <1>3 DEF ConstructBackground, Construct
<1>4. CASE ConstructFrr
  BY <1>4 DEF ConstructFrr, Construct
<1>5. CASE Constructed
  BY <1>5 DEF Constructed
<1>6. CASE RegisterEnabled
  BY <1>6 DEF RegisterEnabled
<1>7. CASE NewNode
  BY <1>7 DEF NewNode
<1>8. CASE Refuse \/ BindStarts \/ BindFails \/ BindEnds \/ Unbound
  BY <1>8 DEF Refuse, BindStarts, BindFails, BindEnds, Unbound
<1>9. CASE Bind
  <2>1. addresses[position] \in Addresses
    BY <1>9 DEF Bind
  <2>2. /\ listeners' = Append(listeners, addresses[position])
        /\ socket' = Append(socket, "open")
    BY <1>9 DEF Bind
  <2>3. listeners' \in Seq(Addresses) /\ Len(listeners') = Len(listeners) + 1
    BY <2>1, <2>2
  <2>4. socket' \in Seq({"open", "closed", "stuck"}) /\ Len(socket') = Len(socket) + 1
    BY <2>2
  <2> QED
    BY <1>9, <2>3, <2>4 DEF Bind
<1>10. CASE Close
  BY <1>10 DEF Close
<1>11. CASE ToolkitServes
  BY <1>11 DEF ToolkitServes
<1>12. CASE ServeEnds
  BY <1>12 DEF ServeEnds
<1>13. CASE \E i \in DOMAIN socket : ServeFails(i)
  BY <1>13 DEF ServeFails
<1>14. CASE UNCHANGED mainVars
  BY <1>14 DEF mainVars
<1> QED
  BY <1>1, <1>2, <1>3, <1>4, <1>5, <1>6, <1>7, <1>8, <1>9, <1>10, <1>11, <1>12, <1>13, <1>14
     DEF MainNext, Start, Serving

-----------------------------------------------------------------------------
LEMMA NextConstruct == MainTypeOK /\ ConstructInv /\ [MainNext]_mainVars => ConstructInv'
<1> SUFFICES ASSUME MainTypeOK, ConstructInv, [MainNext]_mainVars PROVE ConstructInv'
  OBVIOUS
<1> USE DEF ConstructInv, configuration, collectors, flags, web, Exit
<1>1. CASE ParseFlags
  BY <1>1, CollectorsAssumption DEF ParseFlags
<1>2. CASE ConstructIdle
  <2>1. PICK c \in Collectors : Construct(c) /\ c \in ScrapeTime \cup (Collectors \ enabled)
    BY <1>2 DEF ConstructIdle
  <2>2. c \notin Background \cap enabled
    BY <2>1 DEF Background
  <2>3. /\ stage = "construct" /\ position \in DOMAIN Order /\ Order[position] = c
        /\ position' = position + 1 /\ position \in Nat
    BY <2>1, CollectorsAssumption DEF Construct, MainTypeOK, Collectors
  <2>4. UNCHANGED <<stage, enabled, refreshed, running>>
    BY <1>2 DEF ConstructIdle
  <2>5. ASSUME NEW i \in DOMAIN Order, i < position', Order[i] \in Background \cap enabled
        PROVE  Order[i] \in refreshed' \cap running'
    <3>1. i < position \/ i = position
      BY <2>5, <2>2, <2>3, <2>4, CollectorsAssumption
    <3> QED
      BY <2>5, <3>1, <2>2, <2>3, <2>4
  <2> QED
    BY <2>5, <2>2, <2>3, <2>4
<1>3. CASE ConstructBackground
  <2>1. PICK c \in Background \cap enabled :
          Construct(c) /\ refreshed' = refreshed \cup {c} /\ running' = running \cup {c}
    BY <1>3 DEF ConstructBackground
  <2>2. stage = "construct" /\ Order[position] = c /\ position' = position + 1 /\ position \in Nat
    BY <2>1 DEF Construct, MainTypeOK
  <2>3. UNCHANGED <<stage, enabled>>
    BY <1>3 DEF ConstructBackground
  <2>4. ASSUME NEW i \in DOMAIN Order, i < position', Order[i] \in Background \cap enabled
        PROVE  Order[i] \in refreshed' \cap running'
    <3>1. i < position \/ i = position
      BY <2>4, <2>1, <2>2, <2>3, CollectorsAssumption
    <3> QED
      BY <2>4, <3>1, <2>1, <2>2, <2>3
  <2> QED
    BY <2>4, <2>1, <2>2, <2>3
<1>4. CASE ConstructFrr
  <2>1. stage = "construct" /\ Order[position] = Frr /\ position' = position + 1 /\ position \in Nat
    BY <1>4 DEF ConstructFrr, Construct, MainTypeOK
  <2>2. UNCHANGED <<stage, enabled, refreshed, running>>
    BY <1>4 DEF ConstructFrr
  <2>3. Frr \notin Background
    BY DEF Background
  <2>4. ASSUME NEW i \in DOMAIN Order, i < position', Order[i] \in Background \cap enabled
        PROVE  Order[i] \in refreshed' \cap running'
    <3>1. i < position \/ i = position
      BY <2>4, <2>1, <2>2, <2>3, CollectorsAssumption
    <3> QED
      BY <2>4, <3>1, <2>1, <2>2, <2>3
  <2> QED
    BY <2>4, <2>1, <2>2, <2>3
<1>5. CASE Constructed
  <2>1. stage = "construct" /\ position > Len(Order) /\ stage' = "register"
    BY <1>5 DEF Constructed
  <2>2. \A i \in DOMAIN Order :
          Order[i] \in Background \cap enabled => Order[i] \in refreshed \cap running
    BY <2>1, CollectorsAssumption DEF MainTypeOK, Collectors
  <2>3. enabled \cap Background \subseteq refreshed \cap running
    BY <2>2 DEF Background, Collectors
  <2> QED
    BY <1>5, <2>1, <2>3 DEF Constructed
<1>6. CASE RegisterEnabled
  <2>1. registered' = {c \in Collectors : IsEnabled(c)}
    BY <1>6 DEF RegisterEnabled
  <2>2. ScrapeTime \cup (enabled \ {Frr}) \subseteq registered'
    BY <2>1, CollectorsAssumption DEF IsEnabled, MainTypeOK, Background
  <2>3. Frr \in registered' <=> frr
    BY <2>1, CollectorsAssumption DEF IsEnabled
  <2> QED
    BY <1>6, <2>2, <2>3 DEF RegisterEnabled
<1>7. CASE NewNode
  <2>1. Node # Frr
    BY CollectorsAssumption
  <2> QED
    BY <1>7, <2>1 DEF NewNode
<1>8. CASE Refuse \/ BindStarts \/ BindFails \/ BindEnds \/ Unbound \/ Bind \/ Close
  BY <1>8 DEF Refuse, BindStarts, BindFails, BindEnds, Unbound, Bind, Close
<1>9. CASE ToolkitServes \/ Serving
  BY <1>9 DEF ToolkitServes, Serving, ServeEnds, ServeFails
<1>10. CASE UNCHANGED mainVars
  BY <1>10 DEF mainVars
<1> QED
  BY <1>1, <1>2, <1>3, <1>4, <1>5, <1>6, <1>7, <1>8, <1>9, <1>10 DEF MainNext, Start

LEMMA NextRootfs == MainTypeOK /\ RootfsInv /\ [MainNext]_mainVars => RootfsInv'
<1> SUFFICES ASSUME MainTypeOK, RootfsInv, [MainNext]_mainVars PROVE RootfsInv'
  OBVIOUS
<1> USE DEF RootfsInv, configuration, collectors, flags, web, Exit
<1>1. CASE ParseFlags
  BY <1>1 DEF ParseFlags
<1>2. CASE ConstructIdle \/ ConstructBackground \/ Constructed \/ RegisterEnabled
  BY <1>2 DEF ConstructIdle, ConstructBackground, Construct, Constructed, RegisterEnabled
<1>3. CASE ConstructFrr
  BY <1>3 DEF ConstructFrr, Construct
<1>4. CASE NewNode
  BY <1>4 DEF NewNode
<1>5. CASE Refuse \/ BindStarts \/ BindFails \/ BindEnds \/ Unbound \/ Bind \/ Close
  BY <1>5 DEF Refuse, BindStarts, BindFails, BindEnds, Unbound, Bind, Close
<1>6. CASE ToolkitServes \/ Serving
  BY <1>6 DEF ToolkitServes, Serving, ServeEnds, ServeFails
<1>7. CASE UNCHANGED mainVars
  BY <1>7 DEF mainVars
<1> QED
  BY <1>1, <1>2, <1>3, <1>4, <1>5, <1>6, <1>7 DEF MainNext, Start

LEMMA NextSocket == MainTypeOK /\ SocketInv /\ [MainNext]_mainVars => SocketInv'
<1> SUFFICES ASSUME MainTypeOK, SocketInv, [MainNext]_mainVars PROVE SocketInv'
  OBVIOUS
<1> USE DEF SocketInv, HasVsock, Before, configuration, collectors, flags, web, Exit
<1>0. stage \in Before => DOMAIN socket = {}
  BY DEF MainTypeOK
<1>1. CASE ParseFlags \/ ConstructIdle \/ ConstructBackground \/ ConstructFrr
  BY <1>0, <1>1 DEF ParseFlags, ConstructIdle, ConstructBackground, ConstructFrr, Construct
<1>2. CASE Constructed \/ RegisterEnabled \/ NewNode
  BY <1>0, <1>2 DEF Constructed, RegisterEnabled, NewNode
<1>3. CASE Refuse \/ BindStarts
  BY <1>0, <1>3 DEF Refuse, BindStarts
<1>4. CASE Bind
  <2>1. /\ listeners' = Append(listeners, addresses[position]) /\ socket' = Append(socket, "open")
        /\ stage = "bind"
        /\ UNCHANGED <<stage, vrf, systemd, addresses>>
    BY <1>4 DEF Bind
  <2>2. socket \in Seq({"open", "closed", "stuck"}) /\ Len(socket) = Len(listeners)
    BY DEF MainTypeOK
  <2>3. DOMAIN socket' = 1 .. Len(listeners')
    BY <2>1, <2>2 DEF MainTypeOK
  <2> QED
    BY <2>1, <2>3
<1>5. CASE BindFails
  BY <1>5 DEF BindFails, MainTypeOK
<1>6. CASE BindEnds
  BY <1>6 DEF BindEnds
<1>7. CASE Close
  <2>1. /\ stage = "unbind" /\ position \in 1 .. Len(listeners)
        /\ position' = position + 1
        /\ UNCHANGED <<stage, listeners, vrf, systemd, addresses>>
    BY <1>7 DEF Close, MainTypeOK
  <2>2. PICK s \in {"closed", "stuck"} :
          socket' = [socket EXCEPT ![position] = IF @ = "closed" THEN @ ELSE s]
    BY <1>7 DEF Close
  <2>3. DOMAIN socket' = DOMAIN socket /\ socket'[position] # "open"
    BY <2>1, <2>2
  <2>4. ASSUME NEW i \in DOMAIN socket', i < position' PROVE socket'[i] # "open"
    BY <2>1, <2>2, <2>3, <2>4
  <2> QED
    BY <2>1, <2>3, <2>4
<1>8. CASE Unbound
  <2>1. \A i \in DOMAIN socket : i < position
    BY <1>8 DEF Unbound, MainTypeOK
  <2> QED
    BY <1>8, <2>1 DEF Unbound
<1>9. CASE ToolkitServes
  BY <1>0, <1>9, WebAssumption DEF ToolkitServes, MainTypeOK
<1>10. CASE ServeEnds
  BY <1>10 DEF ServeEnds
<1>11. CASE \E i \in DOMAIN socket : ServeFails(i)
  BY <1>11 DEF ServeFails
<1>12. CASE UNCHANGED mainVars
  BY <1>12 DEF mainVars
<1> QED
  BY <1>1, <1>2, <1>3, <1>4, <1>5, <1>6, <1>7, <1>8, <1>9, <1>10, <1>11, <1>12
     DEF MainNext, Start, Serving

-----------------------------------------------------------------------------
LEMMA MainInvariance == MainSpec => []MainInv
<1>1. MainInv /\ [MainNext]_mainVars => MainInv'
  BY NextType, NextConstruct, NextRootfs, NextSocket DEF MainInv
<1> QED
  BY MainInitInv, <1>1, PTL DEF MainSpec

\* The variables of main stay in their ranges, whatever fails.
THEOREM ExporterTypeCorrect == MainSpec => []MainTypeOK
<1>1. MainInv => MainTypeOK
  BY DEF MainInv
<1> QED
  BY MainInvariance, <1>1, PTL

\* The port opens when every enabled collector is refreshed and registered,
\* for any set of them and any order of construction.
THEOREM PortOpensWhenReady == MainSpec => []ListensWhenReady
<1>1. MainInv => ListensWhenReady
  <2> SUFFICES ASSUME MainInv, Listening PROVE ListensWhenReady
    BY DEF ListensWhenReady
  <2>1. stage \in {"bind", "serve", "unbind"}
    BY DEF MainInv, MainTypeOK, SocketInv, Before, Listening
  <2> QED
    BY <2>1 DEF MainInv, ConstructInv, RootfsInv, ListensWhenReady
<1> QED
  BY MainInvariance, <1>1, PTL

\* A process that gives up has closed every listener it bound, for any number
\* of addresses, whichever of the binds, serves and closes fail.
THEOREM NoListenerLeft == MainSpec => []ListenersReleased
<1>1. MainInv => ListenersReleased
  BY DEF MainInv, SocketInv, ListenersReleased, Listening
<1> QED
  BY MainInvariance, <1>1, PTL

=============================================================================
