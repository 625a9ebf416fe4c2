-------------------------- MODULE SnapshotRegister --------------------------
(***************************************************************************)
(* What a background collector promises to a scrape, without locks: the    *)
(* published snapshot is one atomic value.  A successful refresh replaces  *)
(* the whole of it; a failed one changes the success flag and the duration *)
(* of the last refresh, and nothing else.  A Collect takes the value at    *)
(* one instant between its call and its return.                            *)
(***************************************************************************)
CONSTANTS Readers,   \* goroutines that may be inside Collect
          Payload,   \* the fields a scrape fills: the metrics, their counts
          Tags,      \* what tells one refresh from another
          None       \* the zero value of a field that was never written

VARIABLES snapshot,  \* the published value, one entry per field
          phase,     \* phase[r]  : where Collect of r stands
          report     \* report[r] : what Collect of r emits

vars == <<snapshot, phase, report>>

Fields == Payload \cup {"refreshed", "success", "duration"}

Blank == [f \in Fields |-> IF f = "success" THEN 0 ELSE None]

Refreshed(t) == [f \in Fields |-> IF f = "success" THEN 1 ELSE t]

Failed(old, t) == [old EXCEPT !["success"] = 0, !["duration"] = t]

Init ==
  /\ snapshot = Blank
  /\ phase  = [r \in Readers |-> "idle"]
  /\ report = [r \in Readers |-> Blank]

PublishSuccess ==
  /\ \E t \in Tags : snapshot' = Refreshed(t)
  /\ UNCHANGED <<phase, report>>

PublishFailure ==
  /\ \E t \in Tags : snapshot' = Failed(snapshot, t)
  /\ UNCHANGED <<phase, report>>

Call(r) ==
  /\ phase[r] = "idle"
  /\ phase' = [phase EXCEPT ![r] = "called"]
  /\ UNCHANGED <<snapshot, report>>

Take(r) ==
  /\ phase[r] = "called"
  /\ phase'  = [phase EXCEPT ![r] = "taken"]
  /\ report' = [report EXCEPT ![r] = snapshot]
  /\ UNCHANGED snapshot

Return(r) ==
  /\ phase[r] = "taken"
  /\ phase'  = [phase EXCEPT ![r] = "idle"]
  /\ report' = [report EXCEPT ![r] = Blank]
  /\ UNCHANGED snapshot

Next ==
  \/ PublishSuccess
  \/ PublishFailure
  \/ \E r \in Readers : Call(r) \/ Take(r) \/ Return(r)

Spec == Init /\ [][Next]_vars

=============================================================================
