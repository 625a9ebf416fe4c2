----------------------------- MODULE RedisScan -----------------------------
(***************************************************************************)
(* What ScanKeysFromDb of pkg/redis relies on: a SCAN iteration of Redis.  *)
(* The keys come in replies, between which the database may change.  When  *)
(* the cursor is back at 0, every key that was there from the first        *)
(* command to the last has been returned at least once.  A key may be      *)
(* returned again (Redis repeats keys when it resizes its table), and one  *)
(* that came or went meanwhile may be returned or not.  ScanKeysFromDb     *)
(* appends the replies as they come.                                       *)
(*                                                                         *)
(* The result is a bag: how often each key was returned.  A reply of       *)
(* several keys is a sequence of replies of one key.                       *)
(***************************************************************************)
EXTENDS Naturals

CONSTANTS Keys,    \* the keys the pattern may match
          Repeats  \* bound: how often SCAN may return a key again

VARIABLE scan   \* found : the keys returned so far   throughout : see above

ScanType == [found : [Keys -> 0 .. Repeats + 1], throughout : SUBSET Keys]

\* SCAN 0 is sent when the keys in present are in the database.
ScanOf(present) == [found |-> [k \in Keys |-> 0], throughout |-> present]

ScanReply(k) ==
  /\ scan.found[k] <= Repeats
  /\ scan' = [scan EXCEPT !.found[k] = @ + 1]

\* The cursor is 0.
ScanComplete == \A k \in scan.throughout : scan.found[k] > 0

\* The caller keeps the keys; Redis keeps nothing of the iteration.
ScanEnd == scan' = [scan EXCEPT !.throughout = {}]

\* The key k left the database.
ScanLoses(k) == scan' = [scan EXCEPT !.throughout = @ \ {k}]

=============================================================================
