----------------------------- MODULE RedisKeys -----------------------------
(***************************************************************************)
(* ScanKeysFromDb of pkg/redis seen from its caller: one call, during      *)
(* which the database changes, and the slice it returns.  RedisScan is the *)
(* same call reply by reply; here only what the caller may be given is     *)
(* kept, so that a scrape with several SCANs stays small.                  *)
(*                                                                         *)
(* A window records, for the call in progress, the keys that were there    *)
(* from its first command on and those that were there at some moment.     *)
(***************************************************************************)
EXTENDS Naturals, Sequences, FiniteSets

CONSTANTS Keys,    \* the keys the pattern may match
          Repeats  \* bound: how many keys SCAN may return again

Windows == [throughout : SUBSET Keys, ever : SUBSET Keys]

\* SCAN 0 is sent when the keys in present are in the database.
Opened(present) == [throughout |-> present, ever |-> present]

\* The key k was written (present) or left the database.
Noted(w, k, present) ==
  IF present THEN [w EXCEPT !.ever = @ \cup {k}]
             ELSE [w EXCEPT !.throughout = @ \ {k}]

Listed(s) == {s[i] : i \in DOMAIN s}

\* The slices the call may return: every key that was there throughout, none
\* that never was, a few of them more than once, in any order.
Lists(w) ==
  {s \in UNION {[1 .. n -> w.ever] : n \in 0 .. Cardinality(w.ever) + Repeats} :
     /\ w.throughout \subseteq Listed(s)
     /\ Len(s) <= Cardinality(Listed(s)) + Repeats}

\* The same slices after sort.Strings; the order of the keys is that of numbers.
SortedLists(w) ==
  {s \in Lists(w) : \A i, j \in DOMAIN s : i <= j => s[i] <= s[j]}

\* How often each key is in the slice, for a caller to whom the order is nothing.
Counts(w) ==
  {f \in [w.ever -> 0 .. Repeats + 1] :
     /\ \A k \in w.throughout : f[k] > 0
     /\ Cardinality({k \in w.ever : f[k] > 1}) <= Repeats}

\* The keys of a Go map, sorted: the one slice of this set.
Ascending(S) ==
  {s \in [1 .. Cardinality(S) -> S] : \A i, j \in DOMAIN s : i < j => s[i] < s[j]}

IsRepeated(s) == Len(s) > Cardinality(Listed(s))

=============================================================================
