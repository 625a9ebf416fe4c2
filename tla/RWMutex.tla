------------------------------ MODULE RWMutex ------------------------------
(***************************************************************************)
(* sync.RWMutex of the Go runtime, as the background collectors use it:    *)
(* one writer (the collector's refresh goroutine) and the readers running  *)
(* Collect.  A writer that asks for the lock keeps out the readers that    *)
(* come after it; when it leaves, every reader it kept out gets in.        *)
(* The module is instantiated by its users, with their variable for rw.    *)
(***************************************************************************)
CONSTANT Readers

VARIABLE rw   \* readers : inside   waiting : kept out   writer : see below

RWType == [readers : SUBSET Readers,
           waiting : SUBSET Readers,
           writer  : {"out", "pending", "in"}]

RWFree == [readers |-> {}, waiting |-> {}, writer |-> "out"]

RLock(r) ==
  rw' = IF rw.writer = "out"
        THEN [rw EXCEPT !.readers = @ \cup {r}]
        ELSE [rw EXCEPT !.waiting = @ \cup {r}]

RUnlock(r) == rw' = [rw EXCEPT !.readers = @ \ {r}]

LockAsk == rw' = [rw EXCEPT !.writer = "pending"]

LockEnter ==
  /\ rw.readers = {}
  /\ rw' = [rw EXCEPT !.writer = "in"]

Unlock == rw' = [readers |-> rw.readers \cup rw.waiting,
                 waiting |-> {},
                 writer  |-> "out"]

=============================================================================
