---------------------------- MODULE RangedIntPool ----------------------------
(***************************************************************************)
(* The pool of integers from which link handles and wait handles come      *)
(* (src/src/x2net/Util/RangedIntPool.cs), as operators on its state: the   *)
(* set of values in use and the offset at which the next search begins.    *)
(* Both pools of the library start at 1 and advance, so a value released   *)
(* is given out again only after the search has come round.  Each call     *)
(* holds the lock of the bit array, so it is one step of its caller.       *)
(***************************************************************************)
EXTENDS Integers, FiniteSets

CONSTANT PoolSize  \* Config.MaxLinkHandles or Config.Coroutine.MaxWaitHandles

ASSUME PoolSizePositive == PoolSize \in Nat \ {0}

Handles == 1 .. PoolSize
Pool == [used : SUBSET Handles, offset : 0 .. PoolSize - 1]
EmptyPool == [used |-> {}, offset |-> 0]

Free(pool) == Handles \ pool.used
Exhausted(pool) == Free(pool) = {}

(* The values the search looks at: from the offset up, or from the start.  *)
Candidates(pool) ==
  LET ahead == {v \in Free(pool) : v > pool.offset}
  IN  IF ahead # {} THEN ahead ELSE Free(pool)

Smallest(S) == CHOOSE v \in S : \A w \in S : v =< w

(* What Acquire returns, when the pool is not exhausted.                   *)
Found(pool) == Smallest(Candidates(pool))

(* Mutant of Acquired: the value is not marked.                            *)
AcquiredUnmarked(pool) == [used |-> pool.used, offset |-> Found(pool) % PoolSize]

Acquired(pool) ==
  [used |-> pool.used \cup {Found(pool)}, offset |-> Found(pool) % PoolSize]

(* Mutant of Released: the index is not counted from the first value.      *)
ReleasedNext(pool, v) == [pool EXCEPT !.used = @ \ {v + 1}]

(* Release of a value that is not in use does nothing.                     *)
Released(pool, v) == [pool EXCEPT !.used = @ \ {v}]
=============================================================================
