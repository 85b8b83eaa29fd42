---------------------------- MODULE LeasedMemory ----------------------------
(***************************************************************************)
(* What sharing device memory between processes promises: the owner lends  *)
(* a block out any number of times, lets go of it when it likes, and the   *)
(* block is reclaimed only when the owner has let go of it and every loan  *)
(* has ended.  A loan that never ends keeps the block for ever.            *)
(***************************************************************************)
CONSTANTS
  Mems,   \* the blocks of memory
  Loans   \* the loans

VARIABLES
  owned,      \* the blocks the owner holds
  reclaimed,  \* the blocks that are back in the owner's allocator
  lent        \* the loans that have not ended, with the block of each

vars == <<owned, reclaimed, lent>>

Init == owned = Mems /\ reclaimed = {} /\ lent = {}

Lend(m, l) ==
  /\ m \in owned
  /\ lent' = lent \union {<<l, m>>}
  /\ UNCHANGED <<owned, reclaimed>>

\* Loans end one at a time, or several at once when a borrower dies.
End(ls) ==
  /\ lent' = lent \ ls
  /\ UNCHANGED <<owned, reclaimed>>

LetGo(m) ==
  /\ m \in owned
  /\ owned' = owned \ {m}
  /\ UNCHANGED <<reclaimed, lent>>

Reclaim(m) ==
  /\ m \notin owned /\ \A l \in Loans : <<l, m>> \notin lent
  /\ reclaimed' = reclaimed \union {m}
  /\ UNCHANGED <<owned, lent>>

\* Memory that was never lent is let go of and reclaimed in one step.
LetGoUnlent(m) ==
  /\ m \in owned /\ \A l \in Loans : <<l, m>> \notin lent
  /\ owned' = owned \ {m}
  /\ reclaimed' = reclaimed \union {m}
  /\ UNCHANGED lent

Next ==
  \/ \E m \in Mems : LetGo(m) \/ Reclaim(m) \/ LetGoUnlent(m)
  \/ \E m \in Mems, l \in Loans : Lend(m, l)
  \/ \E ls \in SUBSET lent : End(ls)

Spec == Init /\ [][Next]_vars
=============================================================================
