------------------------------ MODULE SpinWord ------------------------------
(***************************************************************************)
(* The five spin locks of the repository as operations on the lock word.    *)
(* mwait_barrier/synch.h has spin_lock, spin_lock_fast and spin_lock_cas    *)
(* (a free word is 1); spin.c of the older programs has an exchange lock    *)
(* (a free word is 0) and spin_lock_v2 (a free word is 1 again).            *)
(*                                                                         *)
(* An Attempt is the one locked read-modify-write of a lock operation: it   *)
(* gives the word it leaves behind and whether the flags it set let the     *)
(* thread in.  SeesFree is the unlocked test of the spin loop that sends a  *)
(* thread back to try again.                                               *)
(***************************************************************************)
EXTENDS Integers

Decrementing == {"spin_lock", "spin_lock_fast", "spin_lock_v2"}

LockKind == Decrementing \cup {"spin_lock_cas", "spin_lock_xchg"}

\* Wrong forms of the operations below: every kind shares the free value 1;
\* the flag tested after the decrement is the opposite one; the exchange
\* writes the other convention's word; the spin loop goes back to try without
\* looking at the word.
UnlockedAlwaysOne(k) == 1
AttemptFastLess(w) == [word |-> w - 1, won |-> w - 1 <= 0]
AttemptCasStoresOne(w) == [word |-> 1, won |-> w = 1]
SpinWithoutTest(k, w) == TRUE

\* SPIN_LOCK_UNLOCKED of synch.h; spin_init of spin.h is its spin_unlock.
Unlocked(k) == IF k = "spin_lock_xchg" THEN 0 ELSE 1

\* lock; decl -- jns: in unless the result is negative
AttemptDec(w) == [word |-> w - 1, won |-> w - 1 >= 0]

\* lock; decl -- jne to the spin loop: in only if the result is zero
AttemptFast(w) == [word |-> w - 1, won |-> w - 1 = 0]

\* xchg with 0: in only if the old word was 1
AttemptCas(w) == [word |-> 0, won |-> w = 1]

\* xchg with 1: in only if the old word was 0
AttemptXchg(w) == [word |-> 1, won |-> w = 0]

\* lock; decl -- jns, the older copy
AttemptV2(w) == [word |-> w - 1, won |-> w - 1 >= 0]

Attempt(k, w) ==
    CASE k = "spin_lock"      -> AttemptDec(w)
      [] k = "spin_lock_fast" -> AttemptFast(w)
      [] k = "spin_lock_cas"  -> AttemptCas(w)
      [] k = "spin_lock_xchg" -> AttemptXchg(w)
      [] k = "spin_lock_v2"   -> AttemptV2(w)

\* cmpl $0 / jg (jle back) for the decrementing locks, cmpl with the free
\* value for the two that exchange
SeesFree(k, w) == IF k \in Decrementing THEN w > 0 ELSE w = Unlocked(k)

=============================================================================
