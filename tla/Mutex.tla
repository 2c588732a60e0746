-------------------------------- MODULE Mutex --------------------------------
(***************************************************************************)
(* What a POSIX mutex promises its client, and what the pthread bridge has *)
(* to keep: one holder at a time, who may hold it more than once only if   *)
(* the mutex is recursive.                                                 *)
(***************************************************************************)
EXTENDS Naturals

CONSTANTS Thread, NoThread

VARIABLES kind, holder, depth

mutexVars == <<kind, holder, depth>>

Kind == {"normal", "recursive", "errorcheck"}

MutexInit == kind \in Kind /\ holder = NoThread /\ depth = 0

Acquire(t) ==
  /\ holder = NoThread \/ (holder = t /\ kind = "recursive")
  /\ holder' = t
  /\ depth' = depth + 1
  /\ UNCHANGED kind

Release(t) ==
  /\ holder = t
  /\ depth' = depth - 1
  /\ holder' = IF depth = 1 THEN NoThread ELSE t
  /\ UNCHANGED kind

(* Initialised anew, perhaps as another kind, while nobody holds it.       *)
Renew ==
  /\ holder = NoThread
  /\ kind' \in Kind
  /\ UNCHANGED <<holder, depth>>

MutexNext == Renew \/ \E t \in Thread : Acquire(t) \/ Release(t)

MutexSpec == MutexInit /\ [][MutexNext]_mutexVars
=============================================================================
