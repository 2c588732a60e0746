----------------------------- MODULE MCBridges -----------------------------
(***************************************************************************)
(* The bridges of pthr.c that make threads wait, and the log's lock.  They *)
(* share no state, so that one run checks them side by side: a behaviour   *)
(* is one of a single bridge, and the others stay as they began.           *)
(***************************************************************************)
EXTENDS OnceBridge, SemBridge, CondBridge, LogLock

VARIABLE bridge

vars == <<bridge, onceVars, semVars, condVars, logVars>>

Only(b, Step) ==
  /\ bridge = b /\ Step /\ UNCHANGED bridge
  /\ b # "once" => UNCHANGED onceVars
  /\ b # "sem" => UNCHANGED semVars
  /\ b # "cond" => UNCHANGED condVars
  /\ b # "log" => UNCHANGED logVars

MCInit ==
  /\ bridge \in {"once", "sem", "cond", "log"}
  /\ OnceInit /\ SemInit /\ LogInit /\ CondInit
  /\ bridge # "cond" => underLock /\ static /\ ~timed

MCNext ==
  Only("once", OnceNext) \/ Only("sem", SemNext) \/ Only("cond", CondNext) \/ Only("log", LogNext)

(* Each bridge with the fairness of its own specification: as only one of  *)
(* them runs, what it asks of one thread each can be asked in one formula. *)
Runs(t) ==
  \/ t \in Caller /\ Only("once", OnceStep(t))
  \/ t \in Client /\ Only("sem", EnterTimedWait(t) \/ Kernel(t) \/ ReturnAnswer(t))
  \/ t \in CondThread /\ Only("cond", CondStep(t))
  \/ t \in Thread /\ Only("log", LogStep(t))
Locks(t) ==
  \/ t \in CondThread /\ Only("cond", Lock(t))
  \/ t \in Thread /\ Only("log", Take(t))

MCSpec ==
  /\ MCInit /\ [][MCNext]_vars
  /\ WF_vars(Only("sem", Tick) \/ Only("cond", InitCond))
  /\ \A t \in Caller \cup Client \cup CondThread \cup Thread : WF_vars(Runs(t)) /\ SF_vars(Locks(t))
  /\ \A t \in CondThread : WF_vars(Only("cond", Notify(t)))

-----------------------------------------------------------------------------
(* Every wait ends: one with a deadline in any case, and one for an item   *)
(* with the item.                                                          *)
WaitsEnd == TimedWaitsReturn /\ WaitersServed
=============================================================================
